---------------------------- MODULE SortedNumbers ----------------------------
(* A finite set of numbers as a sequence, defined so that it can be reasoned  *)
(* about: the n-th element is the one that n elements do not exceed.          *)
EXTENDS Integers, FiniteSets, Sequences

Ascending(numbers) ==
  [n \in 1..Cardinality(numbers) |->
     CHOOSE m \in numbers : Cardinality({k \in numbers : k <= m}) = n]
=============================================================================
