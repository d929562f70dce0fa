--------------------------- MODULE MCPhonePolling ---------------------------
(* Two addresses, one press of Connect, three texts of which two may wait. *)
EXTENDS PhonePolling

CONSTANTS a, b

\* backoffMillis doubles from two seconds and is capped at thirty.
ASSUME BackoffIsCapped ==
  \A n \in 0..40 :
    /\ BackoffMillis(n) \in PollMs..MaxBackoffMs
    /\ BackoffMillis(n) <= BackoffMillis(n + 1)
    /\ n >= Steady => BackoffMillis(n) = BackoffMillis(Steady)
============================================================================
