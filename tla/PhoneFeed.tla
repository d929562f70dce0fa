----------------------------- MODULE PhoneFeed -----------------------------
(***************************************************************************)
(* The phone's side of the event feed (android MainActivity.requestState,  *)
(* syncEvents, handleEventSync; StateClient.fetchEvents; EventPage) against *)
(* the Hub's page handler (hub/server.go handleEvents), while agents       *)
(* upload and the Hub prunes.                                              *)
(*                                                                         *)
(* One sync is: read the cursor and send the request; the Hub reads the    *)
(* retention floor; the Hub lists the page; the network thread validates   *)
(* it and commits the new cursor; the UI thread handles the events. Every  *)
(* boundary between two of these is a step where other things happen.      *)
(*                                                                         *)
(* A recreated activity (rotation) starts anew with the saved cursor while *)
(* the previous activity's network thread may still be at work: it keeps   *)
(* fetching and commits its cursor too, but its UI callback is discarded.  *)
(***************************************************************************)
EXTENDS HubEvents, SortedNumbers

CONSTANTS
  Primary,   \* the agent whose feed the Hub serves
  PageLimit, \* EVENT_PAGE_LIMIT: rows per page once a cursor exists
  NoCursor,  \* no cursor persisted for this server
  Orphans    \* bound: whether a destroyed activity's network thread may live on

ASSUME PrimaryIsAnAgent == Primary \in Agents
ASSUME PageLimitPositive == PageLimit \in Nat \ {0}
\* The preferences hold a position, or nothing.
ASSUME NoCursorIsNoPosition == NoCursor \notin Nat
ASSUME OrphansIsBoolean == Orphans \in BOOLEAN

VARIABLES
  cursor,   \* KEY_EVENT_CURSOR in the durable preferences
  polling,  \* the activity is started and polls
  sync,     \* the synchronisation the activity has in flight
  orphan,   \* one left behind by a destroyed activity
  handled,  \* history variable: seqs given to the notification policy, in order
  accounted, \* history variable: seqs committed as page items, or skipped openly
  regressed \* history variable: an orphan moved the cursor back; handled is given up

phoneVars == <<cursor, polling, sync, orphan, handled, accounted, regressed>>
ghosts == <<handled, accounted, regressed>>
vars == <<hubVars, phoneVars>>

Idle == [phase |-> "idle"]

PhoneInit ==
  /\ HubInit
  /\ cursor = NoCursor
  /\ polling = TRUE
  /\ sync = Idle
  /\ orphan = Idle
  /\ handled = <<>>
  /\ accounted = {}
  /\ regressed = FALSE

-----------------------------------------------------------------------------
(* One synchronisation, as the record it turns into.                        *)

\* syncEvents reads the persisted cursor and asks for one row without one.
Requested ==
  [phase |-> "requested", after |-> cursor,
   limit |-> IF cursor = NoCursor THEN 1 ELSE PageLimit]

\* The after= parameter of a first request is 0.
After(s) == IF s.after = NoCursor THEN 0 ELSE s.after

\* handleEvents, first store call.
Bounded(s) ==
  [phase |-> "bounded", after |-> s.after, limit |-> s.limit,
   oldest |-> OldestSeq(Primary)]

NextAfter(items, after) == IF items = {} THEN after ELSE Largest(items)

\* handleEvents, second store call, and the response.
Served(s) ==
  LET items == Seqs(PageRows(Primary, After(s), s.limit))
  IN  [phase |-> "served", after |-> s.after, oldest |-> s.oldest, items |-> items,
       next |-> NextAfter(items, After(s)), latest |-> LatestSeq(Primary)]

\* Seeded fault: the floor is compared with latestSeq even when that is 0.
FloorPlausibleAlways(page) == page.oldest <= page.latest

\* EventPage.parse: the two store calls may see different tables, and the
\* last row may go between them.
FloorPlausible(page) ==
  page.oldest > 0 /\ page.latest > 0 => page.oldest <= page.latest

\* EventPage.validateForRequest.
PageAccepted(page) ==
  /\ FloorPlausible(page)
  /\ \A s \in page.items : s > After(page)
  /\ page.next = NextAfter(page.items, After(page))
  /\ page.items # {} => page.latest >= page.next

\* EventPage.requiresRebase.
CursorPredatesRetention(page) == page.oldest > 0 /\ After(page) < page.oldest - 1
RequiresRebase(page) ==
  \/ page.items = {} /\ page.latest < After(page)
  \/ CursorPredatesRetention(page)

Rebased(page)    == page.after # NoCursor /\ RequiresRebase(page)
Baseline(page)   == page.after = NoCursor \/ Rebased(page)

\* Seeded fault: the cursor means the next expected seq.
NextCursorOneAhead(page) == IF Baseline(page) THEN page.latest + 1 ELSE page.next + 1

\* Seeded fault: the requested cursor is saved, not nextAfter.
NextCursorRequested(page) == IF Baseline(page) THEN page.latest ELSE After(page)

\* Seeded fault: the cursor jumps to latestSeq when more pages remain.
NextCursorLatest(page) == page.latest

NextCursor(page) == IF Baseline(page) THEN page.latest ELSE page.next

\* syncEvents commits the cursor on the network thread, before the UI
\* thread sees the page.
CommitCursor(page) ==
  /\ cursor' = NextCursor(page)
  /\ accounted' = accounted \cup
       (IF Baseline(page) THEN {s \in 1..page.latest : s > After(page)} ELSE page.items)

-----------------------------------------------------------------------------
(* The activity's own synchronisation.                                      *)

\* requestState: polling, and requestInFlight was clear; fetchState went well.
RequestPage ==
  /\ polling
  /\ sync = Idle
  /\ sync' = Requested
  /\ UNCHANGED <<hubVars, cursor, polling, orphan, ghosts>>

ReadFloor ==
  /\ sync.phase = "requested"
  /\ sync' = Bounded(sync)
  /\ UNCHANGED <<hubVars, cursor, polling, orphan, ghosts>>

ServePage ==
  /\ sync.phase = "bounded"
  /\ sync' = Served(sync)
  /\ UNCHANGED <<hubVars, cursor, polling, orphan, ghosts>>

SaveCursor ==
  /\ sync.phase = "served"
  /\ PageAccepted(sync)
  /\ CommitCursor(sync)
  /\ sync' = [phase |-> "saved", baseline |-> Baseline(sync), items |-> sync.items]
  /\ UNCHANGED <<hubVars, polling, orphan, handled, regressed>>

\* Seeded fault: an error path that forgets to clear requestInFlight.
SyncFailsInFlight ==
  /\ sync.phase \in {"requested", "bounded", "served"}
  /\ sync' = [phase |-> "stuck"]
  /\ UNCHANGED <<hubVars, cursor, polling, orphan, ghosts>>

\* A network error, a page the parser refuses, a preferences file that cannot
\* be written: handleEventError, the cursor stays and polling goes on.
SyncFails ==
  /\ sync.phase \in {"requested", "bounded", "served"}
  /\ sync' = Idle
  /\ UNCHANGED <<hubVars, cursor, polling, orphan, ghosts>>

\* handleEventSync on the UI thread, the items in the order the page lists them.
HandleEvents ==
  /\ sync.phase = "saved"
  /\ polling
  /\ handled' = IF sync.baseline \/ regressed THEN handled
                                             ELSE handled \o Ascending(sync.items)
  /\ sync' = Idle
  /\ UNCHANGED <<hubVars, cursor, polling, orphan, accounted, regressed>>

\* The UI callback returns early because polling stopped meanwhile.
DropResult ==
  /\ sync.phase = "saved"
  /\ ~ polling
  /\ sync' = Idle
  /\ UNCHANGED <<hubVars, cursor, polling, orphan, ghosts>>

-----------------------------------------------------------------------------
(* The network thread of a destroyed activity.                              *)

OrphanReadsFloor ==
  /\ orphan.phase = "requested"
  /\ orphan' = Bounded(orphan)
  /\ UNCHANGED <<hubVars, cursor, polling, sync, ghosts>>

OrphanIsServed ==
  /\ orphan.phase = "bounded"
  /\ orphan' = Served(orphan)
  /\ UNCHANGED <<hubVars, cursor, polling, sync, ghosts>>

OrphanSaves ==
  /\ orphan.phase = "served"
  /\ PageAccepted(orphan)
  /\ CommitCursor(orphan)
  /\ regressed' = (regressed \/ (cursor # NoCursor /\ cursor' < cursor))
  /\ handled' = IF regressed' THEN <<>> ELSE handled
  /\ orphan' = Idle
  /\ UNCHANGED <<hubVars, polling, sync>>

OrphanDies ==
  /\ orphan # Idle
  /\ orphan' = Idle
  /\ UNCHANGED <<hubVars, cursor, polling, sync, ghosts>>

-----------------------------------------------------------------------------
(* The activity's lifecycle, and everyone else.                             *)

\* onStop, or a state of an unsupported schema. What the network thread has
\* begun runs on.
StopPolling ==
  /\ polling
  /\ polling' = FALSE
  /\ UNCHANGED <<hubVars, cursor, sync, orphan, ghosts>>

\* onStart; of a new activity when the last one was destroyed.
StartPolling ==
  /\ ~ polling
  /\ polling' = TRUE
  /\ UNCHANGED <<hubVars, cursor, sync, orphan, ghosts>>

\* onDestroy. The network thread dies with the process, or lives on as an
\* orphan (bound: one orphan at a time).
Destroy ==
  /\ polling' = FALSE
  /\ sync' = Idle
  /\ \/ orphan' = Idle
     \/ /\ Orphans /\ orphan = Idle
        /\ sync.phase \in {"requested", "bounded", "served"}
        /\ orphan' = sync
  /\ UNCHANGED <<hubVars, cursor, ghosts>>

AgentUploads == Upload /\ UNCHANGED phoneVars
Maintenance == HubMaintenance /\ UNCHANGED phoneVars
ClockTicks  == Tick /\ UNCHANGED phoneVars

PhoneNext ==
  \/ RequestPage
  \/ ReadFloor
  \/ ServePage
  \/ SaveCursor
  \/ SyncFails
  \/ HandleEvents
  \/ DropResult
  \/ OrphanReadsFloor
  \/ OrphanIsServed
  \/ OrphanSaves
  \/ OrphanDies
  \/ StopPolling
  \/ StartPolling
  \/ Destroy
  \/ AgentUploads
  \/ Maintenance
  \/ ClockTicks

\* A started activity polls every two seconds and requests time out, so each
\* step of a sync that stays possible is taken; requests may fail, but the
\* Hub answers again and again.
PhoneFairness ==
  /\ WF_vars(RequestPage)
  /\ SF_vars(ReadFloor)
  /\ SF_vars(ServePage)
  /\ SF_vars(SaveCursor)
  /\ WF_vars(HandleEvents)
  /\ WF_vars(DropResult)

PhoneSpec == PhoneInit /\ [][PhoneNext]_vars /\ PhoneFairness

-----------------------------------------------------------------------------
(* What the feed promises the user of the phone.                            *)

\* The phone never refuses a page this Hub serves, whatever is uploaded or
\* pruned between the floor, the page and the previous cursor: no cursor can
\* wedge the feed.
ServedPageIsAccepted ==
  \A s \in {sync, orphan} : s.phase = "served" => PageAccepted(s)

\* server.go: the page never holds an event below the floor it reports,
\* although the two are read under separate locks.
PageIsAboveItsFloor ==
  \A s \in {sync, orphan} :
    s.phase = "served" => \A seq \in s.items : s.oldest <= seq

\* Events reach the notification policy in ascending order and at most once,
\* as long as no orphaned thread has moved the cursor back.
HandledInOrder ==
  \A i, j \in DOMAIN handled : i < j => handled[i] < handled[j]

\* The cursor passes a retained event only with a page that held it or with
\* a baseline that said so.
NoRetainedEventSkipped ==
  cursor # NoCursor =>
    \A r \in RowsOf(Primary) : r.seq <= cursor => r.seq \in accounted

\* A phone that keeps polling a Hub that answers again and again catches up
\* with the feed again and again, through rebases, failures and pruning.
CatchesUp ==
  <>[]polling => []<>(cursor # NoCursor /\ cursor >= LatestSeq(Primary))

\* docs/API.md: "After successfully processing a page, Android persists
\* nextAfter": a committed page is not given up before it was handled.
CommittedPageIsHandled ==
  [][sync.phase = "saved" /\ ~ sync.baseline /\ sync.items # {} /\ sync' = Idle
       => HandleEvents]_vars
============================================================================
