---------------------------- MODULE PhonePolling ----------------------------
(***************************************************************************)
(* The polling loop of the phone (android MainActivity.java, beside the    *)
(* synchronisation that PhoneFeed models): lifecycle, changing the server, *)
(* requests, back-off and the notifications a page leads to.               *)
(*                                                                         *)
(* The main thread takes one message at a time from the Handler's queue;   *)
(* the network thread takes one job at a time from the executor's queue.   *)
(* The poll is the one message that may be delayed and is removed again.   *)
(* What has been posted by the network thread stays until it is taken.     *)
(* A job of a destroyed activity ends unseen: PhoneFeed has its cursor.    *)
(***************************************************************************)
EXTENDS VoiceNotifier, SortedNumbers

CONSTANTS
  Servers,     \* the addresses a user may enter
  None,        \* no address
  MaxConnects  \* bound: presses of Connect

ASSUME NoneIsNoServer == None \notin Servers
ASSUME ConnectsBound == MaxConnects \in Nat

VARIABLES
  saved,       \* KEY_SERVER_URL
  cursorOf,    \* KEY_EVENT_CURSOR_SERVER: the server of the stored cursor
  started,     \* between onStart and onStop
  screen,      \* setupPanel or dashboardPanel
  connectable, \* connectButton is enabled
  server,      \* serverUrl
  polling,
  inFlight,    \* requestInFlight
  failures,    \* failureCount, up to where the back-off does not grow further
  oldPending,  \* oldEventsPendingSummary
  status,      \* what liveStatus says, and of which server
  voice,       \* VoiceNotifier
  main,        \* the Handler's queue of due messages
  timer,       \* the delay of a delayed poll, 0 if there is none
  network,     \* the executor's jobs, the running one first
  syncing,     \* how the running job reads the event feed
  overtaken,   \* history variable: since its start the loop took another server's result
  oldOf,       \* history variable: the server of the old events pending
  connects     \* presses of Connect

durable == <<saved, cursorOf>>
view == <<started, screen, connectable, status>>
loop == <<server, polling, inFlight, failures>>
queues == <<main, timer>>
jobs == <<network, syncing>>
summary == <<oldPending, oldOf>>
vars == <<durable, view, loop, summary, voice, queues, jobs, overtaken, connects>>

PollMs == 2000
MaxBackoffMs == 30000

\* backoffMillis. From the fifth failure on it stays.
Steady == 5
BackoffMillis(count) ==
  LET exponent == IF count - 1 > 4 THEN 4 ELSE IF count < 1 THEN 0 ELSE count - 1
      delay == PollMs * 2 ^ exponent
  IN  IF delay > MaxBackoffMs THEN MaxBackoffMs ELSE delay

Poll == [kind |-> "poll"]
Message == {Poll, [kind |-> "unhealthy"]}
  \cup [kind : {"healthy", "schema", "unavailable", "failed"}, server : Servers]
  \cup [kind : {"answer"}, server : Servers, sync : {"baseline", "page", "error"}]
Job == [kind : {"health", "state"}, server : Servers]

PollingTypeOK ==
  /\ saved \in Servers \cup {None} /\ cursorOf \in Servers \cup {None}
  /\ server \in Servers \cup {None}
  /\ {started, connectable, polling, inFlight, oldPending, overtaken} \subseteq BOOLEAN
  /\ screen \in {"setup", "dashboard"}
  /\ status \in [says : {"connecting", "live", "waiting", "offline", "schema"},
                 of : Servers \cup {None}]
  /\ failures \in 0..Steady
  /\ timer \in {0} \cup {BackoffMillis(n) : n \in 0..Steady}
  /\ voice \in Voice /\ Len(voice.pending) <= MaxPending
  /\ main \in Seq(Message)
  /\ network \in Seq(Job)
  /\ syncing \in {"no", "baseline", "page"}
  /\ connects \in 0..MaxConnects

\* onCreate.
PollingInit ==
  /\ saved \in {None} \cup Servers /\ cursorOf \in {None, saved}
  /\ started = FALSE /\ screen = "setup" /\ connectable = TRUE
  /\ status = [says |-> "connecting", of |-> None]
  /\ server = None /\ polling = FALSE /\ inFlight = FALSE /\ failures = 0
  /\ oldPending = FALSE /\ oldOf = None /\ voice = NewVoice
  /\ main = <<>> /\ timer = 0 /\ network = <<>> /\ syncing = "no"
  /\ overtaken = FALSE /\ connects = 0

-----------------------------------------------------------------------------
(* The parts the handlers share. Each says what becomes of the queue that    *)
(* the message handled has been taken from.                                  *)

\* removeCallbacks(pollRunnable).
WithoutPoll(queue) ==
  LET kept == Ascending({n \in DOMAIN queue : queue[n] # Poll})
  IN  [n \in DOMAIN kept |-> queue[kept[n]]]

StartPolling(queue) ==
  IF polling
  THEN main' = queue /\ UNCHANGED <<polling, timer>>
  ELSE polling' = TRUE /\ main' = Append(WithoutPoll(queue), Poll) /\ timer' = 0

\* Seeded fault: the loop is unscheduled, but counts as running.
StopPollingUnsaid(queue) == UNCHANGED polling /\ main' = WithoutPoll(queue) /\ timer' = 0

StopPolling(queue) == polling' = FALSE /\ main' = WithoutPoll(queue) /\ timer' = 0

\* scheduleNext, polling.
ScheduleNext(queue, delay) == main' = WithoutPoll(queue) /\ timer' = delay

ShowSetup == screen' = "setup" /\ connectable' = TRUE /\ UNCHANGED <<started, status>>

ShowDashboard(of) ==
  /\ screen' = "dashboard"
  /\ status' = [says |-> "connecting", of |-> of]
  /\ UNCHANGED connectable

-----------------------------------------------------------------------------
(* The user and the system.                                                 *)

OnStart ==
  /\ ~ started
  /\ started' = TRUE
  /\ server' = saved
  /\ IF saved = None
     THEN /\ screen' = "setup" /\ connectable' = TRUE
          /\ UNCHANGED <<status, polling, queues, overtaken>>
     ELSE /\ ShowDashboard(saved)
          /\ StartPolling(main)
          /\ overtaken' = (overtaken /\ polling)
  /\ UNCHANGED <<durable, inFlight, failures, summary, voice, jobs, connects>>

\* Seeded fault: leaving the activity frees the place of the request under way.
OnStopFreeing ==
  /\ started
  /\ started' = FALSE
  /\ StopPolling(main)
  /\ inFlight' = FALSE
  /\ UNCHANGED <<durable, screen, connectable, status, server, failures, summary,
                 voice, jobs, overtaken, connects>>

OnStop ==
  /\ started
  /\ started' = FALSE
  /\ StopPolling(main)
  /\ UNCHANGED <<durable, screen, connectable, status, server, inFlight, failures,
                 summary, voice, jobs, overtaken, connects>>

\* onDestroy, and onCreate of the next activity, on the preferences left.
Recreate ==
  /\ ~ started
  /\ screen' = "setup" /\ connectable' = TRUE
  /\ status' = [says |-> "connecting", of |-> None]
  /\ server' = None /\ polling' = FALSE /\ inFlight' = FALSE /\ failures' = 0
  /\ oldPending' = FALSE /\ oldOf' = None /\ voice' = NewVoice
  /\ main' = <<>> /\ timer' = 0 /\ network' = <<>> /\ syncing' = "no"
  /\ overtaken' = FALSE
  /\ UNCHANGED <<durable, started, connects>>

\* changeServerButton.
ChangeServer ==
  /\ started /\ screen = "dashboard"
  /\ StopPolling(main)
  /\ ShowSetup
  /\ UNCHANGED <<durable, server, inFlight, failures, summary, voice, jobs, overtaken, connects>>

\* testAndSaveServer, with an address that is well formed.
Connect(candidate) ==
  /\ started /\ screen = "setup" /\ connectable
  /\ connects < MaxConnects
  /\ connects' = connects + 1
  /\ connectable' = FALSE
  /\ network' = Append(network, [kind |-> "health", server |-> candidate])
  /\ UNCHANGED <<durable, started, screen, status, loop, summary, voice, queues,
                 syncing, overtaken>>

\* The engine calls back once.
EngineStarts ==
  /\ voice.engine = "starting"
  /\ \/ voice' = EngineReady(voice)
     \/ voice' = EngineUnusable(voice)
  /\ UNCHANGED <<durable, view, loop, summary, queues, jobs, overtaken, connects>>

UserStep == OnStart \/ OnStop \/ Recreate \/ ChangeServer \/ \E s \in Servers : Connect(s)

-----------------------------------------------------------------------------
(* The network thread.                                                      *)

JobEnds(message) ==
  /\ network' = Tail(network)
  /\ syncing' = "no"
  /\ main' = Append(main, message)
  /\ UNCHANGED <<view, loop, summary, voice, timer, overtaken, connects>>

\* checkHealth of an address the user entered.
CheckHealth ==
  /\ network # <<>> /\ network[1].kind = "health"
  /\ \/ JobEnds([kind |-> "healthy", server |-> network[1].server])
     \/ JobEnds([kind |-> "unhealthy"])
  /\ UNCHANGED durable

\* fetchState fails: another schema, a Hub without a snapshot, anything else.
StateFails ==
  /\ network # <<>> /\ network[1].kind = "state" /\ syncing = "no"
  /\ \E kind \in {"schema", "unavailable", "failed"} :
       JobEnds([kind |-> kind, server |-> network[1].server])
  /\ UNCHANGED durable

\* fetchState went well; syncEvents reads the cursor.
FetchState ==
  /\ network # <<>> /\ network[1].kind = "state" /\ syncing = "no"
  /\ syncing' = IF cursorOf = network[1].server THEN "page" ELSE "baseline"
  /\ UNCHANGED <<durable, view, loop, summary, voice, queues, network, overtaken, connects>>

\* The events: a page, which may turn out to be a baseline, saved or failed.
SyncEvents ==
  /\ syncing # "no"
  /\ \/ \E sync \in {syncing, "baseline"} :
          /\ cursorOf' = network[1].server
          /\ JobEnds([kind |-> "answer", server |-> network[1].server, sync |-> sync])
     \/ /\ UNCHANGED cursorOf
        /\ JobEnds([kind |-> "answer", server |-> network[1].server, sync |-> "error"])
  /\ UNCHANGED saved

NetworkStep == CheckHealth \/ StateFails \/ FetchState \/ SyncEvents

-----------------------------------------------------------------------------
(* The main thread.                                                         *)

Taken(kind) == main # <<>> /\ main[1].kind = kind

\* postDelayed is due.
TimerFires ==
  /\ timer > 0
  /\ timer' = 0
  /\ main' = Append(main, Poll)
  /\ UNCHANGED <<durable, view, loop, summary, voice, jobs, overtaken, connects>>

RequestState ==
  /\ Taken("poll")
  /\ main' = Tail(main)
  /\ IF polling /\ server # None /\ ~ inFlight
     THEN /\ inFlight' = TRUE
          /\ network' = Append(network, [kind |-> "state", server |-> server])
     ELSE UNCHANGED <<inFlight, network>>
  /\ UNCHANGED <<durable, view, server, polling, failures, summary, voice, timer,
                 syncing, overtaken, connects>>

\* The address answered: it is saved, and the loop started if none runs.
Healthy ==
  /\ Taken("healthy")
  /\ LET candidate == main[1].server IN
     /\ saved' = candidate
     /\ cursorOf' = IF candidate = saved THEN cursorOf ELSE None
     /\ oldPending' = (candidate = saved /\ oldPending)
     /\ oldOf' = IF candidate = saved THEN oldOf ELSE None
     /\ server' = candidate /\ failures' = 0
     /\ ShowDashboard(candidate)
     /\ StartPolling(Tail(main))
     /\ overtaken' = (overtaken /\ polling)
  /\ UNCHANGED <<started, inFlight, voice, jobs, connects>>

Unhealthy ==
  /\ Taken("unhealthy")
  /\ main' = Tail(main)
  /\ connectable' = TRUE
  /\ UNCHANGED <<durable, started, screen, status, loop, summary, voice, timer, jobs,
                 overtaken, connects>>

\* The callback of an incompatible schema stops the loop whoever it belongs to.
SchemaUnsupported ==
  /\ Taken("schema")
  /\ main' = Tail(main)
  /\ inFlight' = FALSE
  /\ polling' = FALSE
  /\ status' = [says |-> "schema", of |-> main[1].server]
  /\ overtaken' = (overtaken \/ main[1].server # server)
  /\ UNCHANGED <<durable, started, screen, connectable, server, failures, summary, voice,
                 timer, jobs, connects>>

\* Seeded fault: a result is taken for that of the present server.
ConcernsAnyone == polling

\* The test the callbacks of a request begin with.
Concerns == polling /\ main[1].server = server

\* Seeded fault: the callback returns before it has cleared the flag.
UnwantedKeepsPlace ==
  /\ main # <<>> /\ main[1].kind \in {"unavailable", "failed", "answer"}
  /\ ~ Concerns
  /\ main' = Tail(main)
  /\ overtaken' = (overtaken \/ polling)
  /\ UNCHANGED <<durable, view, loop, summary, voice, timer, jobs, connects>>

\* A request that is no longer wanted only frees its place.
Unwanted ==
  /\ main # <<>> /\ main[1].kind \in {"unavailable", "failed", "answer"}
  /\ ~ Concerns
  /\ inFlight' = FALSE
  /\ main' = Tail(main)
  /\ overtaken' = (overtaken \/ polling)
  /\ UNCHANGED <<durable, view, server, polling, failures, summary, voice, timer, jobs,
                 connects>>

\* showOffline: a Hub without a snapshot is not a failure.
RequestFailed ==
  /\ main # <<>> /\ main[1].kind \in {"unavailable", "failed"}
  /\ Concerns
  /\ inFlight' = FALSE
  /\ failures' = CASE main[1].kind = "unavailable" -> 0
                   [] failures = Steady -> Steady
                   [] OTHER -> failures + 1
  /\ status' = [says |-> IF main[1].kind = "unavailable" THEN "waiting" ELSE "offline",
                of |-> main[1].server]
  /\ ScheduleNext(Tail(main), BackoffMillis(failures'))
  /\ UNCHANGED <<durable, started, screen, connectable, server, polling, summary, voice,
                 jobs, overtaken, connects>>

\* handleEventSync: fresh events are spoken one by one; old ones, in the end,
\* by one summary, unless the night keeps both silent (quiet: so does the user's
\* switch, and a page without such events).
HandleEventSync(sync, of) ==
  \/ /\ sync = "baseline"
     /\ oldPending' = FALSE /\ oldOf' = None
     /\ UNCHANGED voice
  \/ /\ sync = "error"
     /\ UNCHANGED <<summary, voice>>
  \/ /\ sync = "page"
     /\ \E fresh, old, caughtUp, quiet \in BOOLEAN :
          LET flag == oldPending \/ old
              speaks == caughtUp /\ flag /\ ~ quiet
              told == IF fresh THEN Said(voice) ELSE voice
          IN
          /\ quiet => ~ fresh /\ ~ old
          /\ voice' = IF speaks THEN Said(told) ELSE told
          /\ voice'.texts <= MaxTexts
          /\ oldPending' = (flag /\ ~ speaks)
          /\ oldOf' = IF oldPending' THEN (IF old THEN of ELSE oldOf) ELSE None

Answered ==
  /\ Taken("answer")
  /\ Concerns
  /\ inFlight' = FALSE
  /\ failures' = 0
  /\ status' = [says |-> "live", of |-> main[1].server]
  /\ HandleEventSync(main[1].sync, main[1].server)
  /\ ScheduleNext(Tail(main), PollMs)
  /\ UNCHANGED <<durable, started, screen, connectable, server, polling, jobs, overtaken, connects>>

MainStep ==
  RequestState \/ Healthy \/ Unhealthy \/ SchemaUnsupported \/ Unwanted \/ RequestFailed \/ Answered

PollingNext == UserStep \/ EngineStarts \/ NetworkStep \/ TimerFires \/ MainStep

\* The Looper runs, delays pass, and requests end at their timeouts.
PollingSpec ==
  /\ PollingInit /\ [][PollingNext]_vars
  /\ WF_vars(MainStep) /\ WF_vars(TimerFires) /\ WF_vars(NetworkStep)

-----------------------------------------------------------------------------
PollsPending == Len(main) - Len(WithoutPoll(main)) + IF timer > 0 THEN 1 ELSE 0

RequestsUnderWay ==
  Cardinality({n \in DOMAIN network : network[n].kind = "state"}) +
  Cardinality({n \in DOMAIN main : main[n].kind \in {"schema", "unavailable", "failed", "answer"}})

\* docs/ANDROID_IMPLEMENTATION.md: "Only one request may be in flight",
\* docs/UI_DESIGN_PLAN.md: "verify one active polling loop only": whatever is
\* stopped, started and connected, from requestState to the callback there is
\* one request exactly while the flag says so, and there is never a second poll.
OnePollLoop ==
  /\ RequestsUnderWay = IF inFlight THEN 1 ELSE 0
  /\ PollsPending <= 1

\* Nothing will ever happen on a dashboard that is not there to report a schema.
Stands ==
  /\ screen = "dashboard" /\ started
  /\ PollsPending = 0 /\ RequestsUnderWay = 0
  /\ status # [says |-> "schema", of |-> server]

\* docs/ANDROID_IMPLEMENTATION.md: "It polls /api/v1/state every two seconds
\* after a successful response", failures are retried, "Returning to the
\* Activity restarts polling": the dashboard of a started activity is waiting
\* for a poll or a request, or reports an unsupported schema.
LoopIsAlive == ~ Stands

\* A loop that stands has, since it was started, taken the result of a request
\* to another address. Nothing else makes it stand.
StandsOnlyOvertaken == Stands => overtaken

\* What the dashboard says of the connection is about the server it names, and
\* the summary of old events about the server they came from: no late result of
\* a former server is taken for one of the present server, except a schema's,
\* whose callback does not compare.
NothingOfFormerServer ==
  /\ screen = "dashboard" /\ status.says # "schema" => status.of = server
  /\ oldPending => oldOf = server

\* Speech: VoiceNotifier's promise, for the texts the pages led to.
SpeechInOrder == SpeechIsNewestInOrder(voice)

\* A loop that keeps running, and was not overtaken, requests the state again
\* and again, through failures, back-off and whatever the user tried before.
PollsAgain ==
  <>[](polling /\ ~ overtaken) => []<>(\E n \in DOMAIN network : network[n].kind = "state")
============================================================================
