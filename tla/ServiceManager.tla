--------------------------- MODULE ServiceManager ---------------------------
(***************************************************************************)
(* The Windows service of the agent as its administration sees it: the     *)
(* files it is started from, the service manager's state of it, and its    *)
(* process (agent/internal/platform/winservice/service_windows.go and      *)
(* runConfigured of agent/cmd/ai-control-agent/commands.go).               *)
(*                                                                         *)
(* The service manager is external: it starts the file the service is      *)
(* registered with, and restarts a process that failed some seconds later, *)
(* whatever an administrator is doing at that moment. Windows lets a file  *)
(* that a process runs from be renamed and not be deleted.                 *)
(***************************************************************************)
EXTENDS Integers

CONSTANTS
  Executables,  \* builds of the agent that answer `version`
  Configs,      \* contents of agent.json
  Broken,       \* the builds that end soon after their start, the contents every build ends with
  MaxFaults,    \* bound: failing calls, killed commands, failing processes, reboots
  Absent,       \* no file, no executable
  Torn          \* a file whose copying was cut off

ASSUME FaultBound == MaxFaults \in Nat
ASSUME AbsentIsNoBuild == Absent \notin Executables \cup Configs
ASSUME TornIsNoBuild == Torn \notin Executables \cup Configs \cup {Absent}

VARIABLES
  disk,       \* the content of each file
  installed,  \* the service is registered
  actions,    \* which ends its recovery actions are for: none, crashes, all failures
  state,      \* svc.State of the service
  process,    \* the build and the configuration the process started with, and its file
  recovery,   \* the service manager will restart the failed service
  faults      \* faults left

serviceVars == <<disk, installed, actions, state, process, recovery, faults>>

\* The installed executable, upgrade's copies (.upgrade.new, .upgrade.bak),
\* install's (.new, .bak), agent.json and its copies (.tmp, .bak).
Paths == {"target", "upgradeNew", "upgradeBak", "targetNew", "targetBak",
          "config", "configTmp", "configBak"}
Contents == Executables \cup Configs \cup {Absent, Torn}

NoProcess == [exe |-> Absent, config |-> Absent, at |-> "none"]

ServiceTypeOK ==
  /\ disk \in [Paths -> Contents]
  /\ installed \in BOOLEAN
  /\ actions \in {"none", "crash", "failure"}
  /\ state \in {"stopped", "start-pending", "running", "stop-pending"}
  /\ process \in [exe : Contents, config : Contents, at : Paths \cup {"none"}]
  /\ (process = NoProcess) = (state = "stopped")
  /\ recovery \in BOOLEAN
  /\ faults \in 0..MaxFaults

Works == UNCHANGED faults
Fails == faults > 0 /\ faults' = faults - 1

\* The call fails and so does the one that should undo what went before it.
FailsTwice == faults > 1 /\ faults' = faults - 2

Removed(files, path) == [files EXCEPT ![path] = Absent]
Moved(files, from, to) == [files EXCEPT ![to] = files[from], ![from] = Absent]

\* os.Rename: the process keeps running from the file under its new name.
Rename(files, from, to) ==
  /\ disk' = Moved(files, from, to)
  /\ process' = IF process.at = from THEN [process EXCEPT !.at = to] ELSE process

\* Whether runConfigured gets to serve: it loads agent.json, then the secret,
\* and binds the port.
Fit(exe, config) == exe \in Executables \ Broken /\ config \in Configs \ Broken

Serving == state = "running" /\ Fit(process.exe, process.config)

CanLaunch == installed /\ state = "stopped" /\ disk["target"] # Absent

Launch ==
  /\ CanLaunch
  /\ state' = "start-pending"
  /\ process' = [exe |-> disk["target"], config |-> disk["config"], at |-> "target"]

-----------------------------------------------------------------------------
\* handler.Execute: Running is reported after 500 ms, whatever the runner does.
ReportRunning ==
  /\ state = "start-pending"
  /\ state' = "running"
  /\ UNCHANGED <<disk, installed, actions, process, recovery, faults>>

\* Seeded fault: the process is still taken to run.
EndsUnseen(failed) ==
  /\ state' = "stopped"
  /\ recovery' = (failed \/ recovery)
  /\ UNCHANGED <<disk, installed, actions, process>>

\* The recovery actions count a runner that returned an error as a failure only
\* when they are set for more than crashes.
Ends(failed) ==
  /\ state' = "stopped"
  /\ process' = NoProcess
  /\ \/ failed /\ actions # "none" /\ recovery' = TRUE
     \/ ~ (failed /\ actions = "failure") /\ UNCHANGED recovery
  /\ UNCHANGED <<disk, installed, actions>>

\* The runner returns an error: at once when it cannot serve, later by a fault.
ProcessFails ==
  /\ state \in {"start-pending", "running"}
  /\ \/ Works /\ ~ Fit(process.exe, process.config)
     \/ Fails /\ Fit(process.exe, process.config)
  /\ Ends(TRUE)

\* The runner ends after Stop: cleanly, with an error, or not within ten
\* seconds; the service manager counts the last two as failures.
ProcessStops ==
  /\ state = "stop-pending"
  /\ \/ Works /\ Ends(FALSE)
     \/ Works /\ ~ Fit(process.exe, process.config) /\ Ends(TRUE)
     \/ Fails /\ Fit(process.exe, process.config) /\ Ends(TRUE)

\* SetRecoveryActions: restart after 5, 15, 60 seconds.
Recover ==
  /\ recovery
  /\ recovery' = FALSE
  /\ IF CanLaunch THEN Launch ELSE UNCHANGED <<state, process>>
  /\ UNCHANGED <<disk, installed, actions, faults>>

ServiceStep == ReportRunning \/ ProcessFails \/ ProcessStops \/ Recover
============================================================================
