-------------------------- MODULE ServiceCommands --------------------------
(***************************************************************************)
(* The administrator's commands on the installed agent: service install,   *)
(* start, stop, restart, refresh-zcode, upgrade and remove                 *)
(* (agent/cmd/ai-control-agent/commands.go and service_upgrade.go, with    *)
(* Start and Stop of winservice and Save of agent/internal/machineconfig). *)
(*                                                                         *)
(* One command runs at a time, each of its file and service calls a step,  *)
(* with the removal of a left-over copy beside it: between two of them the *)
(* process may fail, the service manager may restart it, the command may   *)
(* be killed and the machine may reboot, and every call may fail, the ones *)
(* that undo others too. A killed command runs none of its deferred calls. *)
(***************************************************************************)
EXTENDS ServiceManager

CONSTANT MaxCommands  \* bound: commands issued

ASSUME CommandBound == MaxCommands \in Nat

VARIABLES
  pc,        \* the statement the command is at
  call,      \* where inside the function it calls there
  cmd,       \* the command's locals
  last,      \* how the last command ended
  commands,  \* commands issued
  deployed   \* history variable: the executable the service was registered with, or
             \* that the last upgrade since that succeeded put in its place

commandVars == <<pc, call, cmd, last, commands, deployed>>
vars == <<serviceVars, commandVars>>

Ops == {"start", "stop", "restart", "upgrade", "refresh", "install", "remove", "purge"}
Results == {"none", "ok", "refused", "failed", "rolledBack", "rollbackFailed", "restartFailed",
            "reverted", "killed"}
NoCommand == [op |-> "stop", exe |-> Absent, config |-> Absent, running |-> FALSE,
              original |-> Absent, undone |-> TRUE]

CommandTypeOK ==
  /\ ServiceTypeOK
  /\ pc \in {"idle", "start", "stop", "stage", "swap", "startAgain", "startNew", "stopNew",
             "rollback", "startOld", "drop", "save", "copy", "register", "rebind", "startRebound",
             "revert", "startReverted", "delete", "purge"}
  /\ call \in {"entry", "starting", "settling", "stopping", "copying", "copied", "aside",
               "written", "committed", "cleared", "created", "recovering", "undoing"}
  /\ cmd \in [op : Ops, exe : Contents, config : Contents, running : BOOLEAN,
              original : Contents, undone : BOOLEAN]
  /\ last \in Results
  /\ commands \in 0..MaxCommands
  /\ deployed \in Executables

\* The agent is installed and has not been started yet.
CommandInit ==
  /\ \E exe \in Executables \ Broken, config \in Configs \ Broken :
       /\ disk = [path \in Paths |-> CASE path = "target" -> exe
                                       [] path = "config" -> config
                                       [] OTHER -> Absent]
       /\ deployed = exe
  /\ installed = TRUE /\ actions = "failure"
  /\ state = "stopped"
  /\ process = NoProcess
  /\ recovery = FALSE
  /\ faults = MaxFaults
  /\ pc = "idle" /\ call = "entry" /\ cmd = NoCommand /\ last = "none" /\ commands = 0

-----------------------------------------------------------------------------
Goto(label) ==
  /\ pc' = label
  /\ call' = "entry"
  /\ UNCHANGED <<cmd, last, commands, deployed>>

Enter(place) ==
  /\ call' = place
  /\ UNCHANGED <<pc, cmd, last, commands, deployed>>

Finish(result) ==
  /\ pc' = "idle"
  /\ call' = "entry"
  /\ last' = result
  /\ UNCHANGED <<cmd, commands>>
  /\ deployed' = IF result = "ok" /\ cmd.op = "upgrade" THEN cmd.exe ELSE deployed

\* serviceUpgrade's deferred removal of what it staged and did not use.
FinishUpgrade(result) ==
  /\ Finish(result)
  /\ disk' = Removed(disk, "upgradeNew")

Begin(op, exe, config, running, label) ==
  /\ pc = "idle"
  /\ commands < MaxCommands
  /\ commands' = commands + 1
  /\ cmd' = [op |-> op, exe |-> exe, config |-> config, running |-> running,
             original |-> disk["config"], undone |-> TRUE]
  /\ pc' = label
  /\ UNCHANGED <<serviceVars, call, last, deployed>>

\* The commands that act on nothing are left out: start, stop and upgrade
\* without the service, a refresh whose paths did not change.
BeginControl ==
  /\ installed
  /\ \E op \in {"start", "stop", "restart"} :
       Begin(op, Absent, Absent, FALSE, IF op = "start" THEN "start" ELSE "stop")

\* The status is read here and used when the candidate has been copied.
BeginUpgrade ==
  /\ installed
  /\ state \in {"running", "stopped"}
  /\ disk["config"] # Absent
  /\ \E exe \in Executables : Begin("upgrade", exe, Absent, state = "running", "stage")

BeginRefresh ==
  /\ disk["config"] # Absent
  /\ \E config \in Configs \ {disk["config"]} :
       Begin("refresh", Absent, config, installed /\ state = "running", "save")

BeginInstall ==
  /\ ~ installed
  /\ \E exe \in Executables, config \in Configs : Begin("install", exe, config, FALSE, "save")

BeginRemove ==
  /\ installed
  /\ \E op \in {"remove", "purge"} : Begin(op, Absent, Absent, FALSE, "stop")

-----------------------------------------------------------------------------
(* winservice.Start, with the statements that follow each of its calls.    *)

\* Seeded fault: a candidate that does not start is reported and left.
StartReturnsAtOnce(ok) ==
  \/ pc \in {"start", "startAgain", "startNew", "startOld"}
       /\ IF ok /\ pc = "startNew" THEN Goto("drop") /\ UNCHANGED disk
          ELSE FinishUpgrade(IF ok THEN "ok" ELSE "failed")
  \/ pc \in {"startRebound", "startReverted"} /\ UNCHANGED disk
       /\ IF ok THEN Finish("ok") ELSE Goto("revert")

StartReturns(ok) ==
  \/ pc = "start" /\ Finish(IF ok THEN "ok" ELSE "failed") /\ UNCHANGED disk
  \/ pc = "startAgain" /\ FinishUpgrade("failed")
  \/ pc = "startNew" /\ Goto(IF ok THEN "drop" ELSE "stopNew") /\ UNCHANGED disk
  \/ pc = "startOld" /\ UNCHANGED disk
       /\ Finish(IF ~ cmd.undone THEN "rollbackFailed"
                 ELSE IF ok THEN "rolledBack" ELSE "restartFailed")
  \/ pc = "startRebound" /\ UNCHANGED disk
       /\ IF ok THEN Finish("ok") ELSE Goto("revert")
  \/ pc = "startReverted" /\ UNCHANGED disk
       /\ Finish(IF ok /\ cmd.undone THEN "reverted" ELSE "failed")

Starts == {"start", "startAgain", "startNew", "startOld", "startRebound", "startReverted"}

Start ==
  /\ pc \in Starts
  /\ call = "entry"
  /\ \/ Works /\ state = "running" /\ StartReturns(TRUE) /\ UNCHANGED <<state, process>>
     \/ Works /\ Launch /\ Enter("starting") /\ UNCHANGED disk
     \/ Works /\ state # "running" /\ ~ CanLaunch /\ StartReturns(FALSE)
          /\ UNCHANGED <<state, process>>
     \/ Fails /\ StartReturns(FALSE) /\ UNCHANGED <<state, process>>
  /\ UNCHANGED <<installed, actions, recovery>>

\* waitStableRunning: Running now and still Running 750 ms later, by which
\* time a broken build has ended.
AwaitStart ==
  /\ call \in {"starting", "settling"}
  /\ \/ Works /\ state = "running" /\ call = "starting" /\ Enter("settling") /\ UNCHANGED disk
     \/ Works /\ Serving /\ call = "settling" /\ StartReturns(TRUE)
     \/ Works /\ state = "stopped" /\ StartReturns(FALSE)
     \/ Works /\ state \in {"start-pending", "stop-pending"} /\ call = "settling"
          /\ Enter("starting") /\ UNCHANGED disk
     \/ Fails /\ StartReturns(FALSE)
  /\ UNCHANGED <<installed, actions, state, process, recovery>>

(* winservice.Stop, and the same calls in winservice.Remove.               *)

StopReturns(ok) ==
  \/ pc = "stop" /\ cmd.op = "stop" /\ UNCHANGED disk
       /\ Finish(IF ok THEN "ok" ELSE "failed")
  \/ pc = "stop" /\ cmd.op = "restart" /\ UNCHANGED disk
       /\ IF ok THEN Goto("start") ELSE Finish("failed")
  \/ pc = "stop" /\ cmd.op \in {"remove", "purge"} /\ UNCHANGED disk
       /\ IF ok THEN Goto("delete") ELSE Finish("failed")
  \/ pc = "stop" /\ cmd.op = "upgrade"
       /\ IF ok THEN Goto("swap") /\ UNCHANGED disk ELSE FinishUpgrade("failed")
  \/ pc = "stopNew" /\ Goto("rollback") /\ UNCHANGED disk
  \/ pc = "rebind" /\ Goto(IF ok THEN "startRebound" ELSE "revert") /\ UNCHANGED disk

Stops == {"stop", "stopNew", "rebind"}

\* The service manager refuses a control while the service starts or stops.
Stop ==
  /\ pc \in Stops
  /\ call = "entry"
  /\ \/ Works /\ state = "stopped" /\ StopReturns(TRUE) /\ UNCHANGED state
     \/ Works /\ state = "running" /\ state' = "stop-pending" /\ Enter("stopping") /\ UNCHANGED disk
     \/ Works /\ state \in {"start-pending", "stop-pending"} /\ StopReturns(FALSE)
          /\ UNCHANGED state
     \/ Fails /\ StopReturns(FALSE) /\ UNCHANGED state
  /\ UNCHANGED <<installed, actions, process, recovery>>

\* waitState(Stopped): twenty seconds.
AwaitStop ==
  /\ call = "stopping"
  /\ \/ Works /\ state = "stopped" /\ StopReturns(TRUE)
     \/ Works /\ state \in {"start-pending", "running"} /\ StopReturns(FALSE)
     \/ Fails /\ StopReturns(FALSE)
  /\ UNCHANGED <<installed, actions, state, process, recovery>>

-----------------------------------------------------------------------------
(* service upgrade                                                         *)

\* Seeded fault: a backup that was left behind is not looked for.
StageOverBackup ==
  /\ pc = "stage" /\ call = "entry"
  /\ \/ /\ disk["target"] # Absent
        /\ disk' = [disk EXCEPT !["upgradeNew"] = Torn]
        /\ Enter("copying")
     \/ /\ disk["target"] = Absent
        /\ Finish("refused")
        /\ UNCHANGED disk
  /\ UNCHANGED <<installed, actions, state, process, recovery, faults>>

\* Seeded fault: a staged file that was left behind is taken as it is.
StageAsFound ==
  /\ pc = "stage" /\ call = "entry"
  /\ disk["target"] # Absent /\ disk["upgradeBak"] = Absent
  /\ \/ /\ disk["upgradeNew"] = Absent
        /\ disk' = [disk EXCEPT !["upgradeNew"] = Torn]
        /\ Enter("copying")
     \/ /\ disk["upgradeNew"] # Absent
        /\ Goto(IF cmd.running THEN "stop" ELSE "swap")
        /\ UNCHANGED disk
  /\ UNCHANGED <<installed, actions, state, process, recovery, faults>>

\* stageUpgradeExecutable: only with an executable to replace and without a
\* backup, over a staged file that was left behind.
Stage ==
  /\ pc = "stage" /\ call = "entry"
  /\ \/ /\ disk["target"] # Absent /\ disk["upgradeBak"] = Absent
        /\ disk' = [disk EXCEPT !["upgradeNew"] = Torn]
        /\ Enter("copying")
     \/ /\ disk["target"] = Absent \/ disk["upgradeBak"] # Absent
        /\ Finish("refused")
        /\ UNCHANGED disk
  /\ UNCHANGED <<installed, actions, state, process, recovery, faults>>

\* copyUpgradeFile, and the copying part of copyExecutable.
Copy ==
  LET copy == IF cmd.op = "upgrade" THEN "upgradeNew" ELSE "targetNew" IN
  /\ call = "copying"
  /\ \/ Works /\ disk' = [disk EXCEPT ![copy] = cmd.exe]
          /\ IF cmd.op = "upgrade" THEN Goto(IF cmd.running THEN "stop" ELSE "swap")
             ELSE Enter("copied")
     \/ Fails /\ disk' = Removed(disk, copy) /\ Finish("failed")
  /\ UNCHANGED <<installed, actions, state, process, recovery>>

\* swapUpgradeExecutable, first rename: on failure the old service starts again.
SetAside ==
  /\ pc = "swap" /\ call = "entry"
  /\ \/ /\ Works
        /\ disk["target"] # Absent
        /\ Rename(disk, "target", "upgradeBak")
        /\ Enter("aside")
     \/ /\ Fails
        /\ UNCHANGED process
        /\ IF cmd.running THEN Goto("startAgain") /\ UNCHANGED disk ELSE FinishUpgrade("failed")
  /\ UNCHANGED <<installed, actions, state, recovery>>

\* Second rename: on failure the first is undone, if that works, and the
\* candidate goes when the command ends here.
Commit ==
  LET left == IF cmd.running THEN disk ELSE Removed(disk, "upgradeNew") IN
  /\ pc = "swap" /\ call = "aside"
  /\ \/ /\ Works
        /\ Rename(disk, "upgradeNew", "target")
        /\ Goto(IF cmd.running THEN "startNew" ELSE "drop")
     \/ /\ \/ Fails /\ Rename(left, "upgradeBak", "target")
           \/ FailsTwice /\ disk' = left /\ UNCHANGED process
        /\ IF cmd.running THEN Goto("startAgain") ELSE Finish("failed")
  /\ UNCHANGED <<installed, actions, state, recovery>>

\* Seeded fault: the candidate that failed is left where it is.
ClearByForce ==
  /\ pc = "rollback" /\ call = "entry"
  /\ IF process.at = "target"
     THEN pc' = "startOld" /\ UNCHANGED <<disk, call, cmd, last, commands, deployed>>
     ELSE disk' = Removed(disk, "target") /\ Enter("cleared")
  /\ UNCHANGED <<installed, actions, state, process, recovery, faults>>

\* rollbackUpgradeExecutable: the failed candidate goes, unless it runs again,
ClearCandidate ==
  /\ pc = "rollback" /\ call = "entry"
  /\ \/ Works /\ process.at # "target" /\ disk' = Removed(disk, "target") /\ Enter("cleared")
     \/ /\ Fails \/ (Works /\ process.at = "target")
        /\ cmd' = [cmd EXCEPT !.undone = FALSE]
        /\ pc' = "startOld"
        /\ UNCHANGED <<disk, call, last, commands, deployed>>
  /\ UNCHANGED <<installed, actions, state, process, recovery>>

\* and the backup takes its place; Start follows whatever came of it.
Restore ==
  /\ pc = "rollback" /\ call = "cleared"
  /\ pc' = "startOld" /\ call' = "entry"
  /\ \/ Works /\ Rename(disk, "upgradeBak", "target") /\ UNCHANGED cmd
     \/ Fails /\ cmd' = [cmd EXCEPT !.undone = FALSE] /\ UNCHANGED <<disk, process>>
  /\ UNCHANGED <<installed, actions, state, recovery, last, commands, deployed>>

\* The upgrade has succeeded once the backup is gone: it stays when a process
\* still runs from it.
DropBackup ==
  /\ pc = "drop"
  /\ \/ /\ Works
        /\ process.at # "upgradeBak"
        /\ disk' = Removed(disk, "upgradeBak")
        /\ Finish("ok")
     \/ /\ Fails \/ (Works /\ process.at = "upgradeBak")
        /\ Finish("failed")
        /\ UNCHANGED disk
  /\ UNCHANGED <<installed, actions, state, process, recovery>>

UpgradeStep == Stage \/ SetAside \/ Commit \/ ClearCandidate \/ Restore \/ DropBackup

-----------------------------------------------------------------------------
(* machineconfig.Save, for service install and service refresh-zcode       *)

SaveReturns(ok) ==
  \/ pc = "save" /\ ~ ok /\ Finish("failed")
  \/ pc = "save" /\ ok /\ cmd.op = "install" /\ Goto("copy")
  \/ pc = "save" /\ ok /\ cmd.op = "refresh"
       /\ IF cmd.running THEN Goto("rebind") ELSE Finish("ok")
  \/ /\ pc = "revert"
     /\ pc' = "startReverted" /\ call' = "entry"
     /\ cmd' = [cmd EXCEPT !.undone = ok]
     /\ UNCHANGED <<last, commands, deployed>>

SaveWrite ==
  /\ pc \in {"save", "revert"} /\ call = "entry"
  /\ \/ Works /\ Enter("written")
          /\ disk' = [disk EXCEPT !["configTmp"] =
                        IF pc = "revert" THEN cmd.original ELSE cmd.config]
     \/ Fails /\ SaveReturns(FALSE) /\ UNCHANGED disk
  /\ UNCHANGED <<installed, actions, state, process, recovery>>

\* Seeded fault: the configuration is deleted instead of put aside.
SaveInPlace ==
  /\ call = "written"
  /\ Works /\ disk' = Removed(Removed(disk, "configBak"), "config") /\ Enter("aside")
  /\ UNCHANGED <<installed, actions, state, process, recovery>>

\* The backup of an earlier save goes, then the configuration takes its place.
SaveAside ==
  /\ call = "written"
  /\ \/ /\ Works
        /\ disk' = IF disk["config"] = Absent THEN Removed(disk, "configBak")
                   ELSE Moved(disk, "config", "configBak")
        /\ Enter("aside")
     \/ /\ Fails
        /\ disk' = Removed(Removed(disk, "configBak"), "configTmp")
        /\ SaveReturns(FALSE)
  /\ UNCHANGED <<installed, actions, state, process, recovery>>

\* On failure the configuration is put back, if that works.
SaveCommit ==
  /\ pc \in {"save", "revert"} /\ call = "aside"
  /\ \/ Works /\ disk' = Moved(disk, "configTmp", "config") /\ Enter("committed")
     \/ /\ \/ Fails /\ disk' = Removed(IF disk["configBak"] = Absent THEN disk
                                       ELSE Moved(disk, "configBak", "config"), "configTmp")
           \/ FailsTwice /\ disk' = Removed(disk, "configTmp")
        /\ SaveReturns(FALSE)
  /\ UNCHANGED <<installed, actions, state, process, recovery>>

\* The last call protects the file; its failure is reported with the new
\* configuration in place.
SaveEnd ==
  /\ call = "committed"
  /\ disk' = Removed(disk, "configBak")
  /\ (Works /\ SaveReturns(TRUE)) \/ (Fails /\ SaveReturns(FALSE))
  /\ UNCHANGED <<installed, actions, state, process, recovery>>

SaveStep == SaveWrite \/ SaveAside \/ SaveCommit \/ SaveEnd

-----------------------------------------------------------------------------
(* service install and service remove                                      *)

\* copyExecutable: over a copy that was left behind.
CopyStart ==
  /\ pc = "copy" /\ call = "entry"
  /\ disk' = [disk EXCEPT !["targetNew"] = Torn]
  /\ Enter("copying")
  /\ UNCHANGED <<installed, actions, state, process, recovery, faults>>

CopyAside ==
  /\ call = "copied"
  /\ \/ /\ Works
        /\ disk' = IF disk["target"] = Absent THEN Removed(disk, "targetBak")
                   ELSE Moved(disk, "target", "targetBak")
        /\ Enter("aside")
     \/ /\ Fails
        /\ disk' = Removed(Removed(disk, "targetBak"), "targetNew")
        /\ Finish("failed")
  /\ UNCHANGED <<installed, actions, state, process, recovery>>

CopyCommit ==
  /\ pc = "copy" /\ call = "aside"
  /\ \/ /\ Works
        /\ disk' = Removed(Moved(disk, "targetNew", "target"), "targetBak")
        /\ Goto("register")
     \/ /\ \/ Fails /\ disk' = Removed(IF disk["targetBak"] = Absent THEN disk
                                       ELSE Moved(disk, "targetBak", "target"), "targetNew")
           \/ FailsTwice /\ disk' = Removed(disk, "targetNew")
        /\ Finish("failed")
  /\ UNCHANGED <<installed, actions, state, process, recovery>>

\* winservice.Install: CreateService, for the executable copied before it,
Register ==
  /\ pc = "register" /\ call = "entry"
  /\ \/ /\ Works
        /\ installed' = TRUE /\ actions' = "none" /\ deployed' = cmd.exe
        /\ call' = "created"
        /\ UNCHANGED <<pc, cmd, last, commands>>
     \/ Fails /\ Finish("failed") /\ UNCHANGED <<installed, actions>>
  /\ UNCHANGED <<disk, state, process, recovery>>

\* SetRecoveryActions and SetRecoveryActionsOnNonCrashFailures,
SetRecovery ==
  /\ call \in {"created", "recovering"}
  /\ \/ Works /\ call = "created" /\ actions' = "crash" /\ Enter("recovering")
     \/ Works /\ call = "recovering" /\ actions' = "failure" /\ Finish("ok")
     \/ Fails /\ UNCHANGED actions /\ Enter("undoing")
  /\ UNCHANGED <<disk, installed, state, process, recovery>>

\* and Delete when one of them failed: nobody looks whether it worked.
Unregister ==
  /\ call = "undoing"
  /\ Finish("failed")
  /\ \/ Works /\ installed' = FALSE /\ actions' = "none"
     \/ Fails /\ UNCHANGED <<installed, actions>>
  /\ UNCHANGED <<disk, state, process, recovery>>

\* winservice.Remove: the entry goes once the service is stopped.
Delete ==
  /\ pc = "delete"
  /\ state = "stopped"
  /\ \/ Works /\ installed' = FALSE /\ actions' = "none" /\ recovery' = FALSE
          /\ IF cmd.op = "purge" THEN Goto("purge") ELSE Finish("ok")
     \/ Fails /\ Finish("failed") /\ UNCHANGED <<installed, actions, recovery>>
  /\ UNCHANGED <<disk, state, process>>

\* serviceRemove --purge: the configuration, then the executable.
Purge ==
  /\ pc = "purge"
  /\ \/ /\ disk["config"] # Absent
        /\ disk' = Removed(disk, "config")
        /\ UNCHANGED commandVars
     \/ /\ disk["config"] = Absent
        /\ disk' = Removed(disk, "target")
        /\ Finish("ok")
  /\ UNCHANGED <<installed, actions, state, process, recovery, faults>>

InstallStep ==
  CopyStart \/ CopyAside \/ CopyCommit \/ Register \/ SetRecovery \/ Unregister \/ Delete \/ Purge

-----------------------------------------------------------------------------
\* The command's process is killed.
Kill ==
  /\ pc # "idle"
  /\ Fails
  /\ Finish("killed")
  /\ UNCHANGED <<disk, installed, actions, state, process, recovery>>

\* The machine restarts; the service starts with it.
Reboot ==
  /\ Fails
  /\ IF pc # "idle" THEN Finish("killed") ELSE UNCHANGED commandVars
  /\ recovery' = FALSE
  /\ IF installed /\ disk["target"] # Absent
     THEN /\ state' = "start-pending"
          /\ process' = [exe |-> disk["target"], config |-> disk["config"], at |-> "target"]
     ELSE state' = "stopped" /\ process' = NoProcess
  /\ UNCHANGED <<disk, installed, actions>>

Command == BeginControl \/ BeginUpgrade \/ BeginRefresh \/ BeginInstall \/ BeginRemove

CommandStep ==
  Start \/ AwaitStart \/ Stop \/ AwaitStop \/ Copy \/ UpgradeStep \/ SaveStep \/ InstallStep

CommandNext ==
  \/ Command
  \/ CommandStep
  \/ ServiceStep /\ UNCHANGED commandVars
  \/ Kill
  \/ Reboot

\* A command goes on until it ends, and the process and the service manager
\* do what they have to; no command has to be issued. Start polls the state
\* every 250 ms for 20 seconds and the service manager waits five seconds
\* before it restarts: a service that keeps stopping is found stopped.
CommandSpec ==
  /\ CommandInit /\ [][CommandNext]_vars
  /\ WF_vars(CommandStep)
  /\ SF_vars(AwaitStart /\ state = "stopped")
  /\ WF_vars((ReportRunning \/ ProcessFails \/ ProcessStops) /\ UNCHANGED commandVars)
  /\ WF_vars(Recover /\ UNCHANGED commandVars)

-----------------------------------------------------------------------------
\* As long as the service is registered, the executable it was registered with,
\* or that the last successful upgrade replaced it by, is on the disk, as the
\* installed executable or as the upgrade's backup: no sequence of failing,
\* killed and repeated commands loses the build the service is there to run.
DeployedExecutableSurvives ==
  installed => deployed \in {disk["target"], disk["upgradeBak"]}

\* As long as the service is registered, a complete configuration is on the
\* disk, as agent.json or as the backup of the save that was cut off.
ConfigurationSurvives ==
  installed => {disk["config"], disk["configBak"]} \cap Configs # {}

\* A copy that was cut off never becomes the installed executable.
InstalledExecutableIsWhole == disk["target"] # Torn /\ process.exe # Torn

\* What a command reports is so. After an install that succeeded the service is
\* registered with all its recovery actions, over the executable and the
\* configuration given. After an upgrade that succeeded the new executable is
\* the installed one, no backup is left, and whatever runs is the new
\* executable, also when the service manager restarted the old one in the
\* middle of the upgrade. After one that rolled back the deployed executable is
\* back, its backup used up and nothing staged. After a refresh agent.json is
\* the new configuration, and the original one when it reverted.
ReportIsTrue ==
  pc = "idle" =>
    /\ last = "ok" /\ cmd.op = "install" =>
         /\ installed /\ actions = "failure"
         /\ disk["target"] = cmd.exe /\ disk["config"] = cmd.config
    /\ last = "ok" /\ cmd.op = "upgrade" =>
         /\ disk["target"] = cmd.exe /\ disk["upgradeBak"] = Absent
         /\ process.exe \in {cmd.exe, Absent}
    /\ last = "rolledBack" =>
         /\ disk["target"] = deployed
         /\ disk["upgradeBak"] = Absent /\ disk["upgradeNew"] = Absent
    /\ last = "ok" /\ cmd.op = "refresh" => disk["config"] = cmd.config
    /\ last = "reverted" => disk["config"] = cmd.original

\* A running service that is upgraded, to whatever candidate, serves again
\* when the command ends, or the command reports that the rollback or the
\* restart of the old service failed;
\* unless some call, process or machine failed since the upgrade began. The restart
\* of an earlier failure must not be due any more: Start takes a process it finds
\* running for a stable one, and could accept the candidate on that account.
UpgradeKeepsServiceUp ==
  \A left \in 0..MaxFaults :
    (/\ pc = "stage" /\ cmd.running /\ Serving /\ ~ recovery /\ faults = left
     /\ Fit(disk["target"], disk["config"]))
      ~> \/ pc = "idle" /\ (Serving \/ last \in {"rollbackFailed", "restartFailed"})
         \/ faults < left
============================================================================
