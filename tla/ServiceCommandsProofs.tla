----------------------- MODULE ServiceCommandsProofs -----------------------
(***************************************************************************)
(* Proofs about ServiceCommands, for any builds, configurations, number of *)
(* commands and number of faults.                                          *)
(*                                                                         *)
(* The inductive invariant says, for each statement a command can be at,   *)
(* where the deployed executable, the candidate and the configurations     *)
(* are, and which file the process runs from.                              *)
(***************************************************************************)
EXTENDS ServiceCommands, TLAPS

Upgrading == {"stage", "swap", "startAgain", "startNew", "stopNew", "rollback", "startOld", "drop"}
Rebinding == {"rebind", "startRebound", "revert", "startReverted"}
Staged == pc = "swap" \/ (pc = "stop" /\ cmd.op = "upgrade")
Installing ==
  pc = "copy" \/ (pc = "register" /\ call = "entry") \/ (pc = "save" /\ cmd.op = "install")
Trying == {"startNew", "stopNew", "rollback"}
SavingOver == pc \in {"save", "revert"} /\ cmd.op = "refresh"

\* Which command is at which statement, inside which call, and whether the
\* service is registered there.
Located ==
  /\ pc = "start" => cmd.op \in {"start", "restart"}
  /\ pc = "stop" => cmd.op \in {"stop", "restart", "upgrade", "remove", "purge"}
  /\ pc \in Upgrading => cmd.op = "upgrade"
  /\ pc = "save" => cmd.op \in {"install", "refresh"}
  /\ pc \in {"copy", "register"} => cmd.op = "install"
  /\ pc \in Rebinding => cmd.op = "refresh"
  /\ pc \in {"delete", "purge"} => cmd.op \in {"remove", "purge"}
  /\ call \in {"starting", "settling"} => pc \in Starts
  /\ call = "stopping" => pc \in Stops
  /\ call = "copying" => pc \in {"stage", "copy"}
  /\ call = "copied" => pc = "copy"
  /\ call = "aside" => pc \in {"swap", "save", "revert", "copy"}
  /\ call \in {"written", "committed"} => pc \in {"save", "revert"}
  /\ call = "cleared" => pc = "rollback"
  /\ call \in {"created", "recovering", "undoing"} => pc = "register" /\ installed
  /\ pc \in Upgrading \/ Staged => installed
  /\ Installing \/ pc = "purge" => ~ installed

\* A torn copy is only where copies are made, and complete when it is moved.
Whole ==
  /\ \A path \in {"target", "upgradeBak", "targetBak"} : disk[path] \in Executables \cup {Absent}
  /\ process.exe \in Executables \cup {Absent}
  /\ cmd.op \in {"install", "upgrade"} => cmd.exe \in Executables
  /\ Staged => disk["upgradeNew"] = cmd.exe
  /\ pc = "copy" /\ call \in {"copied", "aside"} => disk["targetNew"] = cmd.exe

\* Where the deployed executable is while the candidate takes its place.
Backed ==
  /\ (pc = "stage" /\ call = "copying") \/ (Staged /\ call # "aside") =>
       disk["upgradeBak"] = Absent
  /\ pc = "swap" /\ call = "aside" =>
       disk["target"] = Absent /\ disk["upgradeBak"] = deployed
  /\ pc \in Trying => disk["upgradeBak"] = deployed /\ disk["upgradeNew"] = Absent
  /\ call = "cleared" => disk["target"] = Absent
  /\ pc \in {"startNew", "drop", "register"} => disk["target"] = cmd.exe
  /\ pc = "startOld" /\ cmd.undone =>
       /\ disk["target"] = deployed
       /\ disk["upgradeBak"] = Absent /\ disk["upgradeNew"] = Absent

\* A process runs what its file holds, under the name the file has now. Without
\* the service, and while it is registered, there is none and none is due.
Running ==
  /\ process.at \in {"none", "target", "upgradeBak"}
  /\ process.at = "none" => process = NoProcess
  /\ process.at # "none" => process.exe = disk[process.at] /\ process.exe # Absent
  /\ ~ installed \/ pc = "register" => process = NoProcess /\ ~ recovery

\* Where a complete configuration is while another takes its place.
Saved ==
  /\ \A path \in {"config", "configTmp", "configBak"} : disk[path] \in Configs \cup {Absent}
  /\ cmd.op \in {"install", "refresh"} => cmd.config \in Configs
  /\ cmd.op = "refresh" => cmd.original \in Configs
  /\ call = "written" \/ (pc \in {"save", "revert"} /\ call = "aside") =>
       disk["configTmp"] \in Configs
  /\ call = "committed" => disk["config"] \in Configs
  /\ SavingOver /\ call \in {"entry", "written"} => disk["config"] \in Configs
  /\ SavingOver /\ call = "aside" => disk["configBak"] \in Configs
  /\ pc \in {"copy", "register", "rebind", "startRebound"} => disk["config"] \in Configs

\* What a save writes and what is agent.json after it: the new configuration,
\* or the original one that the second save of a refresh puts back.
Intended == IF pc = "revert" THEN cmd.original ELSE cmd.config

Written ==
  /\ call = "written" \/ (pc \in {"save", "revert"} /\ call = "aside") =>
       disk["configTmp"] = Intended
  /\ call = "committed" => disk["config"] = Intended
  /\ pc \in {"copy", "register", "rebind", "startRebound"} => disk["config"] = cmd.config
  /\ pc = "startReverted" /\ cmd.undone => disk["config"] = cmd.original

-----------------------------------------------------------------------------
\* Every step leaves the command at a statement its operation has, and the
\* service registered or not as that statement takes it.
LEMMA LocatedStep ==
  ASSUME CommandTypeOK, Located, [CommandNext]_vars
  PROVE  Located'
<1> USE DEF Starts, Stops, Upgrading, Rebinding, Staged, Installing, Located,
    CommandTypeOK, ServiceTypeOK, Works, Fails, FailsTwice, Goto, Enter, Finish, FinishUpgrade,
    Removed, Moved
<1>1. CASE Command
  BY <1>1 DEF Command, BeginControl, BeginUpgrade, BeginRefresh, BeginInstall,
      BeginRemove, Begin, serviceVars
<1>2. CASE Start \/ AwaitStart \/ Stop \/ AwaitStop
  BY <1>2 DEF Start, AwaitStart, Stop, AwaitStop, StartReturns, StopReturns, Launch,
      CanLaunch, Serving
<1>3. CASE Copy
  BY <1>3 DEF Copy
<1>4. CASE UpgradeStep
  BY <1>4 DEF UpgradeStep, Stage, SetAside, Commit, ClearCandidate, Restore, DropBackup,
      Rename
<1>5. CASE SaveStep
  BY <1>5 DEF SaveStep, SaveWrite, SaveAside, SaveCommit, SaveEnd, SaveReturns
<1>6. CASE InstallStep
  BY <1>6 DEF InstallStep, CopyStart, CopyAside, CopyCommit, Register, SetRecovery,
      Unregister, Delete, Purge, commandVars
<1>7. CASE ServiceStep /\ UNCHANGED commandVars
  BY <1>7 DEF ServiceStep, ReportRunning, ProcessFails, ProcessStops, Ends, Recover,
      Launch, CanLaunch, commandVars
<1>8. CASE Kill \/ Reboot
  BY <1>8 DEF Kill, Reboot, commandVars
<1>9. CASE UNCHANGED vars
  BY <1>9 DEF vars, serviceVars, commandVars
<1> QED
  BY <1>1, <1>2, <1>3, <1>4, <1>5, <1>6, <1>7, <1>8, <1>9
  DEF CommandNext, CommandStep

\* A file holds a build, a configuration, a torn copy or nothing.
LEMMA FilesTyped ==
  ASSUME CommandTypeOK, Located, [CommandNext]_vars
  PROVE  disk' \in [Paths -> Contents]
<1> USE DEF Starts, Stops, Upgrading, Rebinding, Staged, Installing, Located,
    CommandTypeOK, ServiceTypeOK, Paths, Contents, NoProcess, Ops, Works, Fails, FailsTwice, Goto,
    Enter, Finish, FinishUpgrade, Removed, Moved
<1>1. CASE Command
  BY <1>1 DEF Command, BeginControl, BeginUpgrade, BeginRefresh, BeginInstall,
      BeginRemove, Begin, serviceVars
<1>2. CASE Start \/ AwaitStart \/ Stop \/ AwaitStop
  BY <1>2 DEF Start, AwaitStart, Stop, AwaitStop, StartReturns, StopReturns, Launch,
      CanLaunch, Serving
<1>3. CASE Copy
  BY <1>3 DEF Copy
<1>4. CASE UpgradeStep
  BY <1>4 DEF UpgradeStep, Stage, SetAside, Commit, ClearCandidate, Restore, DropBackup,
      Rename
<1>5. CASE SaveStep
  BY <1>5 DEF SaveStep, SaveWrite, SaveAside, SaveCommit, SaveEnd, SaveReturns
<1>6. CASE InstallStep
  BY <1>6 DEF InstallStep, CopyStart, CopyAside, CopyCommit, Register, SetRecovery,
      Unregister, Delete, Purge, commandVars
<1>7. CASE ServiceStep /\ UNCHANGED commandVars
  BY <1>7 DEF ServiceStep, ReportRunning, ProcessFails, ProcessStops, Ends, Recover,
      Launch, CanLaunch, commandVars
<1>8. CASE Kill \/ Reboot
  BY <1>8 DEF Kill, Reboot, commandVars
<1>9. CASE UNCHANGED vars
  BY <1>9 DEF vars, serviceVars, commandVars
<1> QED
  BY <1>1, <1>2, <1>3, <1>4, <1>5, <1>6, <1>7, <1>8, <1>9
  DEF CommandNext, CommandStep

\* There is a process exactly while the service is not stopped.
LEMMA ProcessTyped ==
  ASSUME CommandTypeOK, Located, [CommandNext]_vars
  PROVE  /\ process' \in [exe : Contents, config : Contents, at : Paths \cup {"none"}]
         /\ (process' = NoProcess) = (state' = "stopped")
<1> USE DEF CommandTypeOK, ServiceTypeOK, Paths, Contents, NoProcess, Ops, Located, Works,
    Fails, FailsTwice, Goto, Enter, Finish, FinishUpgrade, Removed, Moved
<1>1. CASE Command
  BY <1>1 DEF Command, BeginControl, BeginUpgrade, BeginRefresh, BeginInstall,
      BeginRemove, Begin, serviceVars
<1>2. CASE Start \/ AwaitStart \/ Stop \/ AwaitStop
  BY <1>2 DEF Start, AwaitStart, Stop, AwaitStop, StartReturns, StopReturns, Launch,
      CanLaunch, Serving
<1>3. CASE Copy
  BY <1>3 DEF Copy
<1>4. CASE UpgradeStep
  BY <1>4 DEF UpgradeStep, Stage, SetAside, Commit, ClearCandidate, Restore, DropBackup,
      Rename
<1>5. CASE SaveStep
  BY <1>5 DEF SaveStep, SaveWrite, SaveAside, SaveCommit, SaveEnd, SaveReturns
<1>6. CASE InstallStep
  BY <1>6 DEF InstallStep, CopyStart, CopyAside, CopyCommit, Register, SetRecovery,
      Unregister, Delete, Purge, commandVars
<1>7. CASE ServiceStep /\ UNCHANGED commandVars
  BY <1>7 DEF ServiceStep, ReportRunning, ProcessFails, ProcessStops, Ends, Recover,
      Launch, CanLaunch, commandVars
<1>8. CASE Kill \/ Reboot
  BY <1>8 DEF Kill, Reboot, commandVars
<1>9. CASE UNCHANGED vars
  BY <1>9 DEF vars, serviceVars, commandVars
<1> QED
  BY <1>1, <1>2, <1>3, <1>4, <1>5, <1>6, <1>7, <1>8, <1>9
  DEF CommandNext, CommandStep

\* The locals of a command have their types.
LEMMA LocalsTyped ==
  ASSUME CommandTypeOK, Located, [CommandNext]_vars
  PROVE  cmd' \in [op : Ops, exe : Contents, config : Contents, running : BOOLEAN,
                     original : Contents, undone : BOOLEAN]
<1> USE DEF Starts, Stops, Upgrading, Rebinding, Staged, Installing, Located,
    CommandTypeOK, ServiceTypeOK, Paths, Contents, NoProcess, Ops, Works, Fails, FailsTwice, Goto,
    Enter, Finish, FinishUpgrade, Removed, Moved
<1>1. CASE BeginControl
  BY <1>1 DEF BeginControl, Begin, serviceVars
<1>2. CASE BeginUpgrade
  BY <1>2 DEF BeginUpgrade, Begin, serviceVars
<1>3. CASE BeginRefresh
  BY <1>3 DEF BeginRefresh, Begin, serviceVars
<1>4. CASE BeginInstall
  BY <1>4 DEF BeginInstall, Begin, serviceVars
<1>5. CASE BeginRemove
  BY <1>5 DEF BeginRemove, Begin, serviceVars
<1>6. CASE Start \/ AwaitStart \/ Stop \/ AwaitStop
  BY <1>6 DEF Start, AwaitStart, Stop, AwaitStop, StartReturns, StopReturns, Launch,
      CanLaunch, Serving
<1>7. CASE Copy
  BY <1>7 DEF Copy
<1>8. CASE UpgradeStep
  BY <1>8 DEF UpgradeStep, Stage, SetAside, Commit, ClearCandidate, Restore, DropBackup,
      Rename
<1>9. CASE SaveStep
  BY <1>9 DEF SaveStep, SaveWrite, SaveAside, SaveCommit, SaveEnd, SaveReturns
<1>10. CASE InstallStep
  BY <1>10 DEF InstallStep, CopyStart, CopyAside, CopyCommit, Register, SetRecovery,
      Unregister, Delete, Purge, commandVars
<1>11. CASE ServiceStep /\ UNCHANGED commandVars
  BY <1>11 DEF ServiceStep, ReportRunning, ProcessFails, ProcessStops, Ends, Recover,
      Launch, CanLaunch, commandVars
<1>12. CASE Kill \/ Reboot
  BY <1>12 DEF Kill, Reboot, commandVars
<1>13. CASE UNCHANGED vars
  BY <1>13 DEF vars, serviceVars, commandVars
<1> QED
  BY <1>1, <1>2, <1>3, <1>4, <1>5, <1>6, <1>7, <1>8, <1>9, <1>10, <1>11, <1>12, <1>13
  DEF CommandNext, CommandStep, Command

\* The service manager's view of the service has its type.
LEMMA StateTyped ==
  ASSUME CommandTypeOK, Located, [CommandNext]_vars
  PROVE  /\ installed' \in BOOLEAN /\ recovery' \in BOOLEAN
         /\ actions' \in {"none", "crash", "failure"}
         /\ state' \in {"stopped", "start-pending", "running", "stop-pending"}
<1> USE DEF CommandTypeOK, ServiceTypeOK, Paths, Contents, NoProcess, Ops, Located, Works,
    Fails, FailsTwice, Goto, Enter, Finish, FinishUpgrade, Removed, Moved
<1>1. CASE Command
  BY <1>1 DEF Command, BeginControl, BeginUpgrade, BeginRefresh, BeginInstall,
      BeginRemove, Begin, serviceVars
<1>2. CASE Start \/ AwaitStart \/ Stop \/ AwaitStop
  BY <1>2 DEF Start, AwaitStart, Stop, AwaitStop, StartReturns, StopReturns, Launch,
      CanLaunch, Serving
<1>3. CASE Copy
  BY <1>3 DEF Copy
<1>4. CASE UpgradeStep
  BY <1>4 DEF UpgradeStep, Stage, SetAside, Commit, ClearCandidate, Restore, DropBackup,
      Rename
<1>5. CASE SaveStep
  BY <1>5 DEF SaveStep, SaveWrite, SaveAside, SaveCommit, SaveEnd, SaveReturns
<1>6. CASE InstallStep
  BY <1>6 DEF InstallStep, CopyStart, CopyAside, CopyCommit, Register, SetRecovery,
      Unregister, Delete, Purge, commandVars
<1>7. CASE ServiceStep /\ UNCHANGED commandVars
  BY <1>7 DEF ServiceStep, ReportRunning, ProcessFails, ProcessStops, Ends, Recover,
      Launch, CanLaunch, commandVars
<1>8. CASE Kill \/ Reboot
  BY <1>8 DEF Kill, Reboot, commandVars
<1>9. CASE UNCHANGED vars
  BY <1>9 DEF vars, serviceVars, commandVars
<1> QED
  BY <1>1, <1>2, <1>3, <1>4, <1>5, <1>6, <1>7, <1>8, <1>9
  DEF CommandNext, CommandStep

\* Faults and commands stay within their bounds, a result is one of the results.
LEMMA CountersTyped ==
  ASSUME CommandTypeOK, Located, [CommandNext]_vars
  PROVE  /\ faults' \in 0..MaxFaults /\ commands' \in 0..MaxCommands
         /\ last' \in Results
<1> USE FaultBound, CommandBound DEF CommandTypeOK, ServiceTypeOK, Paths, Contents,
    NoProcess, Ops, Located, Results, Works, Fails, FailsTwice, Goto, Enter, Finish, FinishUpgrade,
    Removed, Moved
<1>1. CASE Command
  BY <1>1 DEF Command, BeginControl, BeginUpgrade, BeginRefresh, BeginInstall,
      BeginRemove, Begin, serviceVars
<1>2. CASE Start \/ AwaitStart \/ Stop \/ AwaitStop
  BY <1>2 DEF Start, AwaitStart, Stop, AwaitStop, StartReturns, StopReturns, Launch,
      CanLaunch, Serving
<1>3. CASE Copy
  BY <1>3 DEF Copy
<1>4. CASE UpgradeStep
  BY <1>4 DEF UpgradeStep, Stage, SetAside, Commit, ClearCandidate, Restore, DropBackup,
      Rename
<1>5. CASE SaveStep
  BY <1>5 DEF SaveStep, SaveWrite, SaveAside, SaveCommit, SaveEnd, SaveReturns
<1>6. CASE InstallStep
  BY <1>6 DEF InstallStep, CopyStart, CopyAside, CopyCommit, Register, SetRecovery,
      Unregister, Delete, Purge, commandVars
<1>7. CASE ServiceStep /\ UNCHANGED commandVars
  BY <1>7 DEF ServiceStep, ReportRunning, ProcessFails, ProcessStops, Ends, Recover,
      Launch, CanLaunch, commandVars
<1>8. CASE Kill \/ Reboot
  BY <1>8 DEF Kill, Reboot, commandVars
<1>9. CASE UNCHANGED vars
  BY <1>9 DEF vars, serviceVars, commandVars
<1> QED
  BY <1>1, <1>2, <1>3, <1>4, <1>5, <1>6, <1>7, <1>8, <1>9
  DEF CommandNext, CommandStep

\* The statements and the places inside the calls are the ones there are.
LEMMA PlaceTyped ==
  ASSUME CommandTypeOK, Located, [CommandNext]_vars
  PROVE  /\ call' \in {"entry", "starting", "settling", "stopping", "copying", "copied",
                       "aside", "written", "committed", "cleared", "created",
                       "recovering", "undoing"}
         /\ pc' \in {"idle", "start", "stop", "stage", "swap", "startAgain", "startNew",
                     "stopNew", "rollback", "startOld", "drop", "save", "copy", "register",
                     "rebind", "startRebound", "revert", "startReverted", "delete", "purge"}
<1> USE DEF CommandTypeOK, ServiceTypeOK, Paths, Contents, NoProcess, Ops, Located, Works,
    Fails, FailsTwice, Goto, Enter, Finish, FinishUpgrade, Removed, Moved
<1>1. CASE Command
  BY <1>1 DEF Command, BeginControl, BeginUpgrade, BeginRefresh, BeginInstall,
      BeginRemove, Begin, serviceVars
<1>2. CASE Start \/ AwaitStart \/ Stop \/ AwaitStop
  BY <1>2 DEF Start, AwaitStart, Stop, AwaitStop, StartReturns, StopReturns, Launch,
      CanLaunch, Serving
<1>3. CASE Copy
  BY <1>3 DEF Copy
<1>4. CASE UpgradeStep
  BY <1>4 DEF UpgradeStep, Stage, SetAside, Commit, ClearCandidate, Restore, DropBackup,
      Rename
<1>5. CASE SaveStep
  BY <1>5 DEF SaveStep, SaveWrite, SaveAside, SaveCommit, SaveEnd, SaveReturns
<1>6. CASE InstallStep
  BY <1>6 DEF InstallStep, CopyStart, CopyAside, CopyCommit, Register, SetRecovery,
      Unregister, Delete, Purge, commandVars
<1>7. CASE ServiceStep /\ UNCHANGED commandVars
  BY <1>7 DEF ServiceStep, ReportRunning, ProcessFails, ProcessStops, Ends, Recover,
      Launch, CanLaunch, commandVars
<1>8. CASE Kill \/ Reboot
  BY <1>8 DEF Kill, Reboot, commandVars
<1>9. CASE UNCHANGED vars
  BY <1>9 DEF vars, serviceVars, commandVars
<1> QED
  BY <1>1, <1>2, <1>3, <1>4, <1>5, <1>6, <1>7, <1>8, <1>9
  DEF CommandNext, CommandStep

\* What the service was registered with or upgraded to is a build.
LEMMA DeployedTyped ==
  ASSUME CommandTypeOK, Located, Whole, [CommandNext]_vars
  PROVE  deployed' \in Executables
<1> USE DEF CommandTypeOK, ServiceTypeOK, Starts, Stops, Upgrading, Rebinding, Staged,
    Installing, Located, Whole, Works, Fails, FailsTwice, Goto, Enter, Finish,
    FinishUpgrade, Removed, Moved
<1>1. CASE Command
  BY <1>1 DEF Command, BeginControl, BeginUpgrade, BeginRefresh, BeginInstall,
      BeginRemove, Begin, serviceVars
<1>2. CASE Start \/ AwaitStart \/ Stop \/ AwaitStop
  BY <1>2 DEF Start, AwaitStart, Stop, AwaitStop, StartReturns, StopReturns, Launch,
      CanLaunch, Serving
<1>3. CASE Copy
  BY <1>3 DEF Copy
<1>4. CASE UpgradeStep
  BY <1>4 DEF UpgradeStep, Stage, SetAside, Commit, ClearCandidate, Restore, DropBackup,
      Rename
<1>5. CASE SaveStep
  BY <1>5 DEF SaveStep, SaveWrite, SaveAside, SaveCommit, SaveEnd, SaveReturns
<1>6. CASE InstallStep
  BY <1>6 DEF InstallStep, CopyStart, CopyAside, CopyCommit, Register, SetRecovery,
      Unregister, Delete, Purge, commandVars
<1>7. CASE ServiceStep /\ UNCHANGED commandVars
  BY <1>7 DEF ServiceStep, ReportRunning, ProcessFails, ProcessStops, Ends, Recover,
      Launch, CanLaunch, commandVars
<1>8. CASE Kill \/ Reboot
  BY <1>8 DEF Kill, Reboot, commandVars
<1>9. CASE UNCHANGED vars
  BY <1>9 DEF vars, serviceVars, commandVars
<1> QED
  BY <1>1, <1>2, <1>3, <1>4, <1>5, <1>6, <1>7, <1>8, <1>9
  DEF CommandNext, CommandStep

\* A copy is complete before it is moved to where it is started from.
LEMMA WholeStep ==
  ASSUME CommandTypeOK, Located, Whole, [CommandNext]_vars
  PROVE  Whole'
<1> USE DEF Whole, Starts, Stops, Upgrading, Rebinding, Staged, Installing, Located,
    CommandTypeOK, ServiceTypeOK, Paths, Contents, NoProcess, Ops, Works, Fails, FailsTwice, Goto,
    Enter, Finish, FinishUpgrade, Removed, Moved
<1>1. CASE Command
  BY <1>1 DEF Command, BeginControl, BeginUpgrade, BeginRefresh, BeginInstall,
      BeginRemove, Begin, serviceVars
<1>2. CASE Start \/ AwaitStart \/ Stop \/ AwaitStop
  BY <1>2 DEF Start, AwaitStart, Stop, AwaitStop, StartReturns, StopReturns, Launch,
      CanLaunch, Serving
<1>3. CASE Copy
  BY <1>3 DEF Copy
<1>4. CASE UpgradeStep
  BY <1>4 DEF UpgradeStep, Stage, SetAside, Commit, ClearCandidate, Restore, DropBackup,
      Rename
<1>5. CASE SaveStep
  BY <1>5 DEF SaveStep, SaveWrite, SaveAside, SaveCommit, SaveEnd, SaveReturns
<1>6. CASE InstallStep
  BY <1>6 DEF InstallStep, CopyStart, CopyAside, CopyCommit, Register, SetRecovery,
      Unregister, Delete, Purge, commandVars
<1>7. CASE ServiceStep /\ UNCHANGED commandVars
  BY <1>7 DEF ServiceStep, ReportRunning, ProcessFails, ProcessStops, Ends, Recover,
      Launch, CanLaunch, commandVars
<1>8. CASE Kill \/ Reboot
  BY <1>8 DEF Kill, Reboot, commandVars
<1>9. CASE UNCHANGED vars
  BY <1>9 DEF vars, serviceVars, commandVars
<1> QED
  BY <1>1, <1>2, <1>3, <1>4, <1>5, <1>6, <1>7, <1>8, <1>9
  DEF CommandNext, CommandStep

\* Upgrade and install keep the deployed executable and the candidate apart.
LEMMA BackedStep ==
  ASSUME CommandTypeOK, Located, Whole, Backed, DeployedExecutableSurvives,
      [CommandNext]_vars
  PROVE  Backed'
<1> USE AbsentIsNoBuild DEF Backed, Trying, Whole, Starts, Stops, Upgrading, Rebinding,
    Staged, Installing, DeployedExecutableSurvives, Located, CommandTypeOK, ServiceTypeOK,
    Paths, Contents, NoProcess, Ops, Works, Fails, FailsTwice, Goto, Enter, Finish, FinishUpgrade,
    Removed, Moved
<1>1. CASE Command
  BY <1>1 DEF Command, BeginControl, BeginUpgrade, BeginRefresh, BeginInstall,
      BeginRemove, Begin, serviceVars
<1>2. CASE Start \/ AwaitStart \/ Stop \/ AwaitStop
  BY <1>2 DEF Start, AwaitStart, Stop, AwaitStop, StartReturns, StopReturns, Launch,
      CanLaunch, Serving
<1>3. CASE Copy
  BY <1>3 DEF Copy
<1>4. CASE UpgradeStep
  BY <1>4 DEF UpgradeStep, Stage, SetAside, Commit, ClearCandidate, Restore, DropBackup,
      Rename
<1>5. CASE SaveStep
  BY <1>5 DEF SaveStep, SaveWrite, SaveAside, SaveCommit, SaveEnd, SaveReturns
<1>6. CASE InstallStep
  BY <1>6 DEF InstallStep, CopyStart, CopyAside, CopyCommit, Register, SetRecovery,
      Unregister, Delete, Purge, commandVars
<1>7. CASE ServiceStep /\ UNCHANGED commandVars
  BY <1>7 DEF ServiceStep, ReportRunning, ProcessFails, ProcessStops, Ends, Recover,
      Launch, CanLaunch, commandVars
<1>8. CASE Kill \/ Reboot
  BY <1>8 DEF Kill, Reboot, commandVars
<1>9. CASE UNCHANGED vars
  BY <1>9 DEF vars, serviceVars, commandVars
<1> QED
  BY <1>1, <1>2, <1>3, <1>4, <1>5, <1>6, <1>7, <1>8, <1>9
  DEF CommandNext, CommandStep

\* No step takes the deployed executable off the disk while the service is
\* registered.
LEMMA SurvivesStep ==
  ASSUME CommandTypeOK, Located, Whole, Backed, DeployedExecutableSurvives,
      [CommandNext]_vars
  PROVE  DeployedExecutableSurvives'
<1> USE AbsentIsNoBuild DEF Backed, Trying, Whole, Starts, Stops, Upgrading, Rebinding,
    Staged, Installing, DeployedExecutableSurvives, Located, CommandTypeOK, ServiceTypeOK,
    Paths, Contents, NoProcess, Ops, Works, Fails, FailsTwice, Goto, Enter, Finish, FinishUpgrade,
    Removed, Moved
<1>1. CASE Command
  BY <1>1 DEF Command, BeginControl, BeginUpgrade, BeginRefresh, BeginInstall,
      BeginRemove, Begin, serviceVars
<1>2. CASE Start
  BY <1>2 DEF Start, StartReturns, Launch, CanLaunch
<1>3. CASE AwaitStart
  BY <1>3 DEF AwaitStart, StartReturns, Serving
<1>4. CASE Stop
  BY <1>4 DEF Stop, StopReturns
<1>5. CASE AwaitStop
  BY <1>5 DEF AwaitStop, StopReturns
<1>6. CASE Copy
  BY <1>6 DEF Copy
<1>7. CASE Stage
  BY <1>7 DEF Stage
<1>8. CASE SetAside
  BY <1>8 DEF SetAside, Rename
<1>9. CASE Commit
  BY <1>9 DEF Commit, Rename
<1>10. CASE ClearCandidate
  BY <1>10 DEF ClearCandidate
<1>11. CASE Restore
  BY <1>11 DEF Restore, Rename
<1>12. CASE DropBackup
  BY <1>12 DEF DropBackup
<1>13. CASE SaveWrite
  BY <1>13 DEF SaveWrite, SaveReturns
<1>14. CASE SaveAside
  BY <1>14 DEF SaveAside, SaveReturns
<1>15. CASE SaveCommit
  BY <1>15 DEF SaveCommit, SaveReturns
<1>16. CASE SaveEnd
  BY <1>16 DEF SaveEnd, SaveReturns
<1>17. CASE InstallStep
  BY <1>17 DEF InstallStep, CopyStart, CopyAside, CopyCommit, Register, SetRecovery,
      Unregister, Delete, Purge, commandVars
<1>18. CASE ServiceStep /\ UNCHANGED commandVars
  BY <1>18 DEF ServiceStep, ReportRunning, ProcessFails, ProcessStops, Ends, Recover,
      Launch, CanLaunch, commandVars
<1>19. CASE Kill \/ Reboot
  BY <1>19 DEF Kill, Reboot, commandVars
<1>20. CASE UNCHANGED vars
  BY <1>20 DEF vars, serviceVars, commandVars
<1> QED
  BY <1>1, <1>2, <1>3, <1>4, <1>5, <1>6, <1>7, <1>8, <1>9, <1>10, <1>11, <1>12, <1>13,
      <1>14, <1>15, <1>16, <1>17, <1>18, <1>19, <1>20
  DEF CommandNext, CommandStep, UpgradeStep, SaveStep

\* The process stays with its file when the file is renamed.
LEMMA RunningStep ==
  ASSUME CommandTypeOK, Located, Whole, Backed, Running, [CommandNext]_vars
  PROVE  Running'
<1> USE AbsentIsNoBuild DEF Backed, Trying, Whole, Starts, Stops, Upgrading, Rebinding,
    Staged, Installing, Running, Located, CommandTypeOK, ServiceTypeOK, Paths, Contents,
    NoProcess, Ops, Works, Fails, FailsTwice, Goto, Enter, Finish, FinishUpgrade, Removed, Moved
<1>1. CASE Command
  BY <1>1 DEF Command, BeginControl, BeginUpgrade, BeginRefresh, BeginInstall,
      BeginRemove, Begin, serviceVars
<1>2. CASE Start \/ AwaitStart \/ Stop \/ AwaitStop
  BY <1>2 DEF Start, AwaitStart, Stop, AwaitStop, StartReturns, StopReturns, Launch,
      CanLaunch, Serving
<1>3. CASE Copy
  BY <1>3 DEF Copy
<1>4. CASE UpgradeStep
  BY <1>4 DEF UpgradeStep, Stage, SetAside, Commit, ClearCandidate, Restore, DropBackup,
      Rename
<1>5. CASE SaveStep
  BY <1>5 DEF SaveStep, SaveWrite, SaveAside, SaveCommit, SaveEnd, SaveReturns
<1>6. CASE InstallStep
  BY <1>6 DEF InstallStep, CopyStart, CopyAside, CopyCommit, Register, SetRecovery,
      Unregister, Delete, Purge, commandVars
<1>7. CASE ServiceStep /\ UNCHANGED commandVars
  BY <1>7 DEF ServiceStep, ReportRunning, ProcessFails, ProcessStops, Ends, Recover,
      Launch, CanLaunch, commandVars
<1>8. CASE Kill \/ Reboot
  BY <1>8 DEF Kill, Reboot, commandVars
<1>9. CASE UNCHANGED vars
  BY <1>9 DEF vars, serviceVars, commandVars
<1> QED
  BY <1>1, <1>2, <1>3, <1>4, <1>5, <1>6, <1>7, <1>8, <1>9
  DEF CommandNext, CommandStep

\* A save has the old configuration or the new one whole at each of its steps.
LEMMA SavedStep ==
  ASSUME CommandTypeOK, Located, Saved, ConfigurationSurvives, [CommandNext]_vars
  PROVE  Saved'
<1> USE AbsentIsNoBuild DEF Saved, SavingOver, ConfigurationSurvives, Located, Starts,
    Stops, Upgrading, Rebinding, Staged, Installing, CommandTypeOK, ServiceTypeOK, Paths,
    Contents, NoProcess, Ops, Works, Fails, FailsTwice, Goto, Enter, Finish, FinishUpgrade, Removed,
    Moved
<1>1. CASE Command
  BY <1>1 DEF Command, BeginControl, BeginUpgrade, BeginRefresh, BeginInstall,
      BeginRemove, Begin, serviceVars
<1>2. CASE Start \/ AwaitStart \/ Stop \/ AwaitStop
  BY <1>2 DEF Start, AwaitStart, Stop, AwaitStop, StartReturns, StopReturns, Launch,
      CanLaunch, Serving
<1>3. CASE Copy
  BY <1>3 DEF Copy
<1>4. CASE UpgradeStep
  BY <1>4 DEF UpgradeStep, Stage, SetAside, Commit, ClearCandidate, Restore, DropBackup,
      Rename
<1>5. CASE SaveStep
  BY <1>5 DEF SaveStep, SaveWrite, SaveAside, SaveCommit, SaveEnd, SaveReturns
<1>6. CASE InstallStep
  BY <1>6 DEF InstallStep, CopyStart, CopyAside, CopyCommit, Register, SetRecovery,
      Unregister, Delete, Purge, commandVars
<1>7. CASE ServiceStep /\ UNCHANGED commandVars
  BY <1>7 DEF ServiceStep, ReportRunning, ProcessFails, ProcessStops, Ends, Recover,
      Launch, CanLaunch, commandVars
<1>8. CASE Kill \/ Reboot
  BY <1>8 DEF Kill, Reboot, commandVars
<1>9. CASE UNCHANGED vars
  BY <1>9 DEF vars, serviceVars, commandVars
<1> QED
  BY <1>1, <1>2, <1>3, <1>4, <1>5, <1>6, <1>7, <1>8, <1>9
  DEF CommandNext, CommandStep

\* No step takes the last complete configuration off the disk while the service
\* is registered.
LEMMA ConfigurationStep ==
  ASSUME CommandTypeOK, Located, Saved, ConfigurationSurvives, [CommandNext]_vars
  PROVE  ConfigurationSurvives'
<1> USE AbsentIsNoBuild DEF Saved, SavingOver, ConfigurationSurvives, Located, Starts,
    Stops, Upgrading, Rebinding, Staged, Installing, CommandTypeOK, ServiceTypeOK, Paths,
    Contents, NoProcess, Ops, Works, Fails, FailsTwice, Goto, Enter, Finish, FinishUpgrade, Removed,
    Moved
<1>1. CASE Command
  BY <1>1 DEF Command, BeginControl, BeginUpgrade, BeginRefresh, BeginInstall,
      BeginRemove, Begin, serviceVars
<1>2. CASE Start \/ AwaitStart \/ Stop \/ AwaitStop
  BY <1>2 DEF Start, AwaitStart, Stop, AwaitStop, StartReturns, StopReturns, Launch,
      CanLaunch, Serving
<1>3. CASE Copy
  BY <1>3 DEF Copy
<1>4. CASE UpgradeStep
  <2>1. CASE Commit
    BY <2>1 DEF Commit, Rename
  <2>2. CASE Stage \/ SetAside \/ ClearCandidate \/ Restore \/ DropBackup
    BY <2>2 DEF Stage, SetAside, ClearCandidate, Restore, DropBackup, Rename
  <2> QED
    BY <1>4, <2>1, <2>2 DEF UpgradeStep
<1>5. CASE SaveStep
  BY <1>5 DEF SaveStep, SaveWrite, SaveAside, SaveCommit, SaveEnd, SaveReturns
<1>6. CASE InstallStep
  BY <1>6 DEF InstallStep, CopyStart, CopyAside, CopyCommit, Register, SetRecovery,
      Unregister, Delete, Purge, commandVars
<1>7. CASE ServiceStep /\ UNCHANGED commandVars
  BY <1>7 DEF ServiceStep, ReportRunning, ProcessFails, ProcessStops, Ends, Recover,
      Launch, CanLaunch, commandVars
<1>8. CASE Kill \/ Reboot
  BY <1>8 DEF Kill, Reboot, commandVars
<1>9. CASE UNCHANGED vars
  BY <1>9 DEF vars, serviceVars, commandVars
<1> QED
  BY <1>1, <1>2, <1>3, <1>4, <1>5, <1>6, <1>7, <1>8, <1>9
  DEF CommandNext, CommandStep

\* A save writes the new configuration, the second one of a refresh the original.
LEMMA WrittenStep ==
  ASSUME CommandTypeOK, Located, Written, [CommandNext]_vars
  PROVE  Written'
<1> USE DEF Written, Intended, Located, Starts, Stops, Upgrading, Rebinding, Staged, Installing,
    CommandTypeOK, ServiceTypeOK, Paths, Contents, NoProcess, Ops, Works, Fails, FailsTwice, Goto,
    Enter, Finish, FinishUpgrade, Removed, Moved
<1>1. CASE Command
  BY <1>1 DEF Command, BeginControl, BeginUpgrade, BeginRefresh, BeginInstall,
      BeginRemove, Begin, serviceVars
<1>2. CASE Start \/ AwaitStart \/ Stop \/ AwaitStop
  BY <1>2 DEF Start, AwaitStart, Stop, AwaitStop, StartReturns, StopReturns, Launch,
      CanLaunch, Serving
<1>3. CASE Copy
  BY <1>3 DEF Copy
<1>4. CASE UpgradeStep
  BY <1>4 DEF UpgradeStep, Stage, SetAside, Commit, ClearCandidate, Restore, DropBackup,
      Rename
<1>5. CASE SaveStep
  BY <1>5 DEF SaveStep, SaveWrite, SaveAside, SaveCommit, SaveEnd, SaveReturns
<1>6. CASE InstallStep
  BY <1>6 DEF InstallStep, CopyStart, CopyAside, CopyCommit, Register, SetRecovery,
      Unregister, Delete, Purge, commandVars
<1>7. CASE ServiceStep /\ UNCHANGED commandVars
  BY <1>7 DEF ServiceStep, ReportRunning, ProcessFails, ProcessStops, Ends, Recover,
      Launch, CanLaunch, commandVars
<1>8. CASE Kill \/ Reboot
  BY <1>8 DEF Kill, Reboot, commandVars
<1>9. CASE UNCHANGED vars
  BY <1>9 DEF vars, serviceVars, commandVars
<1> QED
  BY <1>1, <1>2, <1>3, <1>4, <1>5, <1>6, <1>7, <1>8, <1>9
  DEF CommandNext, CommandStep

\* A command ends with a report that is so, and no later step makes it wrong
\* before the next command.
LEMMA ReportStep ==
  ASSUME CommandTypeOK, Located, Whole, Backed, Running, Written, ReportIsTrue,
      [CommandNext]_vars
  PROVE  ReportIsTrue'
<1> USE AbsentIsNoBuild DEF ReportIsTrue, Written, Intended, Backed, Trying, Whole, Running,
    Located, Starts, Stops, Upgrading, Rebinding, Staged, Installing, CommandTypeOK,
    ServiceTypeOK, Paths, Contents, NoProcess, Ops, Works, Fails, FailsTwice, Goto, Enter, Finish,
    FinishUpgrade, Removed, Moved
<1>1. CASE Command
  BY <1>1 DEF Command, BeginControl, BeginUpgrade, BeginRefresh, BeginInstall,
      BeginRemove, Begin, serviceVars
<1>2. CASE Start \/ AwaitStart \/ Stop \/ AwaitStop
  BY <1>2 DEF Start, AwaitStart, Stop, AwaitStop, StartReturns, StopReturns, Launch,
      CanLaunch, Serving
<1>3. CASE Copy
  BY <1>3 DEF Copy
<1>4. CASE UpgradeStep
  BY <1>4 DEF UpgradeStep, Stage, SetAside, Commit, ClearCandidate, Restore, DropBackup,
      Rename
<1>5. CASE SaveStep
  BY <1>5 DEF SaveStep, SaveWrite, SaveAside, SaveCommit, SaveEnd, SaveReturns
<1>6. CASE InstallStep
  BY <1>6 DEF InstallStep, CopyStart, CopyAside, CopyCommit, Register, SetRecovery,
      Unregister, Delete, Purge, commandVars
<1>7. CASE ServiceStep /\ UNCHANGED commandVars
  BY <1>7 DEF ServiceStep, ReportRunning, ProcessFails, ProcessStops, Ends, Recover,
      Launch, CanLaunch, commandVars
<1>8. CASE Kill \/ Reboot
  BY <1>8 DEF Kill, Reboot, commandVars
<1>9. CASE UNCHANGED vars
  BY <1>9 DEF vars, serviceVars, commandVars
<1> QED
  BY <1>1, <1>2, <1>3, <1>4, <1>5, <1>6, <1>7, <1>8, <1>9
  DEF CommandNext, CommandStep

-----------------------------------------------------------------------------
ServiceInv ==
  /\ CommandTypeOK /\ Located
  /\ Whole /\ Backed /\ DeployedExecutableSurvives
  /\ Running
  /\ Saved /\ ConfigurationSurvives /\ Written
  /\ ReportIsTrue

\* The installed agent before its first start satisfies the invariant.
LEMMA ServiceInvInit == CommandInit => ServiceInv
<1> SUFFICES ASSUME CommandInit PROVE ServiceInv
  OBVIOUS
<1> USE DEF CommandInit, NoCommand, NoProcess
<1>1. PICK exe \in Executables \ Broken, config \in Configs \ Broken :
        /\ disk = [path \in Paths |-> CASE path = "target" -> exe
                                        [] path = "config" -> config
                                        [] OTHER -> Absent]
        /\ deployed = exe
  OBVIOUS
<1>2. /\ disk["target"] = exe /\ disk["config"] = config
      /\ \A path \in Paths \ {"target", "config"} : disk[path] = Absent
      /\ disk \in [Paths -> Contents]
  BY <1>1 DEF Paths, Contents
<1>3. CommandTypeOK
  <2>1. ServiceTypeOK
    <3>1. process \in [exe : Contents, config : Contents, at : Paths \cup {"none"}]
      BY DEF Contents
    <3>2. (process = NoProcess) = (state = "stopped")
      BY DEF NoProcess
    <3>3. faults \in 0..MaxFaults
      BY FaultBound
    <3> QED
      BY <1>2, <3>1, <3>2, <3>3 DEF ServiceTypeOK
  <2>2. cmd \in [op : Ops, exe : Contents, config : Contents, running : BOOLEAN,
                 original : Contents, undone : BOOLEAN]
    BY DEF Ops, Contents
  <2> QED
    BY <1>1, <2>1, <2>2, CommandBound DEF CommandTypeOK, Results
<1>4. Located
  BY DEF Located, Starts, Stops, Upgrading, Rebinding, Staged, Installing
<1>5. Whole /\ Backed /\ DeployedExecutableSurvives
  BY <1>1, <1>2 DEF Whole, Backed, DeployedExecutableSurvives, Staged, Trying, Paths
<1>6. Running
  BY DEF Running
<1>7. Saved /\ ConfigurationSurvives /\ Written
  BY <1>1, <1>2 DEF Saved, SavingOver, ConfigurationSurvives, Written, Intended, Paths
<1>8. ReportIsTrue
  BY DEF ReportIsTrue
<1> QED
  BY <1>3, <1>4, <1>5, <1>6, <1>7, <1>8 DEF ServiceInv

\* Every step, of a command, of the service or a fault, preserves it.
LEMMA ServiceInvStep == ServiceInv /\ [CommandNext]_vars => ServiceInv'
<1> SUFFICES ASSUME ServiceInv, [CommandNext]_vars PROVE ServiceInv'
  OBVIOUS
<1> USE DEF ServiceInv
<1>1. CommandTypeOK'
  BY FilesTyped, ProcessTyped, LocalsTyped, StateTyped, CountersTyped, PlaceTyped, DeployedTyped
  DEF CommandTypeOK, ServiceTypeOK
<1>2. Located'
  BY LocatedStep
<1>3. Whole' /\ Backed' /\ DeployedExecutableSurvives'
  BY WholeStep, BackedStep, SurvivesStep
<1>4. Running'
  BY RunningStep
<1>5. Saved' /\ ConfigurationSurvives' /\ Written'
  BY SavedStep, ConfigurationStep, WrittenStep
<1>6. ReportIsTrue'
  BY ReportStep
<1> QED
  BY <1>1, <1>2, <1>3, <1>4, <1>5, <1>6

\* The invariant holds in every state of every behaviour.
THEOREM ServiceInvariant == CommandSpec => []ServiceInv
<1>1. CommandInit => ServiceInv
  BY ServiceInvInit
<1>2. ServiceInv /\ [CommandNext]_vars => ServiceInv'
  BY ServiceInvStep
<1> QED
  BY <1>1, <1>2, PTL DEF CommandSpec

-----------------------------------------------------------------------------
\* The state of the commands and of the service keeps its type; in particular the
\* service manager has a process for the service exactly while it is not stopped.
THEOREM TypeCorrect == CommandSpec => []CommandTypeOK
<1>1. ServiceInv => CommandTypeOK
  BY DEF ServiceInv
<1> QED
  BY <1>1, ServiceInvariant, PTL

\* No sequence of failing, killed and repeated commands, of restarts by the service
\* manager and of reboots loses the executable that the service was registered with
\* or that the last successful upgrade put in its place, not even when Install was
\* cut off behind CreateService: serviceUpgrade refuses to stage over a backup and
\* only removes the backup once the candidate is in its place.
THEOREM DeployedSurvives == CommandSpec => []DeployedExecutableSurvives
<1>1. ServiceInv => DeployedExecutableSurvives
  BY DEF ServiceInv
<1> QED
  BY <1>1, ServiceInvariant, PTL

\* Nor does it lose the configuration: machineconfig.Save has the old file aside
\* before the new one takes its place.
THEOREM ConfigurationIsKept == CommandSpec => []ConfigurationSurvives
<1>1. ServiceInv => ConfigurationSurvives
  BY DEF ServiceInv
<1> QED
  BY <1>1, ServiceInvariant, PTL

\* A copy that was cut off is never started: it is only moved when it is complete,
\* and a copy left behind is written anew.
THEOREM ExecutableIsWhole == CommandSpec => []InstalledExecutableIsWhole
<1>1. ServiceInv => InstalledExecutableIsWhole
  BY TornIsNoBuild DEF ServiceInv, InstalledExecutableIsWhole, Whole
<1> QED
  BY <1>1, ServiceInvariant, PTL

\* What serviceInstall, serviceUpgrade and serviceRefreshZCode report is so, whatever
\* the service manager started in the middle of the command and wherever an earlier
\* command was cut off.
THEOREM ReportsAreTrue == CommandSpec => []ReportIsTrue
<1>1. ServiceInv => ReportIsTrue
  BY DEF ServiceInv
<1> QED
  BY <1>1, ServiceInvariant, PTL
=============================================================================
