-------------------------- MODULE InstallerProofs --------------------------
(***************************************************************************)
(* The safety properties of Installer for any number of processes and      *)
(* inodes, any options and any bound on the reload attempts.               *)
(***************************************************************************)
EXTENDS Installer, TLAPS

\* A step of one process, by kind of step.
LEMMA NextSplit ==
  ASSUME NEW P, Next,
         ASSUME NEW p \in Proc, Initialize(p) PROVE P,
         ASSUME NEW p \in Proc, InstallToolkit(p) PROVE P,
         ASSUME NEW p \in Proc, ConfigureEngine(p) PROVE P,
         ASSUME NEW p \in Proc, Daemon(p) PROVE P,
         ASSUME NEW p \in Proc, Shutdown(p) PROVE P,
         ASSUME NEW p \in Proc, HandlerStep(p) PROVE P,
         ASSUME NEW p \in Proc, Environment(p) PROVE P
  PROVE  P
  BY DEF Next, RunStep

\* The initial states have the right types.
LEMMA InitType == Init => TypeOK
  BY ConstantsAssumption
  DEF Init, TypeOK, PC, InitSteps, InstallSteps, ConfigSteps, HandlerPC, Item, CfgFile,
      ToolkitConf, Outcome, Damage

\* The end of a process preserves the types of everything but the path.
LEMMA TerminateType ==
  ASSUME TypeOK, NEW p \in Proc, NEW how \in Outcome, Terminate(p, how),
         path' \in {path, NoInode}
  PROVE  TypeOK'
<1> USE ConstantsAssumption DEF Terminate, TypeOK
<1>1. damage' \in SUBSET Damage
  <2>1. damage \in SUBSET Damage
    OBVIOUS
  <2>2. {"config", "toolkit", "stalepid"} \subseteq Damage
    BY DEF Damage
  <2> QED BY <2>1, <2>2
<1>2. pc' \in [Proc -> PC] /\ handler' \in [Proc -> HandlerPC] /\ outcome' \in [Proc -> Outcome]
  BY DEF PC, HandlerPC
<1>3. path' \in Inode \cup {NoInode} /\ lock' \in [Inode -> Proc \cup {NoProc}]
      /\ fd' \in [Proc -> Inode \cup {NoInode}]
  OBVIOUS
<1>4. sigs' \in [Proc -> BOOLEAN] /\ waitingForSignal' \in [Proc -> BOOLEAN]
      /\ signalReceived' \in [Proc -> BOOLEAN] /\ cleaning' \in [Proc -> BOOLEAN]
  OBVIOUS
<1>5. mem' \in [Proc -> SUBSET Item] /\ attempts' \in [Proc -> 0 .. MaxReloadAttempts]
      /\ runtimes' \in [Proc -> {"default", "custom"}]
  OBVIOUS
<1>6. UNCHANGED <<opts, cfgfile, toolkit>>
  BY DEF disk
<1> QED BY <1>1, <1>2, <1>3, <1>4, <1>5, <1>6

\* A failed Run preserves the types, whatever it left of the toolkit.
LEMMA FailType ==
  ASSUME TypeOK, NEW p \in Proc, Fail(p),
         toolkit' \in [files : BOOLEAN, conf : ToolkitConf]
  PROVE  TypeOK'
<1>1. damage' \in SUBSET Damage
  <2>1. damage \in SUBSET Damage
    BY DEF TypeOK
  <2>2. {"config", "toolkit"} \subseteq Damage
    BY DEF Damage
  <2> QED BY <2>1, <2>2 DEF Fail
<1> QED BY <1>1 DEF TypeOK, Fail, Goto, PC, Outcome, files, channels, memory

\* Every step keeps the types.
LEMMA StepType == TypeOK /\ [Next]_vars => TypeOK'
<1> SUFFICES ASSUME TypeOK, [Next]_vars PROVE TypeOK'
  OBVIOUS
<1> USE ConstantsAssumption DEF Goto, PC, InitSteps, InstallSteps, ConfigSteps, files,
   channels, memory, disk
<1>1. ASSUME NEW p \in Proc, Initialize(p) PROVE TypeOK'
  <2>1. CASE CreatePidFile(p)
    BY <2>1 DEF CreatePidFile, TypeOK
  <2>2. CASE FlockPidFile(p)
    <3>1. CASE lock[fd[p]] = NoProc /\ lock' = [lock EXCEPT ![fd[p]] = p]
      BY <2>2, <3>1 DEF FlockPidFile, TypeOK
    <3>2. CASE Terminate(p, "loser") /\ UNCHANGED path
      BY <3>2, TerminateType DEF Outcome
    <3> QED BY <2>2, <3>1, <3>2 DEF FlockPidFile
  <2>3. CASE WritePidFile(p)
    <3>1. damage' \in SUBSET Damage
      <4>1. damage \in SUBSET Damage /\ {"overlap"} \subseteq Damage
        BY DEF TypeOK, Damage
      <4> QED BY <2>3, <4>1 DEF WritePidFile
    <3> QED BY <2>3, <3>1 DEF WritePidFile, TypeOK, HandlerPC
  <2>4. CASE WritePidFileFails(p)
    BY <2>4, TerminateType DEF WritePidFileFails, Outcome
  <2> QED BY <1>1, <2>1, <2>2, <2>3, <2>4 DEF Initialize
<1>2. ASSUME NEW p \in Proc, InstallToolkit(p) PROVE TypeOK'
  <2>1. CASE GetLowlevelRuntimePaths(p)
    BY <2>1 DEF GetLowlevelRuntimePaths, LowLevelRuntimes, TypeOK
  <2>2. CASE GetLowlevelRuntimePathsFails(p)
    BY <2>2, FailType DEF GetLowlevelRuntimePathsFails, TypeOK
  <2>3. ASSUME NEW from, NEW to \in PC, NEW tk \in [files : BOOLEAN, conf : ToolkitConf],
               InstallStep(p, from, to, tk)
        PROVE  TypeOK'
    BY <2>3 DEF InstallStep, TypeOK
  <2>4. CASE RemoveToolkit(p)
    BY <2>3, <2>4 DEF RemoveToolkit, Removed, ToolkitConf
  <2>5. CASE InstallFiles(p)
    BY <2>3, <2>5 DEF InstallFiles, TypeOK
  <2>6. CASE CreateToolkitConfig(p)
    BY <2>3, <2>6 DEF CreateToolkitConfig, TypeOK, ToolkitConf
  <2>7. CASE WriteToolkitConfig(p)
    BY <2>3, <2>7 DEF WriteToolkitConfig, TypeOK, ToolkitConf
  <2>8. CASE InstallExtras(p)
    BY <2>3, <2>8 DEF InstallExtras, TypeOK
  <2>9. CASE InstallStepFails(p)
    <3>1. toolkit' \in [files : BOOLEAN, conf : ToolkitConf]
      <4>1. toolkit' \in {toolkit, Removed}
        BY <2>9 DEF InstallStepFails
      <4>2. Removed \in [files : BOOLEAN, conf : ToolkitConf]
        BY DEF Removed, ToolkitConf
      <4> QED BY <4>1, <4>2 DEF TypeOK
    <3>2. CASE Fail(p)
      BY <3>1, <3>2, FailType
    <3>3. CASE opts[p].ignoreErrors /\ ~Fail(p)
      <4>1. damage' \in SUBSET Damage
        <5>1. damage \in SUBSET Damage /\ {"toolkit"} \subseteq Damage
          BY DEF TypeOK, Damage
        <5> QED BY <2>9, <3>3, <5>1 DEF InstallStepFails
      <4> QED BY <2>9, <3>1, <3>3, <4>1 DEF InstallStepFails, TypeOK
    <3> QED BY <2>9, <3>2, <3>3 DEF InstallStepFails
  <2> QED BY <1>2, <2>1, <2>2, <2>4, <2>5, <2>6, <2>7, <2>8, <2>9 DEF InstallToolkit
<1>3. ASSUME NEW p \in Proc, ConfigureEngine(p) PROVE TypeOK'
  <2>1. CASE SkipConfig(p)
    BY <2>1 DEF SkipConfig, AfterConfig, Completed, TypeOK, Outcome
  <2>2. CASE LoadConfig(p)
    <3>1. Update(p, cfgfile.items) \in SUBSET Item
      <4>1. cfgfile.items \in SUBSET Item /\ "nvidia" \in Item
        BY DEF TypeOK, CfgFile, Item
      <4> QED BY <4>1 DEF Update
    <3> QED BY <2>2, <3>1 DEF LoadConfig, TypeOK
  <2>3. CASE TruncateConfig(p)
    <3>1. cfgfile' \in CfgFile
      <4>1. \A b \in BOOLEAN : [linked |-> b, items |-> {}] \in CfgFile
        BY DEF CfgFile
      <4>2. cfgfile' \in {[linked |-> FALSE, items |-> {}], [linked |-> TRUE, items |-> {}]}
        BY <2>3 DEF TruncateConfig
      <4> QED BY <4>1, <4>2
    <3> QED BY <2>3, <3>1 DEF TruncateConfig, TypeOK
  <2>4. CASE WriteConfig(p)
    BY <2>4 DEF WriteConfig, TypeOK, CfgFile
  <2>5. CASE Reload(p)
    BY <2>5 DEF Reload, AfterConfig, Completed, TypeOK, Outcome
  <2>6. CASE RetryReload(p)
    BY <2>6 DEF RetryReload, TypeOK
  <2>7. CASE ConfigStepFails(p)
    BY <2>7, FailType DEF ConfigStepFails, TypeOK
  <2> QED BY <1>3, <2>1, <2>2, <2>3, <2>4, <2>5, <2>6, <2>7 DEF ConfigureEngine
<1>4. ASSUME NEW p \in Proc, Daemon(p) PROVE TypeOK'
  <2>1. CASE StartNRI(p)
    <3>1. CASE Fail(p) /\ UNCHANGED toolkit
      BY <3>1, FailType DEF TypeOK
    <3>2. CASE ~Fail(p)
      BY <2>1, <3>2 DEF StartNRI, TypeOK
    <3> QED BY <2>1, <3>1, <3>2 DEF StartNRI
  <2>2. CASE StopNRI(p)
    BY <2>2 DEF StopNRI, TypeOK
  <2>3. CASE AnnounceWaiting(p)
    BY <2>3 DEF AnnounceWaiting, TypeOK
  <2>4. CASE AwaitSignal(p)
    BY <2>4 DEF AwaitSignal, TypeOK
  <2> QED BY <1>4, <2>1, <2>2, <2>3, <2>4 DEF Daemon
<1>5. ASSUME NEW p \in Proc, Shutdown(p) PROVE TypeOK'
  BY <1>5, TerminateType DEF Shutdown, TypeOK
<1>6. ASSUME NEW p \in Proc, HandlerStep(p) PROVE TypeOK'
  <2>1. CASE HandlerReceive(p)
    BY <2>1 DEF HandlerReceive, TypeOK, HandlerPC
  <2>2. CASE HandlerSelect(p)
    BY <2>2 DEF HandlerSelect, TypeOK, HandlerPC
  <2>3. CASE HandlerNotify(p)
    BY <2>3 DEF HandlerNotify, TypeOK, HandlerPC
  <2>4. CASE HandlerShutdown(p)
    BY <2>4 DEF HandlerShutdown, TypeOK, HandlerPC
  <2>5. CASE HandlerExit(p)
    BY <2>5, TerminateType DEF HandlerExit, Outcome
  <2> QED BY <1>6, <2>1, <2>2, <2>3, <2>4, <2>5 DEF HandlerStep
<1>7. ASSUME NEW p \in Proc, Environment(p) PROVE TypeOK'
  <2>1. CASE Start(p)
    BY <2>1 DEF Start, TypeOK
  <2>2. CASE Signal(p)
    <3>1. CASE Terminate(p, "killed") /\ UNCHANGED path
      BY <3>1, TerminateType DEF Outcome
    <3>2. CASE sigs' = [sigs EXCEPT ![p] = TRUE] /\ ~Terminate(p, "killed")
      BY <2>2, <3>2 DEF Signal, TypeOK
    <3> QED BY <2>2, <3>1, <3>2 DEF Signal
  <2>3. CASE Kill(p)
    BY <2>3, TerminateType DEF Kill, Outcome
  <2>4. CASE CollectPidFile(p)
    BY <2>4 DEF CollectPidFile, TypeOK
  <2> QED BY <1>7, <2>1, <2>2, <2>3, <2>4 DEF Environment
<1>8. CASE UNCHANGED vars
  BY <1>8 DEF vars, TypeOK
<1> QED BY <1>1, <1>2, <1>3, <1>4, <1>5, <1>6, <1>7, <1>8, NextSplit

\* The variables keep their types: for any instance of the constants.
THEOREM TypeCorrect == Spec => []TypeOK
  BY InitType, StepType, PTL DEF Spec

----------------------------------------------------------------------------
(* The inductive invariant, one part per concern. *)

\* Who holds the flock.
LockInv ==
  \A p \in Proc :
    /\ pc[p] \in {"flock", "writepid"} => fd[p] \in Inode
    /\ pc[p] = "writepid" => lock[fd[p]] = p
    /\ Admitted(p) /\ fd[p] # NoInode => lock[fd[p]] = p
    /\ \A i \in Inode : lock[i] = p => fd[p] = i /\ (pc[p] = "writepid" \/ Admitted(p))

\* A process that will still remove the pidfile that is linked now.
Remover(p) ==
  \/ pc[p] \in {"flock", "writepid"} /\ fd[p] = path
  \/ Admitted(p) /\ handler[p] # "exit"

\* The pidfile that is linked has a process to remove it.  A process on its way
\* out has removed it: what is linked now is another inode than its own.
PidInv ==
  /\ \A p \in Proc : handler[p] = "exit" => fd[p] = NoInode \/ fd[p] # path
  /\ path # NoInode /\ "stalepid" \notin damage => \E p \in Proc : Remover(p)

\* Until they overlap, at most one process is admitted.
ExclusionInv ==
  "overlap" \notin damage => \A p, q \in Proc : Admitted(p) /\ Admitted(q) => p = q

\* The protocol between Run and the signal goroutine.
SignalInv ==
  \A p \in Proc :
    /\ Admitted(p) <=> handler[p] # "off"
    /\ cleaning[p] => pc[p] \in ConfigSteps \cup {"nristop", "return"}
    /\ ~cleaning[p] /\ pc[p] # "waiting" =>
         /\ handler[p] \in {"off", "listening", "selecting", "shutdown", "exit"}
         /\ ~waitingForSignal[p]

\* The user's settings are on disk or in the memory of the writer.
UserInv ==
  "overlap" \notin damage /\ "config" \notin damage =>
    /\ \A p \in Proc : pc[p] \in {"truncate", "write"} => "user" \in mem[p]
    /\ "user" \in cfgfile.items \/ \E p \in Proc : Writing(p)

\* The user's low-level runtime is in config.toml or with the process that is
\* replacing it.
RuntimesInv ==
  /\ "overlap" \notin damage /\ "config" \notin damage /\ "toolkit" \notin damage
  /\ \A p \in Proc : opts[p].noRuntimeConfig => opts[p].nri
  => /\ \A p \in Proc : pc[p] = "rmtoolkit" \/ Replacing(p) => runtimes[p] = "custom"
     /\ toolkit.conf = "custom" \/ \E p \in Proc : Replacing(p)

\* Cleanup removes the nvidia runtimes from what it loaded, and nobody else
\* writes until the process has ended.
CleanInv ==
  "overlap" \notin damage =>
    \A p \in Proc :
      /\ cleaning[p] /\ pc[p] \in {"truncate", "write"} => "nvidia" \notin mem[p]
      /\ cleaning[p] /\ pc[p] = "reload" => "nvidia" \notin cfgfile.items
      /\ outcome[p] = "cleaned" => pc[p] \in {"nristop", "return", "exited"}
      /\ outcome[p] = "cleaned" /\ pc[p] = "nristop" => Noop(p)
      /\ outcome[p] = "cleaned" /\ ~Noop(p) /\ pc[p] = "return" => "nvidia" \notin cfgfile.items

InstallerInv ==
  /\ TypeOK /\ LockInv /\ PidInv /\ ExclusionInv /\ SignalInv /\ NoLostSignal
  /\ UserInv /\ RuntimesInv /\ CleanInv

----------------------------------------------------------------------------
(* Preservation *)

\* Every step keeps the flock bookkeeping: only initialize takes a lock, and only
\* a collection or the end of the process releases it.
LEMMA StepLockInv == InstallerInv /\ TypeOK' /\ [Next]_vars => LockInv'
<1> SUFFICES ASSUME InstallerInv, TypeOK', [Next]_vars PROVE LockInv'
  OBVIOUS
<1> USE ConstantsAssumption
    DEF InstallerInv, TypeOK, Admitted, Goto, InitSteps, InstallSteps, ConfigSteps,
        files, channels, memory, disk
<1>1. ASSUME NEW p \in Proc, Initialize(p) PROVE LockInv'
  BY <1>1 DEF Initialize, CreatePidFile, FlockPidFile, WritePidFile, WritePidFileFails,
     Terminate, LockInv
<1>2. ASSUME NEW p \in Proc, InstallToolkit(p) PROVE LockInv'
  BY <1>2 DEF InstallToolkit, GetLowlevelRuntimePaths, LowLevelRuntimes,
     GetLowlevelRuntimePathsFails, RemoveToolkit,
     InstallFiles, CreateToolkitConfig, WriteToolkitConfig, InstallExtras, InstallStep,
     InstallStepFails, Fail, Removed, LockInv
<1>3. ASSUME NEW p \in Proc, ConfigureEngine(p) PROVE LockInv'
  BY <1>3 DEF ConfigureEngine, SkipConfig, LoadConfig, TruncateConfig, WriteConfig, Reload,
     RetryReload, ConfigStepFails,
     Fail, AfterConfig, Completed, Update, LockInv
<1>4. ASSUME NEW p \in Proc, Daemon(p) PROVE LockInv'
  BY <1>4 DEF Daemon, StartNRI, StopNRI, AnnounceWaiting, AwaitSignal, Fail, LockInv
<1>5. ASSUME NEW p \in Proc, Shutdown(p) PROVE LockInv'
  BY <1>5 DEF Shutdown, Terminate, LockInv
<1>6. ASSUME NEW p \in Proc, HandlerStep(p) PROVE LockInv'
  BY <1>6 DEF HandlerStep, HandlerReceive, HandlerSelect, HandlerNotify, HandlerShutdown,
     HandlerExit, Terminate, LockInv
<1>7. ASSUME NEW p \in Proc, Environment(p) PROVE LockInv'
  BY <1>7 DEF Environment, Start, Signal, Kill, CollectPidFile, Terminate, LockInv
<1>8. CASE UNCHANGED vars
  BY <1>8 DEF vars, LockInv
<1> QED BY <1>1, <1>2, <1>3, <1>4, <1>5, <1>6, <1>7, <1>8, NextSplit

\* Every step leaves the linked pidfile a process that will remove it.  The loser
\* of the flock leaves this to the holder.
LEMMA StepPidInv == InstallerInv /\ TypeOK' /\ [Next]_vars => PidInv'
<1> SUFFICES ASSUME InstallerInv, TypeOK', [Next]_vars PROVE PidInv'
  OBVIOUS
<1> USE ConstantsAssumption
    DEF InstallerInv, TypeOK, Admitted, Goto, InitSteps, InstallSteps, ConfigSteps,
        files, channels, memory, disk
<1>1. ASSUME NEW p \in Proc, Initialize(p) PROVE PidInv'
  <2>1. CASE CreatePidFile(p)
    BY <2>1 DEF CreatePidFile, LockInv, SignalInv, PidInv, Remover
  <2>2. CASE FlockPidFile(p)
    BY <2>2 DEF FlockPidFile, Terminate, LockInv, SignalInv, PidInv, Remover
  <2>3. CASE WritePidFile(p)
    BY <2>3 DEF WritePidFile, LockInv, SignalInv, PidInv, Remover
  <2>4. CASE WritePidFileFails(p)
    BY <2>4 DEF WritePidFileFails, Terminate, LockInv, SignalInv, PidInv, Remover
  <2> QED BY <1>1, <2>1, <2>2, <2>3, <2>4 DEF Initialize
<1>2. ASSUME NEW p \in Proc, InstallToolkit(p) PROVE PidInv'
  BY <1>2 DEF InstallToolkit, GetLowlevelRuntimePaths, LowLevelRuntimes,
     GetLowlevelRuntimePathsFails, RemoveToolkit,
     InstallFiles, CreateToolkitConfig, WriteToolkitConfig, InstallExtras, InstallStep,
     InstallStepFails, Fail, Removed, LockInv, SignalInv, PidInv, Remover
<1>3. ASSUME NEW p \in Proc, ConfigureEngine(p) PROVE PidInv'
  BY <1>3 DEF ConfigureEngine, SkipConfig, LoadConfig, TruncateConfig, WriteConfig, Reload,
     RetryReload, ConfigStepFails,
     Fail, AfterConfig, Completed, Update, LockInv, SignalInv, PidInv, Remover
<1>4. ASSUME NEW p \in Proc, Daemon(p) PROVE PidInv'
  BY <1>4 DEF Daemon, StartNRI, StopNRI, AnnounceWaiting, AwaitSignal, Fail, LockInv,
     SignalInv, PidInv, Remover
<1>5. ASSUME NEW p \in Proc, Shutdown(p) PROVE PidInv'
  BY <1>5 DEF Shutdown, Terminate, LockInv, SignalInv, PidInv, Remover
<1>6. ASSUME NEW p \in Proc, HandlerStep(p) PROVE PidInv'
  BY <1>6 DEF HandlerStep, HandlerReceive, HandlerSelect, HandlerNotify, HandlerShutdown,
     HandlerExit, Terminate, LockInv, SignalInv, PidInv, Remover
<1>7. ASSUME NEW p \in Proc, Environment(p) PROVE PidInv'
  BY <1>7 DEF Environment, Start, Signal, Kill, CollectPidFile, Terminate, LockInv,
     SignalInv, PidInv, Remover
<1>8. CASE UNCHANGED vars
  BY <1>8 DEF vars, LockInv, SignalInv, PidInv, Remover
<1> QED BY <1>1, <1>2, <1>3, <1>4, <1>5, <1>6, <1>7, <1>8, NextSplit

\* A process that is admitted beside another is recorded as an overlap.
LEMMA StepExclusionInv == InstallerInv /\ TypeOK' /\ [Next]_vars => ExclusionInv'
<1> SUFFICES ASSUME InstallerInv, TypeOK', [Next]_vars PROVE ExclusionInv'
  OBVIOUS
<1> USE ConstantsAssumption
    DEF InstallerInv, TypeOK, Admitted, Goto, InitSteps, InstallSteps, ConfigSteps,
        files, channels, memory, disk
<1>1. ASSUME NEW p \in Proc, Initialize(p) PROVE ExclusionInv'
  BY <1>1 DEF Initialize, CreatePidFile, FlockPidFile, WritePidFile, WritePidFileFails,
     Terminate, ExclusionInv
<1>2. ASSUME NEW p \in Proc, InstallToolkit(p) PROVE ExclusionInv'
  BY <1>2 DEF InstallToolkit, GetLowlevelRuntimePaths, LowLevelRuntimes,
     GetLowlevelRuntimePathsFails, RemoveToolkit,
     InstallFiles, CreateToolkitConfig, WriteToolkitConfig, InstallExtras, InstallStep,
     InstallStepFails, Fail, Removed, ExclusionInv
<1>3. ASSUME NEW p \in Proc, ConfigureEngine(p) PROVE ExclusionInv'
  BY <1>3 DEF ConfigureEngine, SkipConfig, LoadConfig, TruncateConfig, WriteConfig, Reload,
     RetryReload, ConfigStepFails,
     Fail, AfterConfig, Completed, Update, ExclusionInv
<1>4. ASSUME NEW p \in Proc, Daemon(p) PROVE ExclusionInv'
  BY <1>4 DEF Daemon, StartNRI, StopNRI, AnnounceWaiting, AwaitSignal, Fail, ExclusionInv
<1>5. ASSUME NEW p \in Proc, Shutdown(p) PROVE ExclusionInv'
  BY <1>5 DEF Shutdown, Terminate, ExclusionInv
<1>6. ASSUME NEW p \in Proc, HandlerStep(p) PROVE ExclusionInv'
  BY <1>6 DEF HandlerStep, HandlerReceive, HandlerSelect, HandlerNotify, HandlerShutdown,
     HandlerExit, Terminate, ExclusionInv
<1>7. ASSUME NEW p \in Proc, Environment(p) PROVE ExclusionInv'
  BY <1>7 DEF Environment, Start, Signal, Kill, CollectPidFile, Terminate, ExclusionInv
<1>8. CASE UNCHANGED vars
  BY <1>8 DEF vars, ExclusionInv
<1> QED BY <1>1, <1>2, <1>3, <1>4, <1>5, <1>6, <1>7, <1>8, NextSplit

\* Every step keeps the handler and Run in step.
LEMMA StepSignalInv == InstallerInv /\ TypeOK' /\ [Next]_vars => SignalInv'
<1> SUFFICES ASSUME InstallerInv, TypeOK', [Next]_vars PROVE SignalInv'
  OBVIOUS
<1> USE ConstantsAssumption
    DEF InstallerInv, TypeOK, Admitted, Goto, InitSteps, InstallSteps, ConfigSteps,
        files, channels, memory, disk
<1>1. ASSUME NEW p \in Proc, Initialize(p) PROVE SignalInv'
  BY <1>1 DEF Initialize, CreatePidFile, FlockPidFile, WritePidFile, WritePidFileFails,
     Terminate, SignalInv
<1>2. ASSUME NEW p \in Proc, InstallToolkit(p) PROVE SignalInv'
  BY <1>2 DEF InstallToolkit, GetLowlevelRuntimePaths, LowLevelRuntimes,
     GetLowlevelRuntimePathsFails, RemoveToolkit,
     InstallFiles, CreateToolkitConfig, WriteToolkitConfig, InstallExtras, InstallStep,
     InstallStepFails, Fail, Removed, SignalInv
<1>3. ASSUME NEW p \in Proc, ConfigureEngine(p) PROVE SignalInv'
  BY <1>3 DEF ConfigureEngine, SkipConfig, LoadConfig, TruncateConfig, WriteConfig, Reload,
     RetryReload, ConfigStepFails,
     Fail, AfterConfig, Completed, Update, SignalInv
<1>4. ASSUME NEW p \in Proc, Daemon(p) PROVE SignalInv'
  BY <1>4 DEF Daemon, StartNRI, StopNRI, AnnounceWaiting, AwaitSignal, Fail, SignalInv
<1>5. ASSUME NEW p \in Proc, Shutdown(p) PROVE SignalInv'
  BY <1>5 DEF Shutdown, Terminate, SignalInv
<1>6. ASSUME NEW p \in Proc, HandlerStep(p) PROVE SignalInv'
  BY <1>6 DEF HandlerStep, HandlerReceive, HandlerSelect, HandlerNotify, HandlerShutdown,
     HandlerExit, Terminate, SignalInv
<1>7. ASSUME NEW p \in Proc, Environment(p) PROVE SignalInv'
  BY <1>7 DEF Environment, Start, Signal, Kill, CollectPidFile, Terminate, SignalInv
<1>8. CASE UNCHANGED vars
  BY <1>8 DEF vars, SignalInv
<1> QED BY <1>1, <1>2, <1>3, <1>4, <1>5, <1>6, <1>7, <1>8, NextSplit

\* Every step keeps the signal, or the token for it, on its way.
LEMMA StepNoLostSignal == InstallerInv /\ TypeOK' /\ [Next]_vars => NoLostSignal'
<1> SUFFICES ASSUME InstallerInv, TypeOK', [Next]_vars PROVE NoLostSignal'
  OBVIOUS
<1> USE ConstantsAssumption
    DEF InstallerInv, TypeOK, Admitted, Goto, InitSteps, InstallSteps, ConfigSteps,
        files, channels, memory, disk
<1>1. ASSUME NEW p \in Proc, Initialize(p) PROVE NoLostSignal'
  BY <1>1 DEF Initialize, CreatePidFile, FlockPidFile, WritePidFile, WritePidFileFails,
     Terminate, SignalInv, NoLostSignal
<1>2. ASSUME NEW p \in Proc, InstallToolkit(p) PROVE NoLostSignal'
  BY <1>2 DEF InstallToolkit, GetLowlevelRuntimePaths, LowLevelRuntimes,
     GetLowlevelRuntimePathsFails, RemoveToolkit,
     InstallFiles, CreateToolkitConfig, WriteToolkitConfig, InstallExtras, InstallStep,
     InstallStepFails, Fail, Removed, SignalInv, NoLostSignal
<1>3. ASSUME NEW p \in Proc, ConfigureEngine(p) PROVE NoLostSignal'
  BY <1>3 DEF ConfigureEngine, SkipConfig, LoadConfig, TruncateConfig, WriteConfig, Reload,
     RetryReload, ConfigStepFails,
     Fail, AfterConfig, Completed, Update, SignalInv, NoLostSignal
<1>4. ASSUME NEW p \in Proc, Daemon(p) PROVE NoLostSignal'
  BY <1>4 DEF Daemon, StartNRI, StopNRI, AnnounceWaiting, AwaitSignal, Fail, SignalInv,
     NoLostSignal
<1>5. ASSUME NEW p \in Proc, Shutdown(p) PROVE NoLostSignal'
  BY <1>5 DEF Shutdown, Terminate, SignalInv, NoLostSignal
<1>6. ASSUME NEW p \in Proc, HandlerStep(p) PROVE NoLostSignal'
  BY <1>6 DEF HandlerStep, HandlerReceive, HandlerSelect, HandlerNotify, HandlerShutdown,
     HandlerExit, Terminate, SignalInv, NoLostSignal
<1>7. ASSUME NEW p \in Proc, Environment(p) PROVE NoLostSignal'
  BY <1>7 DEF Environment, Start, Signal, Kill, CollectPidFile, Terminate, SignalInv,
     NoLostSignal
<1>8. CASE UNCHANGED vars
  BY <1>8 DEF vars, SignalInv, NoLostSignal
<1> QED BY <1>1, <1>2, <1>3, <1>4, <1>5, <1>6, <1>7, <1>8, NextSplit

\* Every step keeps the user's settings: only the one admitted process can be
\* between the load and the write.
LEMMA StepUserInv == InstallerInv /\ TypeOK' /\ [Next]_vars => UserInv'
<1> SUFFICES ASSUME InstallerInv, TypeOK', [Next]_vars PROVE UserInv'
  OBVIOUS
<1> USE ConstantsAssumption
    DEF InstallerInv, TypeOK, Admitted, Goto, InitSteps, InstallSteps, ConfigSteps,
        files, channels, memory, disk
<1>1. ASSUME NEW p \in Proc, Initialize(p) PROVE UserInv'
  <2>1. CASE CreatePidFile(p)
    BY <2>1 DEF CreatePidFile, UserInv, ExclusionInv, Writing
  <2>2. CASE FlockPidFile(p)
    BY <2>2 DEF FlockPidFile, Terminate, UserInv, ExclusionInv, Writing
  <2>3. CASE WritePidFile(p)
    BY <2>3 DEF WritePidFile, UserInv, ExclusionInv, Writing
  <2>4. CASE WritePidFileFails(p)
    BY <2>4 DEF WritePidFileFails, Terminate, UserInv, ExclusionInv, Writing
  <2> QED BY <1>1, <2>1, <2>2, <2>3, <2>4 DEF Initialize
<1>2. ASSUME NEW p \in Proc, InstallToolkit(p) PROVE UserInv'
  BY <1>2 DEF InstallToolkit, GetLowlevelRuntimePaths, LowLevelRuntimes,
     GetLowlevelRuntimePathsFails, RemoveToolkit,
     InstallFiles, CreateToolkitConfig, WriteToolkitConfig, InstallExtras, InstallStep,
     InstallStepFails, Fail, Removed, UserInv, ExclusionInv, Writing
<1>3. ASSUME NEW p \in Proc, ConfigureEngine(p) PROVE UserInv'
  BY <1>3 DEF ConfigureEngine, SkipConfig, LoadConfig, TruncateConfig, WriteConfig, Reload,
     RetryReload, ConfigStepFails,
     Fail, AfterConfig, Completed, Update, UserInv, ExclusionInv, Writing
<1>4. ASSUME NEW p \in Proc, Daemon(p) PROVE UserInv'
  BY <1>4 DEF Daemon, StartNRI, StopNRI, AnnounceWaiting, AwaitSignal, Fail, UserInv,
     ExclusionInv, Writing
<1>5. ASSUME NEW p \in Proc, Shutdown(p) PROVE UserInv'
  BY <1>5 DEF Shutdown, Terminate, UserInv, ExclusionInv, Writing
<1>6. ASSUME NEW p \in Proc, HandlerStep(p) PROVE UserInv'
  BY <1>6 DEF HandlerStep, HandlerReceive, HandlerSelect, HandlerNotify, HandlerShutdown,
     HandlerExit, Terminate, UserInv, ExclusionInv, Writing
<1>7. ASSUME NEW p \in Proc, Environment(p) PROVE UserInv'
  BY <1>7 DEF Environment, Start, Signal, Kill, CollectPidFile, Terminate, UserInv,
     ExclusionInv, Writing
<1>8. CASE UNCHANGED vars
  BY <1>8 DEF vars, UserInv, ExclusionInv, Writing
<1> QED BY <1>1, <1>2, <1>3, <1>4, <1>5, <1>6, <1>7, <1>8, NextSplit

\* Every step keeps the user's low-level runtime.
LEMMA StepRuntimesInv == InstallerInv /\ TypeOK' /\ [Next]_vars => RuntimesInv'
<1> SUFFICES ASSUME InstallerInv, TypeOK', [Next]_vars PROVE RuntimesInv'
  OBVIOUS
<1> USE ConstantsAssumption
    DEF InstallerInv, TypeOK, Admitted, Goto, InitSteps, InstallSteps, ConfigSteps,
        files, channels, memory, disk
<1>1. ASSUME NEW p \in Proc, Initialize(p) PROVE RuntimesInv'
  <2>1. CASE CreatePidFile(p)
    BY <2>1 DEF CreatePidFile, RuntimesInv, UserInv, ExclusionInv, Replacing, Writing
  <2>2. CASE FlockPidFile(p)
    BY <2>2 DEF FlockPidFile, Terminate, RuntimesInv, UserInv, ExclusionInv, Replacing, Writing
  <2>3. CASE WritePidFile(p)
    BY <2>3 DEF WritePidFile, RuntimesInv, UserInv, ExclusionInv, Replacing, Writing
  <2>4. CASE WritePidFileFails(p)
    BY <2>4 DEF WritePidFileFails, Terminate, RuntimesInv, UserInv, ExclusionInv,
       Replacing, Writing
  <2> QED BY <1>1, <2>1, <2>2, <2>3, <2>4 DEF Initialize
<1>2. ASSUME NEW p \in Proc, InstallToolkit(p) PROVE RuntimesInv'
  <2>1. CASE GetLowlevelRuntimePaths(p)
    BY <2>1 DEF GetLowlevelRuntimePaths, LowLevelRuntimes, Noop, RuntimesInv, UserInv,
       ExclusionInv, Replacing, Writing
  <2>2. CASE GetLowlevelRuntimePathsFails(p)
    BY <2>2 DEF GetLowlevelRuntimePathsFails, Fail, RuntimesInv, UserInv, ExclusionInv,
       Replacing, Writing
  <2>3. CASE RemoveToolkit(p)
    BY <2>3 DEF RemoveToolkit, InstallStep, Removed, RuntimesInv, UserInv, ExclusionInv,
       Replacing, Writing
  <2>4. CASE InstallFiles(p)
    BY <2>4 DEF InstallFiles, InstallStep, RuntimesInv, UserInv, ExclusionInv, Replacing,
       Writing
  <2>5. CASE CreateToolkitConfig(p)
    BY <2>5 DEF CreateToolkitConfig, InstallStep, RuntimesInv, UserInv, ExclusionInv,
       Replacing, Writing
  <2>6. CASE WriteToolkitConfig(p)
    BY <2>6 DEF WriteToolkitConfig, InstallStep, RuntimesInv, UserInv, ExclusionInv,
       Replacing, Writing
  <2>7. CASE InstallExtras(p)
    BY <2>7 DEF InstallExtras, InstallStep, RuntimesInv, UserInv, ExclusionInv, Replacing,
       Writing
  <2>8. CASE InstallStepFails(p)
    BY <2>8 DEF InstallStepFails, Fail, Removed, RuntimesInv, UserInv, ExclusionInv,
       Replacing, Writing
  <2> QED BY <1>2, <2>1, <2>2, <2>3, <2>4, <2>5, <2>6, <2>7, <2>8 DEF InstallToolkit
<1>3. ASSUME NEW p \in Proc, ConfigureEngine(p) PROVE RuntimesInv'
  BY <1>3 DEF ConfigureEngine, SkipConfig, LoadConfig, TruncateConfig, WriteConfig, Reload,
     RetryReload, ConfigStepFails,
     Fail, AfterConfig, Completed, Update, RuntimesInv, UserInv, ExclusionInv, Replacing,
     Writing
<1>4. ASSUME NEW p \in Proc, Daemon(p) PROVE RuntimesInv'
  BY <1>4 DEF Daemon, StartNRI, StopNRI, AnnounceWaiting, AwaitSignal, Fail, RuntimesInv,
     UserInv, ExclusionInv, Replacing, Writing
<1>5. ASSUME NEW p \in Proc, Shutdown(p) PROVE RuntimesInv'
  BY <1>5 DEF Shutdown, Terminate, RuntimesInv, UserInv, ExclusionInv, Replacing, Writing
<1>6. ASSUME NEW p \in Proc, HandlerStep(p) PROVE RuntimesInv'
  BY <1>6 DEF HandlerStep, HandlerReceive, HandlerSelect, HandlerNotify, HandlerShutdown,
     HandlerExit, Terminate, RuntimesInv, UserInv, ExclusionInv, Replacing, Writing
<1>7. ASSUME NEW p \in Proc, Environment(p) PROVE RuntimesInv'
  BY <1>7 DEF Environment, Start, Signal, Kill, CollectPidFile, Terminate, RuntimesInv,
     UserInv, ExclusionInv, Replacing, Writing
<1>8. CASE UNCHANGED vars
  BY <1>8 DEF vars, RuntimesInv, UserInv, ExclusionInv, Replacing, Writing
<1> QED BY <1>1, <1>2, <1>3, <1>4, <1>5, <1>6, <1>7, <1>8, NextSplit

\* Every step keeps what Cleanup achieved.
LEMMA StepCleanInv == InstallerInv /\ TypeOK' /\ [Next]_vars => CleanInv'
<1> SUFFICES ASSUME InstallerInv, TypeOK', [Next]_vars PROVE CleanInv'
  OBVIOUS
<1> USE ConstantsAssumption
    DEF InstallerInv, TypeOK, Admitted, Goto, InitSteps, InstallSteps, ConfigSteps,
        files, channels, memory, disk
<1>1. ASSUME NEW p \in Proc, Initialize(p) PROVE CleanInv'
  BY <1>1 DEF Initialize, CreatePidFile, FlockPidFile, WritePidFile, WritePidFileFails,
     Terminate, CleanInv, ExclusionInv, Noop
<1>2. ASSUME NEW p \in Proc, InstallToolkit(p) PROVE CleanInv'
  BY <1>2 DEF InstallToolkit, GetLowlevelRuntimePaths, LowLevelRuntimes,
     GetLowlevelRuntimePathsFails, RemoveToolkit,
     InstallFiles, CreateToolkitConfig, WriteToolkitConfig, InstallExtras, InstallStep,
     InstallStepFails, Fail, Removed, CleanInv, ExclusionInv, Noop
<1>3. ASSUME NEW p \in Proc, ConfigureEngine(p) PROVE CleanInv'
  BY <1>3 DEF ConfigureEngine, SkipConfig, LoadConfig, TruncateConfig, WriteConfig, Reload,
     RetryReload, ConfigStepFails,
     Fail, AfterConfig, Completed, Update, CleanInv, ExclusionInv, Noop
<1>4. ASSUME NEW p \in Proc, Daemon(p) PROVE CleanInv'
  BY <1>4 DEF Daemon, StartNRI, StopNRI, AnnounceWaiting, AwaitSignal, Fail, CleanInv,
     ExclusionInv, Noop
<1>5. ASSUME NEW p \in Proc, Shutdown(p) PROVE CleanInv'
  BY <1>5 DEF Shutdown, Terminate, CleanInv, ExclusionInv, Noop
<1>6. ASSUME NEW p \in Proc, HandlerStep(p) PROVE CleanInv'
  BY <1>6 DEF HandlerStep, HandlerReceive, HandlerSelect, HandlerNotify, HandlerShutdown,
     HandlerExit, Terminate, CleanInv, ExclusionInv, Noop
<1>7. ASSUME NEW p \in Proc, Environment(p) PROVE CleanInv'
  BY <1>7 DEF Environment, Start, Signal, Kill, CollectPidFile, Terminate, CleanInv,
     ExclusionInv, Noop
<1>8. CASE UNCHANGED vars
  BY <1>8 DEF vars, CleanInv, ExclusionInv, Noop
<1> QED BY <1>1, <1>2, <1>3, <1>4, <1>5, <1>6, <1>7, <1>8, NextSplit

\* The initial states satisfy the inductive invariant.
LEMMA InitInv == Init => InstallerInv
<1> SUFFICES ASSUME Init PROVE InstallerInv
  OBVIOUS
<1>1. TypeOK
  BY InitType
<1>2. LockInv /\ PidInv /\ ExclusionInv /\ SignalInv /\ NoLostSignal
  BY ConstantsAssumption
  DEF Init, LockInv, PidInv, Remover, ExclusionInv, SignalInv, NoLostSignal, Admitted,
  InitSteps
<1>3. UserInv /\ RuntimesInv /\ CleanInv
  BY DEF Init, UserInv, RuntimesInv, CleanInv, Replacing, Writing
<1> QED BY <1>1, <1>2, <1>3 DEF InstallerInv

\* InstallerInv is an invariant: the parts are proved together, because each
\* leans on the others (exclusion on the history of overlaps, the config and the
\* toolkit on exclusion, the pidfile on the lock and on the handler's state).
THEOREM InstallerInvariant == Spec => []InstallerInv
<1>1. Init => InstallerInv
  BY InitInv
<1>2. InstallerInv /\ [Next]_vars => InstallerInv'
  BY StepType, StepLockInv, StepPidInv, StepExclusionInv, StepSignalInv, StepNoLostSignal,
     StepUserInv, StepRuntimesInv, StepCleanInv DEF InstallerInv
<1> QED BY <1>1, <1>2, PTL DEF Spec

\* The flock admits one process per linked pidfile (initialize, main.go:342-352).
THEOREM OneHolder == Spec => []OneHolderOfLinkedPidFile
<1>1. InstallerInv => OneHolderOfLinkedPidFile
  BY DEF InstallerInv, LockInv, OneHolderOfLinkedPidFile
<1> QED BY <1>1, InstallerInvariant, PTL

\* Setup and Cleanup keep the user's engine settings unless processes overlap
\* or one ends in the middle of the write (Raw.Write, raw.go:54-60).
THEOREM UserConfigIsSafe == Spec => []UserConfigSafe
<1>1. InstallerInv => UserConfigSafe
  BY DEF InstallerInv, UserInv, UserConfigSafe, Writing
<1> QED BY <1>1, InstallerInvariant, PTL

\* Installations hand the user's low-level runtime on to each other
\* (main.go:275-295).
THEOREM RuntimesAreRetained == Spec => []RuntimesRetained
<1>1. InstallerInv => RuntimesRetained
  BY DEF InstallerInv, RuntimesInv, RuntimesRetained
<1> QED BY <1>1, InstallerInvariant, PTL

\* A completed Cleanup leaves no nvidia runtime (container.go:72-94).
THEOREM CleanedIsClean == Spec => []CleanedLeavesNoRuntime
<1>1. InstallerInv => CleanedLeavesNoRuntime
  BY DEF InstallerInv, CleanInv, CleanedLeavesNoRuntime
<1> QED BY <1>1, InstallerInvariant, PTL

\* The last process to end leaves no pidfile (shutdown, main.go:394-401).
THEOREM PidFileIsRemoved == Spec => []PidFileRemoved
<1>1. InstallerInv => PidFileRemoved
  BY DEF InstallerInv, PidInv, Remover, PidFileRemoved, Admitted, InitSteps
<1> QED BY <1>1, InstallerInvariant, PTL

\* No signal is lost between the two goroutines (main.go:361-381).
THEOREM SignalsAreNotLost == Spec => []NoLostSignal
<1>1. InstallerInv => NoLostSignal
  BY DEF InstallerInv
<1> QED BY <1>1, InstallerInvariant, PTL
=============================================================================
