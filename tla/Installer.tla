----------------------------- MODULE Installer -----------------------------
(***************************************************************************)
(* The nvidia-ctk-installer application (cmd/nvidia-ctk-installer): any    *)
(* number of installer processes on one host.  A process takes the flock   *)
(* of the pidfile, replaces the toolkit directory, adds the nvidia         *)
(* runtimes to the config file of the container engine, has the engine     *)
(* reload it, and, as a daemon, waits for a signal and reverts the config. *)
(*                                                                         *)
(* A process is two goroutines: the one of Run (pc) and the signal handler *)
(* that initialize starts (handler).  They share the channels sigs,        *)
(* waitingForSignal and signalReceived, each with a buffer of one.         *)
(*                                                                         *)
(* The engine's config is one file (docker's daemon.json when JSONConfig,  *)
(* else a TOML file such as a version 1 containerd config): its content is *)
(* the set of things in it the properties tell apart.                      *)
(***************************************************************************)
EXTENDS Naturals, FiniteSets

CONSTANTS
  Proc,               \* the installer processes
  Inode,              \* the inodes the pidfile path may be linked to
  NoProc, NoInode,    \* no process, no inode
  MaxReloadAttempts,  \* maxReloadAttempts
  OptionSet,          \* the command lines considered, a subset of Options
  JSONConfig,         \* the engine config is JSON: an empty file does not parse
  Collectable,        \* processes in which a garbage collection runs
  Killable            \* processes that may be killed or crash

Options == [noDaemon : BOOLEAN, nri : BOOLEAN, noRuntimeConfig : BOOLEAN,
            ignoreErrors : BOOLEAN, restartMode : {"none", "signal", "systemd"}]

ASSUME ConstantsAssumption ==
  /\ NoProc \notin Proc
  /\ NoInode \notin Inode
  /\ MaxReloadAttempts \in Nat \ {0}
  /\ OptionSet \subseteq Options
  /\ JSONConfig \in BOOLEAN
  /\ Collectable \subseteq Proc
  /\ Killable \subseteq Proc

VARIABLES
  opts,       \* the options of each process
  path,       \* the inode the pidfile path is linked to
  lock,       \* the process that holds the flock of each inode
  fd,         \* the inode each process's pidfile descriptor f refers to
  pc,         \* the next step of Run
  handler,    \* the next step of the signal goroutine
  sigs, waitingForSignal, signalReceived,   \* the channels
  cleaning,   \* whether the configurer runs Cleanup rather than Setup
  mem,        \* the engine config as loaded by each process
  attempts,   \* failed attempts to signal the engine
  runtimes,   \* ContainerRuntimeRuntimes: "custom" when it names the user's own
  cfgfile,    \* the engine config on disk
  toolkit,    \* the installed toolkit: the executables and its config.toml
  outcome,    \* how each process ended
  damage      \* history: what has gone wrong so far

files == <<path, lock, fd>>
channels == <<sigs, waitingForSignal, signalReceived>>
memory == <<cleaning, mem, attempts, runtimes>>
disk == <<cfgfile, toolkit>>
vars == <<opts, files, pc, handler, channels, memory, disk, outcome, damage>>

----------------------------------------------------------------------------
(* What the files hold *)

\* The user's own settings, among them a low-level runtime of their own under the
\* name runc or crun (a default runtime of another name, which the nvidia runtime
\* may replace as the default, is the subject of EngineConfig), and the runtimes
\* added by this installer.
Item == {"user", "nvidia"}

CfgFile == [linked : BOOLEAN, items : SUBSET Item]

\* The toolkit's config.toml: absent, created but not written, or written with
\* a runtime list that has or does not have the user's low-level runtime.
ToolkitConf == {"missing", "empty", "default", "custom"}

InstallSteps == {"lowlevel", "rmtoolkit", "files", "tkcreate", "tkwrite", "extras"}
ConfigSteps  == {"load", "truncate", "write", "reload"}
InitSteps    == {"create", "flock", "writepid"}
PC == InitSteps \cup InstallSteps \cup ConfigSteps
        \cup {"new", "nristart", "wait", "waiting", "nristop", "return", "exited"}

HandlerPC == {"off", "listening", "selecting", "notify", "shutdown", "exit", "done"}

Damage == {"overlap", "config", "toolkit", "stalepid"}

Outcome == {"running", "killed", "loser", "unwritable", "early", "failed", "cleaned", "installed"}

TypeOK ==
  /\ opts \in [Proc -> OptionSet]
  /\ path \in Inode \cup {NoInode}
  /\ lock \in [Inode -> Proc \cup {NoProc}]
  /\ fd \in [Proc -> Inode \cup {NoInode}]
  /\ pc \in [Proc -> PC]
  /\ handler \in [Proc -> HandlerPC]
  /\ sigs \in [Proc -> BOOLEAN]
  /\ waitingForSignal \in [Proc -> BOOLEAN]
  /\ signalReceived \in [Proc -> BOOLEAN]
  /\ cleaning \in [Proc -> BOOLEAN]
  /\ mem \in [Proc -> SUBSET Item]
  /\ attempts \in [Proc -> 0 .. MaxReloadAttempts]
  /\ runtimes \in [Proc -> {"default", "custom"}]
  /\ cfgfile \in CfgFile
  /\ toolkit \in [files : BOOLEAN, conf : ToolkitConf]
  /\ outcome \in [Proc -> Outcome]
  /\ damage \in SUBSET Damage

\* A process that initialize has admitted and that has not ended.
Admitted(p) == pc[p] \notin InitSteps \cup {"new", "exited"}

\* The engine config file has been truncated by p and not yet rewritten.
Writing(p) == pc[p] = "write"

\* The toolkit has been removed by p and its config.toml not yet rewritten.
Replacing(p) == pc[p] \in {"files", "tkcreate", "tkwrite"}

Init ==
  /\ opts \in [Proc -> OptionSet]
  /\ path = NoInode
  /\ lock = [i \in Inode |-> NoProc]
  /\ fd = [p \in Proc |-> NoInode]
  /\ pc = [p \in Proc |-> "new"]
  /\ handler = [p \in Proc |-> "off"]
  /\ sigs = [p \in Proc |-> FALSE]
  /\ waitingForSignal = [p \in Proc |-> FALSE]
  /\ signalReceived = [p \in Proc |-> FALSE]
  /\ cleaning = [p \in Proc |-> FALSE]
  /\ mem = [p \in Proc |-> {}]
  /\ attempts = [p \in Proc |-> 0]
  /\ runtimes = [p \in Proc |-> "default"]
  /\ cfgfile = [linked |-> TRUE, items |-> {"user"}]
  /\ toolkit = [files |-> TRUE, conf |-> "custom"]
  /\ outcome = [p \in Proc |-> "running"]
  /\ damage = {}

Goto(p, l) == pc' = [pc EXCEPT ![p] = l]

\* The end of the process: the kernel closes f, which releases the flock, and
\* the two goroutines stop wherever they are, and the process's memory is gone.
Terminate(p, how) ==
  /\ pc' = [pc EXCEPT ![p] = "exited"]
  /\ handler' = [handler EXCEPT ![p] = "off"]
  /\ lock' = [i \in Inode |-> IF lock[i] = p THEN NoProc ELSE lock[i]]
  /\ fd' = [fd EXCEPT ![p] = NoInode]
  /\ outcome' = [outcome EXCEPT ![p] = how]
  /\ damage' = damage \cup (IF Writing(p) THEN {"config"} ELSE {})
                      \cup (IF Replacing(p) THEN {"toolkit"} ELSE {})
                      \cup (IF how \in {"killed", "unwritable"} THEN {"stalepid"} ELSE {})
  /\ sigs' = [sigs EXCEPT ![p] = FALSE]
  /\ waitingForSignal' = [waitingForSignal EXCEPT ![p] = FALSE]
  /\ signalReceived' = [signalReceived EXCEPT ![p] = FALSE]
  /\ cleaning' = [cleaning EXCEPT ![p] = FALSE]
  /\ mem' = [mem EXCEPT ![p] = {}]
  /\ attempts' = [attempts EXCEPT ![p] = 0]
  /\ runtimes' = [runtimes EXCEPT ![p] = "default"]
  /\ UNCHANGED <<opts, disk>>

----------------------------------------------------------------------------
(* initialize and shutdown *)

\* The process is started.
Start(p) ==
  /\ pc[p] = "new"
  /\ Goto(p, "create")
  /\ UNCHANGED <<opts, files, handler, channels, memory, disk, outcome, damage>>

\* os.Create(pidFile): opens the linked inode, or links a new one.
CreatePidFile(p) ==
  /\ pc[p] = "create"
  /\ \/ /\ path # NoInode
        /\ fd' = [fd EXCEPT ![p] = path]
        /\ UNCHANGED <<path, lock>>
     \/ /\ path = NoInode
        /\ \E i \in {j \in Inode : lock[j] = NoProc /\ \A q \in Proc : fd[q] # j} :
             /\ path' = i
             /\ fd' = [fd EXCEPT ![p] = i]
             /\ UNCHANGED lock
  /\ Goto(p, "flock")
  /\ UNCHANGED <<opts, handler, channels, memory, disk, outcome, damage>>

\* (mutant) the result of Flock is not checked
FlockPidFileUnchecked(p) ==
  /\ pc[p] = "flock"
  /\ lock' = [lock EXCEPT ![fd[p]] = p]
  /\ Goto(p, "writepid")
  /\ UNCHANGED <<opts, path, fd, handler, channels, memory, disk, outcome, damage>>

\* unix.Flock(LOCK_EX|LOCK_NB): the loser returns its error from Run, before
\* shutdown is deferred.
FlockPidFile(p) ==
  /\ pc[p] = "flock"
  /\ \/ /\ lock[fd[p]] = NoProc
        /\ lock' = [lock EXCEPT ![fd[p]] = p]
        /\ Goto(p, "writepid")
        /\ UNCHANGED <<opts, path, fd, handler, channels, memory, disk, outcome, damage>>
     \/ /\ lock[fd[p]] # NoProc
        /\ Terminate(p, "loser")
        /\ UNCHANGED path

\* The PID is written, the signals are routed to sigs and the handler starts.
\* From here on other processes count as overlapping with p.
WritePidFile(p) ==
  /\ pc[p] = "writepid"
  /\ Goto(p, "lowlevel")
  /\ handler' = [handler EXCEPT ![p] = "listening"]
  /\ damage' = damage \cup
       (IF \E q \in Proc \ {p} : Admitted(q) THEN {"overlap"} ELSE {})
  /\ UNCHANGED <<opts, files, channels, memory, disk, outcome>>

\* The PID cannot be written: Run returns before shutdown is deferred, and the
\* pidfile stays behind.
WritePidFileFails(p) ==
  /\ pc[p] = "writepid"
  /\ Terminate(p, "unwritable")
  /\ UNCHANGED path

\* f is unreachable once initialize has returned: its finalizer closes the
\* descriptor, and with it goes the flock.
CollectPidFile(p) ==
  /\ p \in Collectable
  /\ Admitted(p)
  /\ fd[p] # NoInode
  /\ fd' = [fd EXCEPT ![p] = NoInode]
  /\ lock' = [i \in Inode |-> IF lock[i] = p THEN NoProc ELSE lock[i]]
  /\ UNCHANGED <<opts, path, pc, handler, channels, memory, disk, outcome, damage>>

\* The deferred shutdown and the return from main.
Shutdown(p) ==
  /\ pc[p] = "return"
  /\ path' = NoInode
  /\ Terminate(p, outcome[p])

----------------------------------------------------------------------------
(* Signals *)

\* HUP, INT, QUIT, PIPE or TERM.  Before signal.Notify the default action ends
\* the process; afterwards the signal is queued in sigs, or dropped when full.
Signal(p) ==
  /\ pc[p] \notin {"new", "exited"}
  /\ \/ /\ pc[p] \in InitSteps
        /\ Terminate(p, "killed")
        /\ UNCHANGED path
     \/ /\ Admitted(p)
        /\ ~sigs[p]
        /\ sigs' = [sigs EXCEPT ![p] = TRUE]
        /\ UNCHANGED <<opts, files, pc, handler, waitingForSignal, signalReceived,
                       memory, disk, outcome, damage>>

\* SIGKILL, a panic, a power cut: nothing of the program runs.
Kill(p) ==
  /\ p \in Killable
  /\ pc[p] \notin {"new", "exited"}
  /\ Terminate(p, "killed")
  /\ UNCHANGED path

\* <-sigs
HandlerReceive(p) ==
  /\ handler[p] = "listening"
  /\ sigs[p]
  /\ sigs' = [sigs EXCEPT ![p] = FALSE]
  /\ handler' = [handler EXCEPT ![p] = "selecting"]
  /\ UNCHANGED <<opts, files, pc, waitingForSignal, signalReceived, memory, disk,
                 outcome, damage>>

\* select: Run is waiting, or it is not (default).
HandlerSelect(p) ==
  /\ handler[p] = "selecting"
  /\ handler' = [handler EXCEPT ![p] =
                   IF waitingForSignal[p] THEN "notify" ELSE "shutdown"]
  /\ waitingForSignal' = [waitingForSignal EXCEPT ![p] = FALSE]
  /\ UNCHANGED <<opts, files, pc, sigs, signalReceived, memory, disk, outcome, damage>>

\* (mutant) the handler takes the token and tells nobody
HandlerNotifyForgotten(p) ==
  /\ handler[p] = "notify"
  /\ handler' = [handler EXCEPT ![p] = "done"]
  /\ UNCHANGED <<opts, files, pc, channels, memory, disk, outcome, damage>>

\* signalReceived <- true
HandlerNotify(p) ==
  /\ handler[p] = "notify"
  /\ ~signalReceived[p]
  /\ signalReceived' = [signalReceived EXCEPT ![p] = TRUE]
  /\ handler' = [handler EXCEPT ![p] = "done"]
  /\ UNCHANGED <<opts, files, pc, sigs, waitingForSignal, memory, disk, outcome, damage>>

\* (mutant) the early exit leaves the pidfile behind
HandlerShutdownKeepsPidFile(p) ==
  /\ handler[p] = "shutdown"
  /\ handler' = [handler EXCEPT ![p] = "exit"]
  /\ UNCHANGED <<opts, files, pc, channels, memory, disk, outcome, damage>>

\* The early exit: the pidfile is removed while Run still runs ...
HandlerShutdown(p) ==
  /\ handler[p] = "shutdown"
  /\ path' = NoInode
  /\ handler' = [handler EXCEPT ![p] = "exit"]
  /\ UNCHANGED <<opts, lock, fd, pc, channels, memory, disk, outcome, damage>>

\* ... until os.Exit(0).
HandlerExit(p) ==
  /\ handler[p] = "exit"
  /\ Terminate(p, "early")
  /\ UNCHANGED path

----------------------------------------------------------------------------
(* Installing the toolkit *)

Noop(p) == opts[p].noRuntimeConfig \/ opts[p].nri

\* Run returns an error, and the deferred shutdown follows.
Fail(p) ==
  /\ Goto(p, "return")
  /\ outcome' = [outcome EXCEPT ![p] = "failed"]
  /\ damage' = damage \cup (IF Writing(p) THEN {"config"} ELSE {})
                      \cup (IF Replacing(p) \/ pc[p] = "rmtoolkit" THEN {"toolkit"} ELSE {})
  /\ UNCHANGED <<opts, files, handler, channels, memory, cfgfile>>

\* The engine config as a process reads it: an empty JSON file is an error.
CanLoad == ~(JSONConfig /\ cfgfile.linked /\ cfgfile.items = {})

\* (mutant) the installed config.toml is not consulted
LowLevelRuntimesFromDefaults(p) ==
  IF ~Noop(p) /\ "user" \in cfgfile.items THEN "custom" ELSE "default"

\* ContainerRuntimeRuntimes: with NRI the list of the installed config.toml when
\* it can be read, without NRI the paths the engine config names.
LowLevelRuntimes(p) ==
  IF opts[p].nri
    THEN IF toolkit.conf = "custom" THEN "custom" ELSE "default"
    ELSE IF ~Noop(p) /\ "user" \in cfgfile.items THEN "custom" ELSE "default"

GetLowlevelRuntimePaths(p) ==
  /\ pc[p] = "lowlevel"
  /\ Noop(p) \/ CanLoad
  /\ runtimes' = [runtimes EXCEPT ![p] = LowLevelRuntimes(p)]
  /\ Goto(p, "rmtoolkit")
  /\ UNCHANGED <<opts, files, handler, channels, cleaning, mem, attempts, disk,
                 outcome, damage>>

\* The engine config does not load: it cannot be read or does not parse.
GetLowlevelRuntimePathsFails(p) ==
  /\ pc[p] = "lowlevel"
  /\ ~Noop(p)
  /\ Fail(p)
  /\ UNCHANGED toolkit

InstallStep(p, from, to, tk) ==
  /\ pc[p] = from
  /\ toolkit' = tk
  /\ Goto(p, to)
  /\ UNCHANGED <<opts, files, handler, channels, memory, cfgfile, outcome, damage>>

\* os.RemoveAll(toolkitRoot): config.toml lives under it.
Removed == [files |-> FALSE, conf |-> "missing"]
RemoveToolkit(p) == InstallStep(p, "rmtoolkit", "files", Removed)

\* The libraries, executables and wrappers.
InstallFiles(p) == InstallStep(p, "files", "tkcreate", [files |-> TRUE, conf |-> toolkit.conf])

\* installToolkitConfig: config.toml is created (truncated), then written.
CreateToolkitConfig(p) == InstallStep(p, "tkcreate", "tkwrite", [files |-> toolkit.files, conf |-> "empty"])
WriteToolkitConfig(p) ==
  InstallStep(p, "tkwrite", "extras", [files |-> toolkit.files, conf |-> runtimes[p]])

\* createDeviceNodes and generateCDISpec.
InstallExtras(p) == InstallStep(p, "extras", "load", toolkit)

\* A step of toolkit.Install fails: its error is returned, or ignored with
\* --ignore-errors.  A failed RemoveAll may have removed config.toml, a failed
\* create skips the write of config.toml as well.
InstallStepFails(p) ==
  /\ pc[p] \in InstallSteps \ {"lowlevel"}
  /\ toolkit' \in {toolkit} \cup (IF pc[p] = "rmtoolkit" THEN {Removed} ELSE {})
  /\ \/ ~opts[p].ignoreErrors /\ Fail(p)
     \/ /\ opts[p].ignoreErrors
        /\ Goto(p, IF pc[p] = "rmtoolkit" THEN "files"
                   ELSE IF pc[p] = "files" THEN "tkcreate"
                   ELSE IF pc[p] = "extras" THEN "load"
                   ELSE "extras")
        /\ damage' = damage \cup (IF pc[p] \in {"tkcreate", "tkwrite"} THEN {"toolkit"} ELSE {})
        /\ UNCHANGED <<opts, files, handler, channels, memory, cfgfile, outcome>>

----------------------------------------------------------------------------
(* Setup and Cleanup of the engine config *)

\* The step of Run after a completed Setup or Cleanup.
AfterConfig(p) ==
  IF cleaning[p] THEN IF opts[p].nri THEN "nristop" ELSE "return"
  ELSE IF opts[p].noDaemon THEN "return"
  ELSE IF opts[p].nri THEN "nristart" ELSE "wait"

Completed(p) ==
  IF cleaning[p] THEN [outcome EXCEPT ![p] = "cleaned"]
  ELSE IF opts[p].noDaemon THEN [outcome EXCEPT ![p] = "installed"]
  ELSE outcome

\* The no-op configurer.
SkipConfig(p) ==
  /\ pc[p] = "load"
  /\ Noop(p)
  /\ Goto(p, AfterConfig(p))
  /\ outcome' = Completed(p)
  /\ UNCHANGED <<opts, files, handler, channels, memory, disk, damage>>

\* (mutant) Configure writes a config of its own instead of adding to the user's
UpdateReplaces(p, items) == IF cleaning[p] THEN items \ {"nvidia"} ELSE {"nvidia"}

\* (mutant) Unconfigure does not remove what Configure added
UpdateNeverReverts(p, items) == items \cup {"nvidia"}

\* Configure adds the nvidia runtimes to what was loaded, Unconfigure removes them.
Update(p, items) == IF cleaning[p] THEN items \ {"nvidia"} ELSE items \cup {"nvidia"}

\* getRuntimeConfig, then UpdateConfig or RevertConfig, all in memory.
LoadConfig(p) ==
  /\ pc[p] = "load"
  /\ ~Noop(p) /\ CanLoad
  /\ mem' = [mem EXCEPT ![p] = Update(p, cfgfile.items)]
  /\ Goto(p, "truncate")
  /\ UNCHANGED <<opts, files, handler, channels, cleaning, attempts, runtimes, disk,
                 outcome, damage>>

\* Raw.Write, first part.  An empty TOML config removes the file; anything else
\* is written to a file that is truncated first.
TruncateConfig(p) ==
  /\ pc[p] = "truncate"
  /\ \/ /\ mem[p] = {} /\ ~JSONConfig
        /\ cfgfile.linked
        /\ cfgfile' = [linked |-> FALSE, items |-> {}]
        /\ Goto(p, "reload")
     \/ /\ mem[p] # {} \/ JSONConfig
        /\ cfgfile' = [linked |-> TRUE, items |-> {}]
        /\ Goto(p, "write")
  /\ UNCHANGED <<opts, files, handler, channels, memory, toolkit, outcome, damage>>

\* Raw.Write, second part: f.Write(output).  (When two processes overlap their
\* bytes may mix; nothing is claimed of the file from then on.)
WriteConfig(p) ==
  /\ pc[p] = "write"
  /\ cfgfile' = [linked |-> TRUE, items |-> mem[p]]
  /\ Goto(p, "reload")
  /\ UNCHANGED <<opts, files, handler, channels, memory, toolkit, outcome, damage>>

\* Restart: nothing to do, or the engine takes the SIGHUP or restarts.
Reload(p) ==
  /\ pc[p] = "reload"
  /\ Goto(p, AfterConfig(p))
  /\ outcome' = Completed(p)
  /\ attempts' = [attempts EXCEPT ![p] = 0]
  /\ UNCHANGED <<opts, files, handler, channels, cleaning, mem, runtimes, disk, damage>>

\* (mutant) a failed attempt flushes the config again, and is not counted
RetryReloadUncounted(p) ==
  /\ pc[p] = "reload"
  /\ opts[p].restartMode = "signal"
  /\ attempts[p] + 1 < MaxReloadAttempts
  /\ Goto(p, "truncate")
  /\ UNCHANGED <<opts, files, handler, channels, memory, disk, outcome, damage>>

\* (mutant) the attempts are not bounded
RetryReloadUnbounded(p) ==
  /\ pc[p] = "reload"
  /\ opts[p].restartMode = "signal"
  /\ attempts[p] <= MaxReloadAttempts
  /\ attempts' = [attempts EXCEPT ![p] = @ + 1]
  /\ UNCHANGED <<opts, files, pc, handler, channels, cleaning, mem, runtimes, disk,
                 outcome, damage>>

\* A failed attempt to signal the engine, with more attempts left.
RetryReload(p) ==
  /\ pc[p] = "reload"
  /\ opts[p].restartMode = "signal"
  /\ attempts[p] + 1 < MaxReloadAttempts
  /\ attempts' = [attempts EXCEPT ![p] = @ + 1]
  /\ UNCHANGED <<opts, files, pc, handler, channels, cleaning, mem, runtimes, disk,
                 outcome, damage>>

\* Any of the steps above returns an error: a config that does not load, an
\* I/O error, the last attempt to signal the engine, a failed systemctl.
ConfigStepFails(p) ==
  /\ \/ pc[p] = "load" /\ ~Noop(p)
     \/ pc[p] \in {"truncate", "write"}
     \/ pc[p] = "reload" /\ opts[p].restartMode = "systemd"
     \/ pc[p] = "reload" /\ opts[p].restartMode = "signal"
                         /\ attempts[p] + 1 = MaxReloadAttempts
  /\ Fail(p)
  /\ UNCHANGED toolkit

----------------------------------------------------------------------------
(* The daemon *)

StartNRI(p) ==
  /\ pc[p] = "nristart"
  /\ \/ /\ Goto(p, "wait")
        /\ UNCHANGED <<opts, files, handler, channels, memory, disk, outcome, damage>>
     \/ Fail(p) /\ UNCHANGED toolkit

\* The deferred nriPlugin.Stop().
StopNRI(p) ==
  /\ pc[p] = "nristop"
  /\ Goto(p, "return")
  /\ UNCHANGED <<opts, files, handler, channels, memory, disk, outcome, damage>>

\* (mutant) waitForSignal blocks without announcing that it waits
AnnounceNothing(p) ==
  /\ pc[p] = "wait"
  /\ Goto(p, "waiting")
  /\ UNCHANGED <<opts, files, handler, channels, memory, disk, outcome, damage>>

\* waitingForSignal <- true
AnnounceWaiting(p) ==
  /\ pc[p] = "wait"
  /\ ~waitingForSignal[p]
  /\ waitingForSignal' = [waitingForSignal EXCEPT ![p] = TRUE]
  /\ Goto(p, "waiting")
  /\ UNCHANGED <<opts, files, handler, sigs, signalReceived, memory, disk, outcome, damage>>

\* <-signalReceived, and on to Cleanup.
AwaitSignal(p) ==
  /\ pc[p] = "waiting"
  /\ signalReceived[p]
  /\ signalReceived' = [signalReceived EXCEPT ![p] = FALSE]
  /\ cleaning' = [cleaning EXCEPT ![p] = TRUE]
  /\ Goto(p, "load")
  /\ UNCHANGED <<opts, files, handler, sigs, waitingForSignal, mem, attempts, runtimes,
                 disk, outcome, damage>>

----------------------------------------------------------------------------
Initialize(p) == CreatePidFile(p) \/ FlockPidFile(p) \/ WritePidFile(p) \/ WritePidFileFails(p)

InstallToolkit(p) ==
  \/ GetLowlevelRuntimePaths(p) \/ GetLowlevelRuntimePathsFails(p)
  \/ RemoveToolkit(p) \/ InstallFiles(p)
  \/ CreateToolkitConfig(p) \/ WriteToolkitConfig(p)
  \/ InstallExtras(p) \/ InstallStepFails(p)

ConfigureEngine(p) ==
  \/ SkipConfig(p) \/ LoadConfig(p) \/ TruncateConfig(p) \/ WriteConfig(p)
  \/ Reload(p) \/ RetryReload(p) \/ ConfigStepFails(p)

Daemon(p) == StartNRI(p) \/ StopNRI(p) \/ AnnounceWaiting(p) \/ AwaitSignal(p)

\* The steps of the goroutine of Run.
RunStep(p) == Initialize(p) \/ InstallToolkit(p) \/ ConfigureEngine(p) \/ Daemon(p) \/ Shutdown(p)

\* The steps of the signal goroutine.
HandlerStep(p) ==
  HandlerReceive(p) \/ HandlerSelect(p) \/ HandlerNotify(p) \/ HandlerShutdown(p) \/ HandlerExit(p)

\* What happens to a process from outside.
Environment(p) == Start(p) \/ Signal(p) \/ Kill(p) \/ CollectPidFile(p)

Next == \E p \in Proc : RunStep(p) \/ HandlerStep(p) \/ Environment(p)

Spec == Init /\ [][Next]_vars

\* The Go scheduler runs every goroutine that can run; no step of Run blocks
\* for ever except the wait for the signal.
Fairness == \A p \in Proc : WF_vars(RunStep(p)) /\ WF_vars(HandlerStep(p))

LiveSpec == Spec /\ Fairness

----------------------------------------------------------------------------
(* Safety *)

\* The pid-file flag promises a single configuration instance (main.go:198): no
\* two admitted processes at a time.  The code does not provide this: f is
\* finalized (main.go:342), and the path is unlinked under a process that has
\* opened it and not yet locked it (main.go:397).
SingleInstance == \A p, q \in Proc : Admitted(p) /\ Admitted(q) => p = q

\* What the flock does provide: of two processes admitted at the same time, at
\* most one still has its descriptor open on the inode that is linked at the
\* pidfile path (initialize, main.go:342-352).
OneHolderOfLinkedPidFile ==
  \A p, q \in Proc :
    /\ Admitted(p) /\ fd[p] = path /\ path # NoInode
    /\ Admitted(q) /\ fd[q] = path
    => p = q

\* The user's own engine settings survive Setup and Cleanup: unless processes
\* have overlapped, or one ended between the truncation and the write, they are
\* on disk, or in the memory of the process that is about to write them
\* (Raw.Write, pkg/config/raw.go:54-60).
UserConfigSafe ==
  "overlap" \notin damage /\ "config" \notin damage =>
    \/ "user" \in cfgfile.items
    \/ \E p \in Proc : Writing(p) /\ "user" \in mem[p]

\* The low-level runtime the user runs is carried from one installation to the
\* next, with or without NRI (the comment at main.go:276-280), unless processes
\* overlapped, the engine config was lost, or an installation was abandoned
\* between removing the toolkit and writing its config.toml.  An installation
\* with neither NRI nor an engine config to read has no source for it.
RuntimesRetained ==
  /\ "overlap" \notin damage /\ "config" \notin damage /\ "toolkit" \notin damage
  /\ \A p \in Proc : opts[p].noRuntimeConfig => opts[p].nri
  => \/ toolkit.conf = "custom"
     \/ \E p \in Proc : Replacing(p) /\ runtimes[p] = "custom"

\* A daemon that reports a completed Cleanup leaves no nvidia runtime in the
\* engine config (Unconfigure, container.go:72-94), unless processes overlapped.
CleanedLeavesNoRuntime ==
  \A p \in Proc :
    outcome[p] = "cleaned" /\ ~Noop(p) /\ pc[p] = "return" /\ "overlap" \notin damage
      => "nvidia" \notin cfgfile.items

\* Once every process has ended the pidfile is gone, whatever order they opened,
\* locked and removed it in, unless one was killed or could not write its PID
\* (shutdown, main.go:394-401).
PidFileRemoved ==
  (\A p \in Proc : pc[p] \in {"new", "exited"}) /\ "stalepid" \notin damage
    => path = NoInode

\* A Run blocked on signalReceived has its token in waitingForSignal for the
\* handler to find, or the handler is on its way to wake it or to exit: a signal
\* is never lost between the two goroutines (main.go:361-381).
NoLostSignal ==
  \A p \in Proc : pc[p] = "waiting" =>
    \/ handler[p] \in {"listening", "selecting"} /\ waitingForSignal[p]
    \/ handler[p] \in {"notify", "shutdown", "exit"}
    \/ signalReceived[p]

\* The comment of Run (main.go:263-265): a daemon unconfigures the runtime on
\* termination.  A signal that arrives before waitForSignal makes the handler
\* exit without Cleanup.
UnconfiguredOnTermination ==
  \A p \in Proc :
    /\ pc[p] = "exited" /\ outcome[p] \in {"early", "cleaned"}
    /\ ~opts[p].noDaemon
    /\ \A q \in Proc \ {p} : pc[q] = "new"
    => "nvidia" \notin cfgfile.items

----------------------------------------------------------------------------
(* Liveness, under LiveSpec.  nriPlugin.Stop is assumed to return: the module   *)
(* NRIPlugin shows when it does not.                                         *)

\* A signal that reaches the handler's channel ends the process, whatever the
\* two goroutines were doing (main.go:361-381).
SignalTerminates == \A p \in Proc : (sigs[p] /\ Admitted(p)) ~> (pc[p] = "exited")

\* An installation ends or becomes a waiting daemon: no retry goes on for ever
\* (maxReloadAttempts, docker_linux.go and containerd_linux.go:94-104).
InstallTerminates ==
  \A p \in Proc : (pc[p] = "create") ~> (pc[p] \in {"waiting", "exited"})
=============================================================================
