--------------------------- MODULE EngineConfig ---------------------------
(***************************************************************************)
(* The config files of a container engine and what the toolkit does to     *)
(* them (pkg/config/engine, cmd/nvidia-ctk-installer/container and         *)
(* nvidia-ctk runtime configure).  One process at a time loads the config  *)
(* of the engine, adds or removes the nvidia runtimes in memory, saves one *)
(* or two files and has the engine restart.  Meanwhile the user edits the  *)
(* top-level file, processes crash, and the engine restarts by itself.     *)
(*                                                                         *)
(* Saving a file is one step here: the module Installer splits it.         *)
(* The legacy default_runtime section (UseLegacyConfig) is left out, and   *)
(* so is --restart-mode=none: the engine is restarted by the process.      *)
(***************************************************************************)
EXTENDS Naturals, Sequences, Functions

CONSTANTS
  Hosts,         \* the hosts considered, a subset of Host
  UserName,      \* names of runtimes the user may configure
  ModeRuntimes,  \* the runtimes added for the modes: nvidia-cdi, nvidia-legacy
  OptionSet,     \* the command lines considered
  Setting,       \* the values of the user's other settings
  UserConfigs    \* what the user may write to the top-level file

\* Names with the prefix "nvidia", and a name that an administrator chose.
NvidiaPrefixed == {"nvidia"} \cup ModeRuntimes
Name == UserName \cup NvidiaPrefixed \cup {"gpu"}

Options == [name : {"nvidia", "gpu"} \cup ModeRuntimes, setAsDefault : BOOLEAN,
            enableCDI : BOOLEAN]

\* The container engine, and whether a drop-in path is configured: by default it is
\* for containerd, whatever the version of its config, and for cri-o.  The engine is
\* containerdV1 where the config that is loaded has version 1.
Host == {h \in [engine : {"docker", "containerd", "containerdV1", "crio"}, dropIn : BOOLEAN] :
           h.engine = "docker" => ~h.dropIn}

ASSUME ConstantsAssumption ==
  /\ Hosts # {} /\ Hosts \subseteq Host
  /\ UserName \cap (NvidiaPrefixed \cup {"gpu", "none", "builtin"}) = {}
  /\ "runc" \in UserName
  /\ ModeRuntimes \cap {"nvidia", "gpu", "crun", "none", "builtin"} = {}
  /\ OptionSet \subseteq Options
  /\ "none" \notin Setting

VARIABLES
  host,          \* the engine and the drop-in path, which do not change
  top, dropin,   \* the two files
  running,       \* the config the engine runs with
  pc, phase,     \* the next step, and what the process is doing
  opts,          \* its options
  todo,          \* the runtimes it has yet to add or remove
  source,        \* the loaded source config, unless it is the destination
  aliased,       \* whether the destination shares its tree with the source:
                 \* docker and version 1 have one config, and containerd's
                 \* drop-in refers to the subtree of the source
  dest,          \* the destination config in memory
  tl,            \* the top-level config in memory
  lowlevel,      \* the low-level runtimes found by GetLowlevelRuntimePaths
  want,          \* history: what the user wrote to the top-level file
  unseen,        \* history: "yes" while the last edit is not in what was saved,
                 \* "read" once it has been loaded
  raced          \* history: the user edited the file between load and save

process == <<opts, todo, source, aliased, dest, tl, lowlevel>>
user == <<host, want, raced>>
history == <<user, unseen>>
vars == <<top, dropin, running, pc, phase, process, history>>

Engine == host.engine
DropIn == host.dropIn

\* Version 1 of containerd's config has no imports (containerd.go:122-125): a drop-in
\* file is written, and the engine does not read it.
DropInUnread == Engine = "containerdV1" /\ DropIn

----------------------------------------------------------------------------
(* Configs *)

\* A runtime's entry: the binary it names, and the runtime its options are from.
NoEntry == [bin |-> "none", opts |-> "none"]
Entry == [bin : Name, opts : Name \cup {"builtin"}]

\* The part of a config that is about runtimes (for containerd the subtree of the
\* CRI plugin), with the user's other settings and, for docker, features.
Section == [runtimes : [Name -> Entry \cup {NoEntry}], default : Name \cup {"none"},
            cdi : BOOLEAN, settings : Setting \cup {"none"}, features : BOOLEAN]

EmptySection == [runtimes |-> [n \in Name |-> NoEntry], default |-> "none",
                 cdi |-> FALSE, settings |-> "none", features |-> FALSE]

\* A file; imports tells whether it imports the directory of the drop-in file.
File == [exists : BOOLEAN, version : BOOLEAN, imports : BOOLEAN, section : Section]

NoFile == [exists |-> FALSE, version |-> FALSE, imports |-> FALSE, section |-> EmptySection]

IsEmpty(f) == ~f.version /\ ~f.imports /\ f.section = EmptySection

\* containerd's files have a version.
HasVersion == Engine \in {"containerd", "containerdV1"}

\* A file without a version is read as one of version 1 (containerd.go:164-166).
Versioned(f) == ~IsEmpty(f) => f.version

UserEntry(n) == [bin |-> n, opts |-> n]

\* What a user may have in the top-level file: runtimes, a default among them,
\* other settings.
UserSection ==
  {s \in [runtimes : {[n \in Name |-> IF n \in u THEN UserEntry(n) ELSE NoEntry] : u \in SUBSET UserName},
          default : UserName \cup {"none"}, cdi : {FALSE},
          settings : Setting \cup {"none"}, features : {FALSE}] :
     s.default # "none" => s.runtimes[s.default] # NoEntry}

ASSUME UserConfigsAssumption == UserConfigs # {} /\ UserConfigs \subseteq UserSection

\* With docker there are features as well; an empty containerd config is not a
\* version 1 config.
UserChoices ==
  {[s EXCEPT !.features = Engine = "docker"] : s \in UserConfigs}
    \ (IF Engine = "containerdV1" THEN {EmptySection} ELSE {})

TypeOK ==
  /\ host \in Hosts
  /\ top \in File /\ dropin \in File /\ tl \in File /\ dest \in File
  /\ running \in Section /\ source \in Section /\ want \in Section
  /\ pc \in {"idle", "lowlevel", "load", "update", "save", "savetop", "remove", "restart", "up"}
  /\ phase \in {"setup", "cleanup", "configure", "cleaned", "ended"}
  /\ opts \in OptionSet
  /\ todo \subseteq Name
  /\ lowlevel \subseteq Name
  /\ aliased \in BOOLEAN /\ unseen \in {"no", "read", "yes"} /\ raced \in BOOLEAN

\* What the engine adds to a config: its built-in runc and the default.
WithDefaults(s) ==
  [s EXCEPT !.runtimes["runc"] = IF @ = NoEntry THEN UserEntry("runc") ELSE @,
            !.default = IF @ = "none" THEN "runc" ELSE @]

\* How the engine reads its files.  containerd overrides a plugin's section with
\* that of an imported file (containerd.go:136-142); cri-o reads its drop-in
\* directory always and merges by key; docker and version 1 read one file.
EffectiveOf(engine, t, d) ==
  CASE engine = "containerd" ->
         IF t.imports /\ d.section # EmptySection THEN d.section ELSE t.section
    [] engine = "crio" ->
         [runtimes |-> [n \in Name |-> IF d.section.runtimes[n] # NoEntry
                                       THEN d.section.runtimes[n] ELSE t.section.runtimes[n]],
          default  |-> IF d.section.default # "none" THEN d.section.default ELSE t.section.default,
          cdi      |-> t.section.cdi,
          settings |-> t.section.settings,
          features |-> FALSE]
    [] OTHER -> t.section

Effective == EffectiveOf(Engine, top, dropin)

----------------------------------------------------------------------------
(* pkg/config/engine: reading *)

\* (mutant) an nvidia default runtime is taken for a low-level runtime
GetLowLevelRuntimesUnfiltered(s) ==
  (IF s.default # "none" THEN <<s.default>> ELSE <<>>) \o <<"runc", "crun">>

\* The default runtime unless its name starts with nvidia, then runc and crun.
GetLowLevelRuntimes(s) ==
  (IF s.default \notin NvidiaPrefixed \cup {"none"} THEN <<s.default>> ELSE <<>>)
    \o <<"runc", "crun">>

HasRuntime(s, r) == r \in Name /\ s.runtimes[r] # NoEntry

GetBinaryPathsForRuntimes(s) ==
  {s.runtimes[r].bin : r \in {r \in Range(GetLowLevelRuntimes(s)) : HasRuntime(s, r)}}

\* The positions of the low-level runtimes that the config has an entry for.
Known(s) == {i \in DOMAIN GetLowLevelRuntimes(s) : HasRuntime(s, GetLowLevelRuntimes(s)[i])}

FirstKnown(s) == GetLowLevelRuntimes(s)[CHOOSE i \in Known(s) : \A j \in Known(s) : i <= j]

\* (mutant) there are no options to fall back to
GetDefaultRuntimeOptionsNone(s) ==
  IF Known(s) = {} THEN "none" ELSE s.runtimes[FirstKnown(s)].opts

\* The options a new runtime starts from: those of the first low-level runtime.
GetDefaultRuntimeOptions(s) ==
  IF Known(s) = {} THEN "builtin" ELSE s.runtimes[FirstKnown(s)].opts

----------------------------------------------------------------------------
(* pkg/config/engine: writing *)

IsDefault(n, o) == o.setAsDefault /\ n = o.name

WithEntry(f, n, options) ==
  [f EXCEPT !.section.runtimes[n] = [bin |-> "nvidia", opts |-> options]]

\* A docker runtime has no options, and a default that is this one stays it.
DockerAddRuntime(f, n, o) ==
  [WithEntry(f, n, "builtin") EXCEPT !.section.default = IF IsDefault(n, o) THEN n ELSE @]

\* A runtime that is not to be the default and is, ceases to be.
CrioAddRuntime(f, n, o, options) ==
  [WithEntry(f, n, options) EXCEPT
     !.section.default = IF IsDefault(n, o) THEN n ELSE IF @ = n THEN "none" ELSE @]

ContainerdAddRuntime(f, n, o, options) ==
  [WithEntry(f, n, options) EXCEPT
     !.section.default = IF IsDefault(n, o) THEN n ELSE IF @ = n THEN "none" ELSE @,
     !.version = TRUE]

\* Version 1 adds to that the path in an older place.
V1AddRuntime(f, n, o, options) == ContainerdAddRuntime(f, n, o, options)

\* (mutant) the drop-in gets no version
AddRuntimeUnversioned(f, n, o, options) == CrioAddRuntime(f, n, o, options)

AddRuntime(f, n, o, options) ==
  CASE Engine = "docker"       -> DockerAddRuntime(f, n, o)
    [] Engine = "crio"         -> CrioAddRuntime(f, n, o, options)
    [] Engine = "containerd"   -> ContainerdAddRuntime(f, n, o, options)
    [] Engine = "containerdV1" -> V1AddRuntime(f, n, o, options)

\* The features of a loaded docker config are no map[string]bool (docker.go:113),
\* and the map is replaced.
DockerEnableCDI(f) == [f EXCEPT !.section.cdi = TRUE, !.section.features = FALSE]

\* Nothing to do for cri-o.
EnableCDI(f) ==
  CASE Engine = "docker" -> DockerEnableCDI(f)
    [] Engine = "crio" -> f
    [] OTHER -> [f EXCEPT !.section.cdi = TRUE]

\* docker's default becomes runc.
DockerRemoveRuntime(f, n) ==
  [f EXCEPT !.section.runtimes[n] = NoEntry,
            !.section.default = IF @ = n THEN "runc" ELSE @]

\* Sections that become empty are pruned, and so is a version that is left alone.
ContainerdRemoveRuntime(f, n) ==
  LET s == [f.section EXCEPT !.runtimes[n] = NoEntry, !.default = IF @ = n THEN "none" ELSE @]
  IN  [f EXCEPT !.section = s, !.version = @ /\ (f.imports \/ s # EmptySection)]

V1RemoveRuntime(f, n) == ContainerdRemoveRuntime(f, n)

\* (mutant) the whole table of runtimes is removed
RemoveRuntimePrunesAll(f, n) ==
  [f EXCEPT !.section.runtimes = [m \in Name |-> NoEntry],
            !.section.default = IF @ = n THEN "none" ELSE @]

RemoveRuntime(f, n) ==
  CASE Engine = "docker"       -> DockerRemoveRuntime(f, n)
    [] Engine = "containerd"   -> ContainerdRemoveRuntime(f, n)
    [] Engine = "containerdV1" -> V1RemoveRuntime(f, n)

\* UpdateDefaultRuntime(name, unset), which is all that cri-o's cleanup does.
UnsetDefaultRuntime(f, n) == [f EXCEPT !.section.default = IF @ = n THEN "none" ELSE @]

\* GetRuntimes: the nvidia runtime (whose name is "nvidia" when the requested one
\* is taken) and those of the modes.
GetRuntimes(o) ==
  (IF o.name \in ModeRuntimes THEN {"nvidia"} ELSE {o.name}) \cup ModeRuntimes

\* The runtimes a process adds: nvidia-ctk runtime configure only the one named.
Requested(o) == IF phase = "configure" THEN {o.name} ELSE GetRuntimes(o)

----------------------------------------------------------------------------
(* The top-level file of a containerd config with a drop-in *)

\* (mutant) the version is not set in a config that was empty
EnsureImportsUnversioned(f) == [f EXCEPT !.imports = TRUE]

\* (mutant) the import is not added
EnsureImportsSkipped(f) == f

\* ensureImports: an empty config gets its version, too.
EnsureImports(f) == [f EXCEPT !.imports = TRUE, !.version = @ \/ (~f.imports /\ IsEmpty(f))]

\* simplify: the import goes when nothing but it and the version is left, then
\* the version when it alone is left.
Simplify(f) ==
  IF f.section = EmptySection /\ (f.version \/ ~f.imports) THEN NoFile ELSE f

----------------------------------------------------------------------------
\* Forgetting the config that was loaded.
Forget ==
  /\ todo' = {} /\ source' = EmptySection /\ aliased' = FALSE
  /\ dest' = NoFile /\ tl' = NoFile /\ lowlevel' = {}

Init ==
  /\ host \in Hosts
  /\ want \in UserChoices
  /\ top = IF want = EmptySection THEN NoFile
           ELSE [exists |-> TRUE, version |-> HasVersion,
                 imports |-> FALSE, section |-> want]
  /\ dropin = NoFile
  /\ running = WithDefaults(want)
  /\ pc = "idle" /\ phase = "ended"
  /\ opts \in OptionSet
  /\ todo = {} /\ source = EmptySection /\ aliased = FALSE
  /\ dest = NoFile /\ tl = NoFile /\ lowlevel = {}
  /\ unseen = "no" /\ raced = FALSE

\* A process starts: the installer, or nvidia-ctk runtime configure.  (Bound: once
\* an edit has raced with a save, the process at hand and its Cleanup are the last.)
Begin(o, what) ==
  /\ pc = "idle"
  /\ ~raced
  /\ pc' = IF what = "setup" THEN "lowlevel" ELSE "load"
  /\ phase' = what
  /\ opts' = o
  /\ UNCHANGED <<top, dropin, running, todo, source, aliased, dest, tl, lowlevel, history>>

\* The daemon is told to end.
BeginCleanup ==
  /\ pc = "up"
  /\ pc' = "load"
  /\ phase' = "cleanup"
  /\ UNCHANGED <<top, dropin, running, process, history>>

\* What containerd config dump prints: the files as containerd reads them.
ContainerdCommandSource == WithDefaults(Effective)

\* What crio status config prints: the config that cri-o runs with.
CrioCommandSource == WithDefaults(running)

\* The engine's own command comes first.  It may fail, and then the top-level file
\* is the source; docker has the file only.
GetConfigLoaders ==
  CASE Engine = "containerd" -> {ContainerdCommandSource, top.section}
    [] Engine = "crio"       -> {CrioCommandSource, top.section}
    [] OTHER                 -> {top.section}

GetLowlevelRuntimePaths ==
  /\ pc = "lowlevel"
  /\ \E s \in GetConfigLoaders : lowlevel' = GetBinaryPathsForRuntimes(s)
  /\ pc' = "load"
  /\ UNCHANGED <<top, dropin, running, phase, opts, todo, source, aliased, dest, tl, history>>

\* (mutant) the drop-in starts from nothing
BaseDropInEmpty(s) == NoFile

\* getBaseDropInConfigTree: the drop-in starts with the source's own section.
BaseDropIn(s) == [NoFile EXCEPT !.section = s]

\* docker and version 1 write what they read.
DockerLoadConfig == [top EXCEPT !.exists = FALSE]

\* containerd.New, by the version of the config.
ContainerdNew(s) == IF Engine = "containerdV1" THEN [top EXCEPT !.exists = FALSE] ELSE BaseDropIn(s)

\* crio.New: the destination is empty, unless Cleanup asked for the file that it is
\* going to write.
CrioNew == IF phase # "cleanup" THEN NoFile ELSE IF DropIn THEN dropin ELSE top

\* getRuntimeConfig.  (A top-level file that cannot be parsed leaves containerd's tl
\* without a tree, containerd.go:129: the process panics when it comes to use it, and
\* End stands for that.)
Load ==
  /\ pc = "load"
  /\ \E s \in GetConfigLoaders :
       /\ aliased' = (Engine # "crio" /\ (Engine = "containerd" => s # EmptySection))
       /\ source' = IF aliased' THEN EmptySection ELSE s
       /\ dest' = CASE Engine = "docker" -> DockerLoadConfig
                    [] Engine = "crio" -> CrioNew
                    [] OTHER -> ContainerdNew(s)
       /\ unseen' = IF unseen = "yes" /\ s \in {top.section, WithDefaults(top.section)}
                    THEN "read" ELSE unseen
  /\ tl' = IF Engine = "containerd" THEN top ELSE NoFile
  /\ todo' = IF Engine = "crio" /\ phase = "cleanup" THEN {} ELSE Requested(opts)
  /\ pc' = "update"
  /\ UNCHANGED <<top, dropin, running, phase, opts, lowlevel, user>>

\* UpdateConfig: the runtimes are added in the order of a map, that is in any.
\* The options are read from the source, which may be the tree being written.
UpdateOne(n) ==
  /\ pc = "update" /\ phase \in {"setup", "configure"}
  /\ n \in todo
  /\ todo' = todo \ {n}
  /\ dest' = AddRuntime(dest, n, opts,
               GetDefaultRuntimeOptions(IF aliased THEN dest.section ELSE source))
  /\ UNCHANGED <<top, dropin, running, pc, phase, opts, source, aliased, tl, lowlevel, history>>

\* RevertConfig: for containerd, from the top-level config as well.
RevertOne(n) ==
  /\ pc = "update" /\ phase = "cleanup" /\ Engine # "crio"
  /\ n \in todo
  /\ todo' = todo \ {n}
  /\ dest' = RemoveRuntime(dest, n)
  /\ tl' = IF Engine = "containerd" THEN RemoveRuntime(tl, n) ELSE tl
  /\ UNCHANGED <<top, dropin, running, pc, phase, opts, source, aliased, lowlevel, history>>

\* UpdateConfig ends with EnableCDI, when asked to.
UpdateDone ==
  /\ pc = "update" /\ phase \in {"setup", "configure"}
  /\ todo = {}
  /\ dest' = IF opts.enableCDI THEN EnableCDI(dest) ELSE dest
  /\ pc' = "save"
  /\ UNCHANGED <<top, dropin, running, phase, opts, todo, source, aliased, tl, lowlevel, history>>

RevertDone ==
  /\ pc = "update" /\ phase = "cleanup" /\ Engine # "crio"
  /\ todo = {}
  /\ pc' = "save"
  /\ UNCHANGED <<top, dropin, running, phase, process, history>>

\* cri-o's cleanupConfig unsets the default runtime, if Setup was to set it, and
\* does nothing otherwise.
CrioCleanup ==
  /\ pc = "update" /\ phase = "cleanup" /\ Engine = "crio"
  /\ \/ /\ opts.setAsDefault
        /\ dest' = UnsetDefaultRuntime(dest, opts.name)
        /\ pc' = "save"
        /\ UNCHANGED <<phase, todo, source, aliased, tl, lowlevel>>
     \/ /\ ~opts.setAsDefault
        /\ Forget
        /\ pc' = "idle"
        /\ phase' = "cleaned"
  /\ UNCHANGED <<top, dropin, running, opts, history>>

\* Raw.Write: an empty config removes the file, which has to exist.
Write(f) == IF IsEmpty(f) THEN NoFile ELSE [f EXCEPT !.exists = TRUE]

AfterSave ==
  IF phase = "configure" THEN "idle"
  ELSE IF phase = "cleanup" /\ DropIn /\ Engine # "crio" THEN "remove" ELSE "restart"

Ended(next) == IF next = "idle" THEN "ended" ELSE phase

\* Flush: the destination is saved, to the drop-in path when there is one.
Save ==
  /\ pc = "save"
  /\ IF DropIn
       THEN /\ ~IsEmpty(dest) \/ dropin.exists
            /\ dropin' = Write(dest) /\ UNCHANGED top
       ELSE /\ ~IsEmpty(dest) \/ top.exists \/ Engine = "docker"
            /\ top' = [Write(dest) EXCEPT !.exists = @ \/ Engine = "docker"]
            /\ UNCHANGED dropin
  /\ IF Engine = "containerd"
       THEN /\ tl' = IF IsEmpty(dest) THEN Simplify(tl) ELSE EnsureImports(tl)
            /\ pc' = "savetop"
       ELSE pc' = AfterSave /\ UNCHANGED tl
  /\ phase' = Ended(pc')
  /\ unseen' = IF unseen = "read" THEN "no" ELSE unseen
  /\ UNCHANGED <<running, opts, todo, source, aliased, dest, lowlevel, user>>

\* topLevelConfig.Save
SaveTopLevel ==
  /\ pc = "savetop"
  /\ ~IsEmpty(tl) \/ top.exists
  /\ top' = Write(tl)
  /\ pc' = AfterSave
  /\ phase' = Ended(pc')
  /\ UNCHANGED <<dropin, running, process, history>>

\* (mutant) a drop-in that is not empty is left behind
RemoveDropInSkipped ==
  /\ pc = "remove"
  /\ pc' = "restart"
  /\ UNCHANGED <<top, dropin, running, phase, process, history>>

\* Unconfigure removes the drop-in file, whatever is in it.
RemoveDropIn ==
  /\ pc = "remove"
  /\ dropin' = NoFile
  /\ pc' = "restart"
  /\ UNCHANGED <<top, running, phase, process, history>>

\* (mutant) the engine is not restarted after Cleanup
RestartAfterSetupOnly ==
  /\ pc = "restart"
  /\ running' = IF phase = "setup" THEN WithDefaults(Effective) ELSE running
  /\ pc' = IF phase = "setup" THEN "up" ELSE "idle"
  /\ phase' = IF phase = "setup" THEN "setup" ELSE "cleaned"
  /\ Forget
  /\ UNCHANGED <<top, dropin, opts, history>>

\* The engine reads its config again.
Restart ==
  /\ pc = "restart"
  /\ running' = WithDefaults(Effective)
  /\ pc' = IF phase = "setup" THEN "up" ELSE "idle"
  /\ phase' = IF phase = "setup" THEN "setup" ELSE "cleaned"
  /\ Forget
  /\ UNCHANGED <<top, dropin, opts, history>>

\* The process is killed, fails, or was not asked to stay (--no-daemon).
End ==
  /\ pc # "idle"
  /\ pc' = "idle"
  /\ phase' = "ended"
  /\ Forget
  /\ unseen' = IF unseen = "read" THEN "yes" ELSE unseen
  /\ UNCHANGED <<top, dropin, running, opts, user>>

\* The engine restarts by itself.
EngineRestart ==
  /\ running # WithDefaults(Effective)
  /\ running' = WithDefaults(Effective)
  /\ UNCHANGED <<top, dropin, pc, phase, process, history>>

\* The user edits the top-level file: what the toolkit put there stays.
UserEdit(s) ==
  /\ s # want
  /\ want' = s
  /\ top' = [exists |-> TRUE, imports |-> top.imports,
             version |-> HasVersion,
             section |-> [s EXCEPT !.runtimes = [n \in Name |-> IF n \in UserName THEN s.runtimes[n]
                                                                 ELSE top.section.runtimes[n]],
                                   !.default = IF top.section.default \in UserName \cup {"none"}
                                               THEN @ ELSE top.section.default,
                                   !.cdi = top.section.cdi]]
  /\ unseen' = "yes"
  /\ raced' = (raced \/ pc \in {"update", "save", "savetop"})
  /\ UNCHANGED <<host, dropin, running, pc, phase, process>>

Next ==
  \/ \E o \in OptionSet, what \in {"setup", "configure"} : Begin(o, what)
  \/ BeginCleanup
  \/ GetLowlevelRuntimePaths \/ Load
  \/ \E n \in Name : UpdateOne(n) \/ RevertOne(n)
  \/ UpdateDone \/ RevertDone \/ CrioCleanup \/ Save \/ SaveTopLevel \/ RemoveDropIn \/ Restart
  \/ End \/ EngineRestart
  \/ \E s \in UserChoices : UserEdit(s)

Spec == Init /\ [][Next]_vars

----------------------------------------------------------------------------
(* Properties *)

\* The user's own part of a config.
UserPart(s) == [runtimes |-> [n \in UserName |-> s.runtimes[n]], settings |-> s.settings]

\* Once Setup is complete the engine runs with the nvidia runtimes, and with the
\* requested default, whatever the user edited and however often the engine was
\* restarted since; a containerd drop-in is imported and has its version
\* (container.go:113-132, config_drop_in.go:61-89).  With a version 1 config and a
\* drop-in path, which is there by default (runtime.go:181-182), Setup completes as
\* well: then the engine runs with none of the runtimes, and nothing reports it.
SetupTakesEffect ==
  pc = "up" =>
    IF DropInUnread
      THEN /\ \A n \in GetRuntimes(opts) : running.runtimes[n] = NoEntry
           /\ running.default \notin GetRuntimes(opts)
      ELSE /\ \A n \in GetRuntimes(opts) : running.runtimes[n].bin = "nvidia"
           /\ opts.setAsDefault => running.default = opts.name
           /\ Engine = "containerd" => top.imports /\ top.version /\ dropin.version

\* After a completed Cleanup the engine runs without the runtimes Setup added, and
\* none of them is its default.  cri-o keeps the runtimes, for the containers that
\* still use them (container.go:71-94, crio.go:182-209).
CleanupReverts ==
  phase = "cleaned" =>
    /\ Engine # "crio" => \A n \in GetRuntimes(opts) : running.runtimes[n] = NoEntry
    /\ running.default \notin GetRuntimes(opts)

\* Neither Setup nor Cleanup, complete or abandoned, changes what the user wrote
\* to the top-level file, unless the user wrote it between load and save.  The
\* default runtime in a file that is rewritten is not restored, and docker's
\* features are replaced when CDI is enabled (docker.go:113, 135-140,
\* config.go:131-136).
UserFilePreserved ==
  ~raced => /\ UserPart(top.section) = UserPart(want)
            /\ DropIn => top.section.default = want.default
            /\ Engine = "docker" => top.section.features \/ top.section.cdi

\* After a completed Cleanup the engine's files say what the user wrote, edits made
\* while the drop-in hid them included: no stale copy of the section stays behind
\* (Unconfigure, container.go:80-91).
CleanedConfigIsUsers ==
  phase = "cleaned" /\ ~raced =>
    /\ UserPart(WithDefaults(Effective)) = UserPart(WithDefaults(want))
    /\ DropIn => WithDefaults(Effective).default = WithDefaults(want).default

\* The drop-in's copy of the user's section is what the user wrote, unless the user
\* has written since it was taken: abandoned processes in between do not matter
\* (getBaseDropInConfigTree, containerd.go:213-225).
DropInIsCurrent ==
  pc = "up" /\ unseen = "no" /\ ~raced => UserPart(running) = UserPart(WithDefaults(want))

\* A containerd file with anything in it has its version, without which containerd
\* takes it for version 1 (config_drop_in.go:166-174, 202-221, config.go:149-151): the
\* top-level file always, and the drop-in in every save of Setup and of configure.
\* The drop-in that Cleanup saves has none (containerd.go:218-225); Cleanup removes it
\* two saves later, and only a Cleanup that is abandoned in between leaves it there,
\* imported by a top-level file that is not version 1.
VersionKept ==
  /\ [](HasVersion => Versioned(top) /\ (phase = "cleaned" => Versioned(dropin)))
  /\ [][HasVersion /\ dropin' # dropin /\ ~Versioned(dropin') =>
          pc = "save" /\ phase = "cleanup" /\ Engine = "containerd"]_vars

\* A config that became empty is only saved over a file that exists: removing a
\* missing file is an error that abandons the save (raw.go:39-45).
NoRemoveOfMissing ==
  /\ pc = "save" /\ IsEmpty(dest) => IF DropIn THEN dropin.exists ELSE top.exists
  /\ pc = "savetop" /\ IsEmpty(tl) => top.exists

\* The toolkit's own runtime is never taken for a low-level runtime, not even after
\* a process that made it the default has ended without Cleanup.  This rests on its
\* name: only names that start with nvidia are ignored (engine.go:21-67).
LowLevelNeverNvidia ==
  (\A o \in OptionSet : o.name \in NvidiaPrefixed) => "nvidia" \notin lowlevel

\* All added runtimes take their options from one runtime, the default of the
\* source config (engine/config.go:52-54).  With a destination that shares its tree
\* with the source they do not: setting the default changes what the runtimes
\* added later are derived from, and the order of the map decides which those are.
OptionsInherited ==
  pc = "save" /\ phase = "setup" =>
    \A m, n \in GetRuntimes(opts) :
      dest.section.runtimes[m].opts = dest.section.runtimes[n].opts
=============================================================================
