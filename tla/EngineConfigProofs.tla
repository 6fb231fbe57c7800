------------------------ MODULE EngineConfigProofs ------------------------
(***************************************************************************)
(* The invariants of EngineConfig, for every set of user names, modes,     *)
(* command lines, settings and user configs, on hosts where containerd and *)
(* cri-o have a drop-in path.                                              *)
(*                                                                         *)
(* None of the properties is inductive: what the files hold at the end of  *)
(* Setup or Cleanup depends on what the process loaded, on what it has     *)
(* added or removed so far, and on what earlier processes, which may have  *)
(* ended anywhere, left in the files.  The inductive invariant EngineInv   *)
(* says so step by step.                                                   *)
(***************************************************************************)
EXTENDS EngineConfig, TLAPS

\* containerd and cri-o have a drop-in path, as every command gives them by default
\* (runtime.go:177-199, configure.go:257-266).  A containerd with a version 1 config
\* has one by default, too; here it may have one or not.
DefaultPaths == \A h \in Hosts : h.engine \in {"containerd", "crio"} => h.dropIn

----------------------------------------------------------------------------
(* The inductive invariant *)

Containerd == Engine = "containerd"
Crio == Engine = "crio"
SingleFile == Engine \in {"docker", "containerdV1"}
InPlace == SingleFile /\ ~host.dropIn
Installing == phase \in {"setup", "configure"}

\* Setup has saved its files, Cleanup has yet to, and Cleanup has.
SetupSaved == pc \in {"restart", "up"} /\ phase = "setup"
CleanupAhead == pc \in {"load", "update", "save"} /\ phase = "cleanup"
CleanupSaved == (pc = "restart" /\ phase = "cleanup") \/ phase = "cleaned"

\* Which steps belong to which phase, what is left to do in them, and when a
\* user's edit counts as read.
PhaseInv ==
  /\ Engine \in {"containerd", "crio"} => host.dropIn
  /\ pc = "idle" <=> phase \in {"cleaned", "ended"}
  /\ pc \in {"lowlevel", "up"} => phase = "setup"
  /\ pc = "remove" => phase = "cleanup" /\ ~Crio /\ host.dropIn
  /\ pc = "restart" => phase \in {"setup", "cleanup"}
  /\ pc = "savetop" => Containerd
  /\ pc = "update" => todo \subseteq Requested(opts)
  /\ pc = "save" \/ (pc = "update" /\ phase = "cleanup" /\ Crio) => todo = {}
  /\ Containerd /\ unseen = "read" => pc \in {"update", "save"}

\* A section with nothing of the toolkit's in it.
NoToolkit(s) ==
  /\ \A n \in Name \ UserName : s.runtimes[n] = NoEntry
  /\ s.default \in UserName \cup {"none"}

\* With a drop-in the toolkit keeps its runtimes out of the top-level file, and so
\* out of an engine that does not read the drop-in; cri-o's drop-in has nothing of
\* the user's.
SeparateInv ==
  /\ host.dropIn => NoToolkit(top.section)
  /\ DropInUnread => NoToolkit(running)
  /\ NoToolkit(tl.section)
  /\ Crio => \A n \in UserName : /\ dropin.section.runtimes[n] = NoEntry
                                 /\ dest.section.runtimes[n] = NoEntry

\* A containerd config with anything in it has its version, in memory too.
VersionInv ==
  HasVersion =>
    /\ Versioned(top) /\ Versioned(tl)
    /\ Engine = "containerdV1" => Versioned(dest) /\ Versioned(dropin)
    /\ pc \in {"update", "save"} /\ Installing /\ todo # Requested(opts) => dest.version

\* The runtimes names are in s, and so is the requested default.
Added(s, names, o) ==
  /\ \A n \in names : s.runtimes[n].bin = "nvidia"
  /\ o.setAsDefault /\ o.name \in names => s.default = o.name

\* The file that the destination is saved to.
Saved == IF host.dropIn THEN dropin ELSE top

\* What has been added so far is in the destination, then in the saved file, which
\* a containerd imports, then in the config the engine runs with.
AddedInv ==
  /\ pc \in {"update", "save"} /\ Installing => Added(dest.section, Requested(opts) \ todo, opts)
  /\ pc \in {"savetop", "restart", "up"} /\ phase = "setup" => Added(Saved.section, GetRuntimes(opts), opts)
  /\ pc = "savetop" /\ Installing => tl.imports /\ tl.version
  /\ pc \in {"savetop", "restart", "up"} /\ phase = "setup" /\ Containerd => dropin.version
  /\ SetupSaved /\ Containerd => top.imports /\ top.version
  /\ pc = "up" /\ ~DropInUnread => Added(running, GetRuntimes(opts), opts)

\* What Setup saved is there when Cleanup comes to save.
ExistsInv ==
  /\ SetupSaved \/ CleanupAhead \/ (pc = "savetop" /\ phase = "setup") => Saved.exists
  /\ Containerd /\ (SetupSaved \/ CleanupAhead \/ (pc = "savetop" /\ phase = "cleanup")) => top.exists

\* None of the runtimes names is in s, or its default.
Gone(s, names) ==
  /\ \A n \in names : s.runtimes[n] = NoEntry
  /\ s.default \notin names

\* Cleanup, and what it needs to know of what Setup saved.
SingleFileGone ==
  InPlace =>
    /\ pc \in {"update", "save"} /\ phase = "cleanup" => Gone(dest.section, GetRuntimes(opts) \ todo)
    /\ CleanupSaved => Gone(top.section, GetRuntimes(opts))

ContainerdGone ==
  host.dropIn /\ ~Crio /\ CleanupSaved => dropin = NoFile

OwnDefault(s) == s.default \in {"none", opts.name} /\ (~opts.setAsDefault => s.default = "none")

CrioGone ==
  Crio =>
    /\ pc \in {"update", "save"} /\ phase \in {"setup", "cleanup"} => OwnDefault(dest.section)
    /\ SetupSaved \/ phase = "cleanup" => OwnDefault(dropin.section)
    /\ pc = "save" /\ phase = "cleanup" => dest.section.default = "none"
    /\ CleanupSaved => dropin.section.default = "none"
    /\ ~opts.setAsDefault /\ (pc = "up" \/ phase = "cleanup") => running.default \notin GetRuntimes(opts)

GoneInv == SingleFileGone /\ ContainerdGone /\ CrioGone /\ CleanupReverts

\* What the user wrote is in the file and in the copies of it in memory.
UserInv ==
  /\ UserFilePreserved
  /\ ~raced /\ pc \in {"update", "save"} /\ SingleFile =>
       /\ UserPart(dest.section) = UserPart(want)
       /\ Engine = "docker" => dest.section.features \/ dest.section.cdi
  /\ ~raced /\ pc \in {"update", "save", "savetop"} /\ Containerd =>
       /\ UserPart(tl.section) = UserPart(want)
       /\ tl.section.default = want.default

\* The user's part of s is what the user wrote, but for what the engine adds.
Current(s) == UserPart(WithDefaults(s)) = UserPart(WithDefaults(want))

\* A containerd's copies of the user's section are current unless there is an edit
\* that they do not have.
CurrentInv ==
  /\ Containerd /\ ~raced =>
       /\ unseen # "yes" /\ pc \in {"update", "save"} => Current(dest.section)
       /\ unseen = "no" /\ (top.imports \/ pc = "savetop") /\ dropin.section # EmptySection =>
            Current(dropin.section)
  /\ DropInIsCurrent

\* The names that are never taken for a low-level runtime are the toolkit's.
NoNvidia(s) == s.default # "gpu" /\ \A n \in Name \ NvidiaPrefixed : s.runtimes[n].bin # "nvidia"

LowLevelInv ==
  (\A o \in OptionSet : o.name \in NvidiaPrefixed) =>
    /\ NoNvidia(top.section) /\ NoNvidia(dropin.section) /\ NoNvidia(dest.section)
    /\ NoNvidia(tl.section) /\ NoNvidia(source) /\ NoNvidia(running)
    /\ "nvidia" \notin lowlevel

EngineInv ==
  /\ TypeOK /\ PhaseInv /\ SeparateInv /\ VersionInv /\ AddedInv /\ ExistsInv /\ GoneInv
  /\ UserInv /\ CurrentInv /\ LowLevelInv

----------------------------------------------------------------------------
(* Names and configs *)

\* The toolkit's runtimes are not the user's, and no name is a marker.
LEMMA Names ==
  /\ UserName \subseteq Name /\ NvidiaPrefixed \subseteq Name
  /\ "runc" \in UserName /\ "gpu" \in Name \ UserName /\ "gpu" \notin NvidiaPrefixed
  /\ "nvidia" \in NvidiaPrefixed /\ "crun" \notin NvidiaPrefixed
  /\ UserName \cap NvidiaPrefixed = {}
  /\ "none" \notin Name /\ "builtin" \notin Name
BY ConstantsAssumption DEF Name, NvidiaPrefixed

\* A process deals with runtimes of the toolkit's only, its own among them.
LEMMA RuntimesOf ==
  ASSUME NEW o \in OptionSet
  PROVE  /\ o \in Options
         /\ GetRuntimes(o) \subseteq Name \ UserName /\ {o.name} \subseteq Name \ UserName
         /\ o.name \in GetRuntimes(o)
         /\ GetRuntimes(o) # {}
         /\ o.name \in NvidiaPrefixed => GetRuntimes(o) \subseteq NvidiaPrefixed
<1>1. o \in Options
  BY ConstantsAssumption
<1>2. o.name \in {"nvidia", "gpu"} \cup ModeRuntimes
  BY <1>1 DEF Options
<1> QED
  BY <1>1, <1>2, Names, ConstantsAssumption DEF GetRuntimes, Name, NvidiaPrefixed

\* The same for the runtimes of the process at hand.
LEMMA RequestedFacts ==
  ASSUME NEW o \in OptionSet
  PROVE  /\ Requested(o) \subseteq Name \ UserName
         /\ o.name \in Requested(o)
         /\ phase # "configure" => Requested(o) = GetRuntimes(o)
         /\ o.name \in NvidiaPrefixed => Requested(o) \subseteq NvidiaPrefixed
BY RuntimesOf DEF Requested

\* The constant entries and configs are well-formed.
LEMMA EmptyTypes ==
  /\ EmptySection \in Section /\ NoFile \in File
  /\ NoEntry \notin Entry
  /\ \A n \in Name : UserEntry(n) \in Entry /\ UserEntry(n) # NoEntry
  /\ NoToolkit(EmptySection) /\ NoNvidia(EmptySection)
  /\ \A n \in Name : EmptySection.runtimes[n] = NoEntry
  /\ EmptySection.default = "none" /\ NoFile.section = EmptySection
  /\ IsEmpty(NoFile)
<1>1. EmptySection \in Section
  BY DEF EmptySection, Section
<1>2. NoFile \in File /\ IsEmpty(NoFile)
  BY <1>1 DEF NoFile, File, IsEmpty
<1>3. NoEntry \notin Entry /\ \A n \in Name : UserEntry(n) \in Entry /\ UserEntry(n) # NoEntry
  BY Names DEF NoEntry, Entry, UserEntry
<1> QED
  BY <1>1, <1>2, <1>3 DEF NoToolkit, NoNvidia, EmptySection, NoFile, NoEntry

\* The parts of a section, of a file and of an entry.
LEMMA Parts ==
  /\ \A s \in Section :
       /\ s.runtimes \in [Name -> Entry \cup {NoEntry}] /\ s.default \in Name \cup {"none"}
       /\ s.cdi \in BOOLEAN /\ s.features \in BOOLEAN /\ s.settings \in Setting \cup {"none"}
       /\ \A n \in Name : s.runtimes[n] \in Entry \cup {NoEntry}
  /\ \A f \in File : /\ f.exists \in BOOLEAN /\ f.version \in BOOLEAN /\ f.imports \in BOOLEAN
                     /\ f.section \in Section
  /\ \A e \in Entry : e.bin \in Name /\ e.opts \in Name \cup {"builtin"}
BY DEF Section, File, Entry

\* What the engine adds to a config leaves the toolkit's runtimes alone.
LEMMA WithDefaultsFacts ==
  ASSUME NEW s \in Section
  PROVE  /\ WithDefaults(s) \in Section
         /\ \A n \in Name \ {"runc"} : WithDefaults(s).runtimes[n] = s.runtimes[n]
         /\ WithDefaults(s).runtimes["runc"] =
              IF s.runtimes["runc"] = NoEntry THEN UserEntry("runc") ELSE s.runtimes["runc"]
         /\ WithDefaults(s).default = IF s.default = "none" THEN "runc" ELSE s.default
         /\ WithDefaults(s).settings = s.settings
BY Names, EmptyTypes, Parts DEF WithDefaults, Section

\* The user's part of a config after the engine has added to it.
LEMMA UserParts ==
  ASSUME NEW s \in Section, NEW t \in Section
  PROVE  /\ (UserPart(s) = UserPart(t)) <=>
              (s.settings = t.settings /\ \A n \in UserName : s.runtimes[n] = t.runtimes[n])
         /\ UserPart(s) = UserPart(t) =>
              UserPart(WithDefaults(s)) = UserPart(WithDefaults(t))
         /\ UserPart(WithDefaults(WithDefaults(s))) = UserPart(WithDefaults(s))
<1>1. \A a, b \in Section : (UserPart(a) = UserPart(b)) <=>
              (a.settings = b.settings /\ \A n \in UserName : a.runtimes[n] = b.runtimes[n])
  <2> TAKE a, b \in Section
  <2> DEFINE f == [n \in UserName |-> a.runtimes[n]]
             g == [n \in UserName |-> b.runtimes[n]]
  <2>1. (f = g) <=> \A n \in UserName : a.runtimes[n] = b.runtimes[n]
    OBVIOUS
  <2>2. UserPart(a) = [runtimes |-> f, settings |-> a.settings]
        /\ UserPart(b) = [runtimes |-> g, settings |-> b.settings]
    BY DEF UserPart
  <2> HIDE DEF f, g
  <2> QED
    BY <2>1, <2>2
<1>2. \A a \in Section :
         /\ WithDefaults(a) \in Section
         /\ \A n \in Name \ {"runc"} : WithDefaults(a).runtimes[n] = a.runtimes[n]
         /\ WithDefaults(a).runtimes["runc"] =
              IF a.runtimes["runc"] = NoEntry THEN UserEntry("runc") ELSE a.runtimes["runc"]
         /\ WithDefaults(a).settings = a.settings
  BY WithDefaultsFacts
<1>3. UserEntry("runc") # NoEntry
  BY EmptyTypes, Names
<1>4. UserPart(s) = UserPart(t) => UserPart(WithDefaults(s)) = UserPart(WithDefaults(t))
  BY <1>1, <1>2, Names
<1>5. \A n \in UserName : WithDefaults(WithDefaults(s)).runtimes[n] = WithDefaults(s).runtimes[n]
  BY <1>2, <1>3, Names
<1>6. UserPart(WithDefaults(WithDefaults(s))) = UserPart(WithDefaults(s))
  BY <1>1, <1>2, <1>5
<1> QED
  BY <1>1, <1>4, <1>6

----------------------------------------------------------------------------
(* Adding and removing a runtime *)

EntrySet(f, n, e) == [f EXCEPT !.section.runtimes[n] = e]
DefaultSet(f, d, v) == [f EXCEPT !.section.default = d, !.version = v]

\* Setting one entry of a file.
LEMMA SetEntry ==
  ASSUME NEW f \in File, NEW n \in Name, NEW e \in Entry \cup {NoEntry},
         NEW g, g = EntrySet(f, n, e)
  PROVE  /\ g \in File
         /\ g.exists = f.exists /\ g.imports = f.imports /\ g.version = f.version
         /\ g.section.runtimes[n] = e
         /\ \A m \in Name \ {n} : g.section.runtimes[m] = f.section.runtimes[m]
         /\ g.section.default = f.section.default
         /\ g.section.settings = f.section.settings
         /\ g.section.cdi = f.section.cdi /\ g.section.features = f.section.features
<1> DEFINE rt == [f.section.runtimes EXCEPT ![n] = e]
           s == [f.section EXCEPT !.runtimes = rt]
<1>1. f.section \in Section /\ f.section.runtimes \in [Name -> Entry \cup {NoEntry}]
  BY Parts
<1>2. rt \in [Name -> Entry \cup {NoEntry}] /\ rt[n] = e
      /\ \A m \in Name \ {n} : rt[m] = f.section.runtimes[m]
  BY <1>1
<1> HIDE DEF rt
<1>3. s \in Section /\ s.runtimes = rt /\ s.default = f.section.default
      /\ s.settings = f.section.settings /\ s.cdi = f.section.cdi /\ s.features = f.section.features
  BY <1>1, <1>2 DEF Section
<1>4. g = [f EXCEPT !.section = s]
  BY DEF rt, File, EntrySet
<1> HIDE DEF s
<1>5. /\ g \in File /\ g.section = s
      /\ g.exists = f.exists /\ g.imports = f.imports /\ g.version = f.version
  BY <1>3, <1>4 DEF File
<1> QED
  BY <1>2, <1>3, <1>5

\* Setting the default of a file, and its version.
LEMMA SetDefault ==
  ASSUME NEW f \in File, NEW d \in Name \cup {"none"}, NEW v \in BOOLEAN,
         NEW g, g = DefaultSet(f, d, v)
  PROVE  /\ g \in File
         /\ g.exists = f.exists /\ g.imports = f.imports /\ g.version = v
         /\ g.section.runtimes = f.section.runtimes
         /\ g.section.default = d
         /\ g.section.settings = f.section.settings
         /\ g.section.cdi = f.section.cdi /\ g.section.features = f.section.features
<1> DEFINE s == [f.section EXCEPT !.default = d]
<1>1. f.section \in Section
  BY Parts
<1>2. s \in Section /\ s.runtimes = f.section.runtimes /\ s.default = d
      /\ s.settings = f.section.settings /\ s.cdi = f.section.cdi /\ s.features = f.section.features
  BY <1>1 DEF Section
<1>3. g = [f EXCEPT !.section = s, !.version = v]
  BY DEF File, DefaultSet
<1> HIDE DEF s
<1> QED
  BY <1>2, <1>3 DEF File

\* Adding a runtime sets its entry, may make it the default, and leaves the rest.
LEMMA AddFacts ==
  ASSUME NEW f \in File, NEW n \in Name, NEW o \in OptionSet, host \in Host,
         NEW options \in Name \cup {"builtin"},
         NEW g, g = AddRuntime(f, n, o, options)
  PROVE  /\ g \in File
         /\ g.exists = f.exists /\ g.imports = f.imports
         /\ g.version = (f.version \/ Engine \in {"containerd", "containerdV1"})
         /\ g.section.runtimes[n].bin = "nvidia"
         /\ \A m \in Name \ {n} : g.section.runtimes[m] = f.section.runtimes[m]
         /\ g.section.default = IF IsDefault(n, o) THEN n
                                ELSE IF f.section.default = n /\ Engine # "docker" THEN "none"
                                ELSE f.section.default
         /\ g.section.settings = f.section.settings
         /\ g.section.cdi = f.section.cdi /\ g.section.features = f.section.features
<1> DEFINE e == [bin |-> "nvidia", opts |-> IF Engine = "docker" THEN "builtin" ELSE options]
           h == WithEntry(f, n, e.opts)
           d == IF IsDefault(n, o) THEN n
                ELSE IF f.section.default = n /\ Engine # "docker" THEN "none" ELSE f.section.default
           v == f.version \/ Engine \in {"containerd", "containerdV1"}
<1>1. e \in Entry \cup {NoEntry} /\ e.bin = "nvidia"
  BY Names DEF Entry
<1>2. h = EntrySet(f, n, e)
  BY DEF WithEntry, EntrySet
<1>3. /\ h \in File
      /\ h.exists = f.exists /\ h.imports = f.imports /\ h.version = f.version
      /\ h.section.runtimes[n] = e
      /\ \A m \in Name \ {n} : h.section.runtimes[m] = f.section.runtimes[m]
      /\ h.section.default = f.section.default
      /\ h.section.settings = f.section.settings
      /\ h.section.cdi = f.section.cdi /\ h.section.features = f.section.features
  <2> HIDE DEF e, h
  <2> QED
    BY <1>1, <1>2, SetEntry
<1>4. d \in Name \cup {"none"} /\ v \in BOOLEAN
  BY Parts
<1>5. host.engine \in {"docker", "containerd", "containerdV1", "crio"}
  BY DEF Host
<1>6. g = DefaultSet(h, d, v)
  <2> HIDE DEF h
  <2>1. CASE host.engine = "docker"
    <3>1. g = [h EXCEPT !.section.default = d]
      BY <1>3, <2>1 DEF AddRuntime, DockerAddRuntime, Engine, h
    <3> HIDE DEF d
    <3> QED
      BY <1>3, <2>1, <3>1 DEF File, Engine, DefaultSet
  <2>2. CASE host.engine = "crio"
    <3>1. g = [h EXCEPT !.section.default = d]
      BY <1>3, <2>2 DEF AddRuntime, CrioAddRuntime, Engine, h
    <3> HIDE DEF d
    <3> QED
      BY <1>3, <2>2, <3>1 DEF File, Engine, DefaultSet
  <2>3. CASE host.engine \in {"containerd", "containerdV1"}
    <3>1. g = [h EXCEPT !.section.default = d, !.version = TRUE]
      BY <1>3, <2>3 DEF AddRuntime, ContainerdAddRuntime, V1AddRuntime, Engine, h
    <3>2. v = TRUE
      BY <2>3 DEF Engine
    <3> HIDE DEF d, v
    <3> QED
      BY <3>1, <3>2 DEF DefaultSet
  <2> QED
    BY <1>5, <2>1, <2>2, <2>3
<1> HIDE DEF h, e
<1>7. /\ g \in File
      /\ g.exists = h.exists /\ g.imports = h.imports /\ g.version = v
      /\ g.section.runtimes = h.section.runtimes
      /\ g.section.default = d
      /\ g.section.settings = h.section.settings
      /\ g.section.cdi = h.section.cdi /\ g.section.features = h.section.features
  <2> HIDE DEF d, v
  <2> QED
    BY <1>3, <1>4, <1>6, SetDefault
<1> QED
  BY <1>1, <1>3, <1>7

\* Removing a runtime clears its entry, and the default when it is this runtime.
LEMMA RemoveFacts ==
  ASSUME NEW f \in File, NEW n \in Name, host \in Host, Engine # "crio", NEW g, g = RemoveRuntime(f, n)
  PROVE  /\ g \in File
         /\ g.exists = f.exists /\ g.imports = f.imports
         /\ Engine \in {"docker"} => g.version = f.version
         /\ Engine # "docker" => g.version = (f.version /\ (f.imports \/ g.section # EmptySection))
         /\ g.section.runtimes[n] = NoEntry
         /\ \A m \in Name \ {n} : g.section.runtimes[m] = f.section.runtimes[m]
         /\ g.section.default = IF f.section.default # n THEN f.section.default
                                ELSE IF Engine = "docker" THEN "runc" ELSE "none"
         /\ g.section.settings = f.section.settings
         /\ g.section.cdi = f.section.cdi /\ g.section.features = f.section.features
<1> DEFINE h == EntrySet(f, n, NoEntry)
           d == IF f.section.default # n THEN f.section.default
                ELSE IF Engine = "docker" THEN "runc" ELSE "none"
           s == [f.section EXCEPT !.runtimes[n] = NoEntry, !.default = IF @ = n THEN "none" ELSE @]
           v == IF Engine = "docker" THEN f.version
                ELSE f.version /\ (f.imports \/ s # EmptySection)
<1>h. Engine \in {"docker", "containerd", "containerdV1"}
  BY DEF Host, Engine
<1>1. /\ h \in File
      /\ h.exists = f.exists /\ h.imports = f.imports /\ h.version = f.version
      /\ h.section.runtimes[n] = NoEntry
      /\ \A m \in Name \ {n} : h.section.runtimes[m] = f.section.runtimes[m]
      /\ h.section.default = f.section.default
      /\ h.section.settings = f.section.settings
      /\ h.section.cdi = f.section.cdi /\ h.section.features = f.section.features
  <2> NoEntry \in Entry \cup {NoEntry}
    OBVIOUS
  <2> HIDE DEF h
  <2> QED
    BY SetEntry DEF h
<1>2. d \in Name \cup {"none"} /\ v \in BOOLEAN
  BY Parts, Names
<1>3. g = DefaultSet(h, d, v)
  <2>1. CASE Engine = "docker"
    <3>1. g = [h EXCEPT !.section.default = d]
      BY <1>1, <2>1, Names DEF RemoveRuntime, DockerRemoveRuntime, EntrySet, File, Section
    <3>2. v = h.version
      BY <1>1, <2>1
    <3> HIDE DEF d, h, v
    <3> QED
      BY <1>1, <3>1, <3>2 DEF File, DefaultSet
  <2>2. CASE Engine # "docker"
    <3>1. g = [f EXCEPT !.section = s, !.version = v]
      BY <1>h, <2>2 DEF RemoveRuntime, V1RemoveRuntime, ContainerdRemoveRuntime, File
    <3>2. s = [f.section EXCEPT !.runtimes = [f.section.runtimes EXCEPT ![n] = NoEntry], !.default = d]
      BY <2>2, Parts DEF Section
    <3> HIDE DEF v, s, d
    <3> QED
      BY <3>1, <3>2 DEF DefaultSet, EntrySet, File
  <2> QED
    BY <2>1, <2>2
<1>4. /\ g \in File
      /\ g.exists = h.exists /\ g.imports = h.imports /\ g.version = v
      /\ g.section.runtimes = h.section.runtimes
      /\ g.section.default = d
      /\ g.section.settings = h.section.settings
      /\ g.section.cdi = h.section.cdi /\ g.section.features = h.section.features
  <2> HIDE DEF d, v, h
  <2> QED
    BY <1>1, <1>2, <1>3, SetDefault
<1>5. Engine # "docker" => g.section = s
  <2> HIDE DEF s
  <2> QED
    BY <1>h DEF RemoveRuntime, V1RemoveRuntime, ContainerdRemoveRuntime, File, s
<1> HIDE DEF h, s
<1> QED
  BY <1>1, <1>4, <1>5

\* UnsetDefaultRuntime changes the default only.
LEMMA UnsetFacts ==
  ASSUME NEW f \in File, NEW n \in Name, NEW g, g = UnsetDefaultRuntime(f, n)
  PROVE  /\ g \in File
         /\ g.section.runtimes = f.section.runtimes
         /\ g.section.default = IF f.section.default = n THEN "none" ELSE f.section.default
<1> DEFINE d == IF f.section.default = n THEN "none" ELSE f.section.default
<1>1. d \in Name \cup {"none"} /\ f.version \in BOOLEAN
  BY Parts
<1>2. g = DefaultSet(f, d, f.version)
  BY DEF UnsetDefaultRuntime, DefaultSet, File
<1> HIDE DEF d
<1>3. g \in File /\ g.section.runtimes = f.section.runtimes /\ g.section.default = d
  BY <1>1, <1>2, SetDefault
<1> QED
  BY <1>3 DEF d

\* Enabling CDI leaves the runtimes, the default and the settings alone.
LEMMA EnableFacts ==
  ASSUME NEW f \in File, NEW g, g = EnableCDI(f)
  PROVE  /\ g \in File
         /\ g.exists = f.exists /\ g.imports = f.imports /\ g.version = f.version
         /\ g.section.runtimes = f.section.runtimes /\ g.section.default = f.section.default
         /\ g.section.settings = f.section.settings
         /\ Engine = "docker" => g.section.cdi
<1>1. f.section \in Section
  BY Parts
<1> QED
  BY <1>1 DEF EnableCDI, DockerEnableCDI, File, Section

\* A written file says what the config in memory says, and exists unless that is empty.
LEMMA WriteFacts ==
  ASSUME NEW f \in File, NEW g, g = Write(f)
  PROVE  /\ g \in File
         /\ g.version = f.version /\ g.imports = f.imports /\ g.section = f.section
         /\ g.exists = ~IsEmpty(f)
         /\ IsEmpty(g) <=> IsEmpty(f)
         /\ IsEmpty(f) => g = NoFile
<1>1. CASE IsEmpty(f)
  BY <1>1, EmptyTypes, Parts DEF Write, IsEmpty, NoFile
<1>2. CASE ~IsEmpty(f)
  <2>1. g = [f EXCEPT !.exists = TRUE]
    BY <1>2 DEF Write
  <2>2. g \in File /\ g.version = f.version /\ g.imports = f.imports /\ g.section = f.section /\ g.exists
    BY <2>1 DEF File
  <2>3. ~IsEmpty(g)
    BY <1>2, <2>2 DEF IsEmpty
  <2> QED
    BY <1>2, <2>2, <2>3
<1> QED
  BY <1>1, <1>2

\* The import is added to the top-level config, and its version when it has none.
LEMMA EnsureFacts ==
  ASSUME NEW f \in File, NEW g, g = EnsureImports(f)
  PROVE  /\ g \in File /\ g.section = f.section /\ g.imports
         /\ Versioned(f) => g.version
<1>1. f.imports \in BOOLEAN /\ f.version \in BOOLEAN /\ f.section \in Section
  BY Parts
<1>2. /\ g \in File /\ g.section = f.section /\ g.imports
      /\ g.version = (f.version \/ (~f.imports /\ IsEmpty(f)))
  BY <1>1 DEF EnsureImports, File, IsEmpty
<1> QED
  BY <1>1, <1>2 DEF Versioned, IsEmpty

\* What simplify leaves is the config or nothing.
LEMMA SimplifyFacts ==
  ASSUME NEW f \in File, NEW g, g = Simplify(f)
  PROVE  /\ g \in {f, NoFile} /\ g \in File /\ g.section = f.section
         /\ Versioned(f) => Versioned(g)
BY EmptyTypes DEF Simplify, Versioned, NoFile

----------------------------------------------------------------------------
(* Reading *)

\* The low-level runtimes of a config and the options taken from the first of them.
LEMMA LowLevelFacts ==
  ASSUME NEW s \in Section
  PROVE  /\ GetBinaryPathsForRuntimes(s) \subseteq Name
         /\ NoNvidia(s) => "nvidia" \notin GetBinaryPathsForRuntimes(s)
         /\ GetDefaultRuntimeOptions(s) \in Name \cup {"builtin"}
<1> DEFINE l == GetLowLevelRuntimes(s)
           k == Known(s)
<1>1. /\ l \in Seq((Name \ NvidiaPrefixed) \cup {"runc", "crun"})
      /\ Len(l) \in {2, 3}
  <2>1. s.default \in Name \cup {"none"}
    BY Parts
  <2>2. CASE s.default \notin NvidiaPrefixed \cup {"none"}
    <3>1. l = <<s.default>> \o <<"runc", "crun">>
      BY <2>2 DEF GetLowLevelRuntimes
    <3> QED
      BY <2>1, <2>2, <3>1
  <2>3. CASE s.default \in NvidiaPrefixed \cup {"none"}
    <3>1. l = <<>> \o <<"runc", "crun">>
      BY <2>3 DEF GetLowLevelRuntimes
    <3> QED
      BY <3>1
  <2> QED
    BY <2>2, <2>3
<1>2. Range(l) \subseteq (Name \ NvidiaPrefixed) \cup {"runc", "crun"}
  <2> HIDE DEF l
  <2> QED
    BY <1>1 DEF Range
<1>3. \A r \in Range(l) : r \notin NvidiaPrefixed
  BY <1>2, Names
<1>4. \A r \in Range(l) : HasRuntime(s, r) => s.runtimes[r].bin \in Name
  BY Parts, EmptyTypes DEF HasRuntime
<1>5. GetBinaryPathsForRuntimes(s) \subseteq Name
  BY <1>4 DEF GetBinaryPathsForRuntimes
<1>6. NoNvidia(s) => "nvidia" \notin GetBinaryPathsForRuntimes(s)
  BY <1>3 DEF GetBinaryPathsForRuntimes, NoNvidia, HasRuntime
<1>7. ASSUME k # {}
      PROVE  s.runtimes[FirstKnown(s)].opts \in Name \cup {"builtin"}
  <2>1. k \subseteq 1 .. 3
    <3> HIDE DEF l
    <3>1. DOMAIN l = 1 .. Len(l)
      BY <1>1
    <3> QED
      BY <1>1, <3>1 DEF Known, l
  <2>2. \E i \in k : \A j \in k : i <= j
    <3> HIDE DEF k
    <3>1. CASE 1 \in k
      BY <2>1, <3>1
    <3>2. CASE 1 \notin k /\ 2 \in k
      BY <2>1, <3>2
    <3>3. CASE 1 \notin k /\ 2 \notin k
      <4>1. \A i \in k : i = 3
        BY <2>1, <3>3
      <4> QED
        BY <4>1, <1>7
    <3> QED
      BY <3>1, <3>2, <3>3
  <2>3. PICK i \in k : FirstKnown(s) = l[i]
    <3> DEFINE c == CHOOSE i \in k : \A j \in k : i <= j
    <3>1. c \in k
      <4> HIDE DEF k
      <4> QED
        BY <2>2
    <3>2. FirstKnown(s) = l[c]
      BY DEF FirstKnown
    <3> HIDE DEF c, k, l
    <3> QED
      BY <3>1, <3>2
  <2>4. HasRuntime(s, FirstKnown(s))
    BY <2>3 DEF Known
  <2> QED
    BY <2>4, Parts DEF HasRuntime
<1> QED
  BY <1>5, <1>6, <1>7 DEF GetDefaultRuntimeOptions

\* What the engine reads from its files is one of the sections or, for cri-o, both.
LEMMA EffectiveFacts ==
  ASSUME NEW engine \in {"docker", "containerd", "containerdV1", "crio"},
         NEW t \in File, NEW d \in File, NEW e, e = EffectiveOf(engine, t, d)
  PROVE  /\ e \in Section
         /\ engine \in {"docker", "containerdV1"} => e = t.section
         /\ engine = "containerd" =>
              e = IF t.imports /\ d.section # EmptySection THEN d.section ELSE t.section
         /\ engine = "crio" =>
              /\ \A n \in Name : e.runtimes[n] = IF d.section.runtimes[n] # NoEntry
                                                 THEN d.section.runtimes[n] ELSE t.section.runtimes[n]
              /\ e.default = IF d.section.default # "none" THEN d.section.default ELSE t.section.default
              /\ e.settings = t.section.settings
         /\ NoNvidia(t.section) /\ NoNvidia(d.section) => NoNvidia(e)
<1>1. t.section \in Section /\ d.section \in Section
  BY Parts
<1>2. CASE engine = "crio"
  <2> DEFINE rt == [n \in Name |-> IF d.section.runtimes[n] # NoEntry
                                   THEN d.section.runtimes[n] ELSE t.section.runtimes[n]]
             df == IF d.section.default # "none" THEN d.section.default ELSE t.section.default
  <2>1. rt \in [Name -> Entry \cup {NoEntry}] /\ df \in Name \cup {"none"}
    BY <1>1, Parts
  <2>2. e = [runtimes |-> rt, default |-> df, cdi |-> t.section.cdi,
             settings |-> t.section.settings, features |-> FALSE]
    BY <1>2 DEF EffectiveOf
  <2>3. e \in Section /\ e.runtimes = rt /\ e.default = df /\ e.settings = t.section.settings
    <3> HIDE DEF rt, df
    <3> QED
      BY <2>1, <2>2, <1>1, Parts DEF Section
  <2> QED
    BY <1>2, <2>3 DEF NoNvidia
<1>3. CASE engine # "crio"
  BY <1>1, <1>3 DEF EffectiveOf
<1> QED
  BY <1>2, <1>3

\* What a user may write has nothing of the toolkit's.
LEMMA UserChoiceFacts ==
  ASSUME NEW s \in UserChoices
  PROVE  /\ s \in Section /\ NoToolkit(s) /\ NoNvidia(s)
         /\ s.features <=> Engine = "docker"
         /\ Engine = "containerdV1" => s # EmptySection
<1>1. PICK u \in UserConfigs : s = [u EXCEPT !.features = (Engine = "docker")]
  BY DEF UserChoices
<1>2. u \in UserSection
  BY UserConfigsAssumption
<1>3. PICK w \in SUBSET UserName : u.runtimes = [n \in Name |-> IF n \in w THEN UserEntry(n) ELSE NoEntry]
  BY <1>2 DEF UserSection
<1>4. u.runtimes \in [Name -> Entry \cup {NoEntry}]
  BY <1>3, EmptyTypes
<1>5. /\ u = [runtimes |-> u.runtimes, default |-> u.default, cdi |-> u.cdi, settings |-> u.settings,
              features |-> u.features]
      /\ u.default \in UserName \cup {"none"} /\ u.cdi = FALSE /\ u.settings \in Setting \cup {"none"}
      /\ u.features = FALSE
  BY <1>2 DEF UserSection
<1>6. u \in Section
  BY <1>4, <1>5, Names DEF Section
<1>7. /\ s \in Section /\ s.runtimes = u.runtimes /\ s.default = u.default
      /\ s.features = (Engine = "docker")
  BY <1>1, <1>6 DEF Section
<1>8. NoToolkit(s)
  BY <1>3, <1>5, <1>7 DEF NoToolkit
<1>9. NoNvidia(s)
  BY <1>3, <1>5, <1>7, Names, ConstantsAssumption DEF NoNvidia, UserEntry, NoEntry
<1>10. Engine = "containerdV1" => s # EmptySection
  BY DEF UserChoices
<1> QED
  BY <1>7, <1>8, <1>9, <1>10

\* An edit sets the user's part of the top-level file and keeps the toolkit's.
LEMMA UserEditFacts ==
  ASSUME NEW s \in UserChoices, UserEdit(s), top \in File
  PROVE  /\ top' \in File
         /\ top'.exists /\ top'.imports = top.imports
         /\ top'.version = (Engine \in {"containerd", "containerdV1"})
         /\ \A n \in UserName : top'.section.runtimes[n] = s.runtimes[n]
         /\ \A n \in Name \ UserName : top'.section.runtimes[n] = top.section.runtimes[n]
         /\ top'.section.default = IF top.section.default \in UserName \cup {"none"}
                                   THEN s.default ELSE top.section.default
         /\ top'.section.settings = s.settings
         /\ top'.section.features = s.features /\ top'.section.cdi = top.section.cdi
<1> DEFINE rt == [n \in Name |-> IF n \in UserName THEN s.runtimes[n] ELSE top.section.runtimes[n]]
           df == IF top.section.default \in UserName \cup {"none"} THEN s.default ELSE top.section.default
           t == [s EXCEPT !.runtimes = rt, !.default = df, !.cdi = top.section.cdi]
<1>1. s \in Section /\ top.section \in Section
  BY UserChoiceFacts, Parts
<1>2. rt \in [Name -> Entry \cup {NoEntry}] /\ df \in Name \cup {"none"} /\ top.section.cdi \in BOOLEAN
  BY <1>1, Parts
<1>3. /\ \A n \in UserName : rt[n] = s.runtimes[n]
      /\ \A n \in Name \ UserName : rt[n] = top.section.runtimes[n]
  BY Names
<1>4. top' = [exists |-> TRUE, imports |-> top.imports,
              version |-> Engine \in {"containerd", "containerdV1"}, section |-> t]
  BY DEF UserEdit, HasVersion
<1> HIDE DEF rt, df
<1>5. /\ t \in Section /\ t.runtimes = rt /\ t.default = df /\ t.settings = s.settings
      /\ t.cdi = top.section.cdi /\ t.features = s.features
  BY <1>1, <1>2 DEF Section
<1> HIDE DEF t
<1>6. /\ top' \in File /\ top'.section = t
      /\ top'.exists /\ top'.imports = top.imports
      /\ top'.version = (Engine \in {"containerd", "containerdV1"})
  BY <1>4, <1>5, Parts DEF File
<1> QED
  BY <1>3, <1>5, <1>6 DEF df

----------------------------------------------------------------------------
(* The steps keep the types *)

Engines == {"docker", "containerd", "containerdV1", "crio"}

\* The host is one of those considered.
LEMMA HostFacts == TypeOK => host \in Host /\ Engine \in Engines
BY ConstantsAssumption DEF TypeOK, Host, Engine, Engines

\* The source is the top-level file or what the engine's command prints.
LEMMA LoaderFacts ==
  ASSUME TypeOK, NEW s \in GetConfigLoaders
  PROVE  /\ s \in Section
         /\ SingleFile => s = top.section
         /\ Containerd => s \in {WithDefaults(Effective), top.section}
<1>1. host \in Host /\ Engine \in Engines /\ top \in File /\ dropin \in File /\ running \in Section
  BY HostFacts DEF TypeOK
<1>2. Effective \in Section /\ top.section \in Section
  BY <1>1, EffectiveFacts, Parts DEF Effective, Engines
<1>3. WithDefaults(Effective) \in Section /\ WithDefaults(running) \in Section
  BY <1>1, <1>2, WithDefaultsFacts
<1> QED
  BY <1>1, <1>2, <1>3 DEF GetConfigLoaders, ContainerdCommandSource, CrioCommandSource, SingleFile,
       Containerd, Engines

\* What a process has loaded: single files are their own destination, containerd's
\* destination is a copy of the source, cri-o's is empty or the drop-in.
LEMMA LoadFacts ==
  ASSUME TypeOK, Engine \in {"containerd", "crio"} => host.dropIn, Load
  PROVE  \E s \in GetConfigLoaders :
           /\ s \in Section
           /\ source' \in Section /\ dest' \in File /\ tl' \in File
           /\ source' \in {s, EmptySection} /\ (aliased' \in BOOLEAN)
           /\ unseen' = IF unseen = "yes" /\ s \in {top.section, WithDefaults(top.section)}
                        THEN "read" ELSE unseen
           /\ SingleFile => s = top.section /\ dest'.section = top.section
                            /\ dest'.version = top.version /\ dest'.imports = top.imports
           /\ Containerd => /\ s \in {WithDefaults(Effective), top.section}
                            /\ dest'.section = s /\ tl' = top
           /\ Crio => dest' = IF phase = "cleanup" THEN dropin ELSE NoFile
           /\ ~Containerd => tl' = NoFile
<1>1. PICK s \in GetConfigLoaders :
       /\ aliased' = (Engine # "crio" /\ (Engine = "containerd" => s # EmptySection))
       /\ source' = IF aliased' THEN EmptySection ELSE s
       /\ dest' = CASE Engine = "docker" -> DockerLoadConfig
                    [] Engine = "crio" -> CrioNew
                    [] OTHER -> ContainerdNew(s)
       /\ unseen' = IF unseen = "yes" /\ s \in {top.section, WithDefaults(top.section)}
                    THEN "read" ELSE unseen
  BY DEF Load
<1>2. tl' = IF Engine = "containerd" THEN top ELSE NoFile
  BY DEF Load
<1>3. host \in Host /\ Engine \in Engines /\ top \in File /\ dropin \in File
  BY HostFacts DEF TypeOK
<1>4. /\ s \in Section
      /\ SingleFile => s = top.section
      /\ Containerd => s \in {WithDefaults(Effective), top.section}
  BY LoaderFacts
<1>5. /\ [top EXCEPT !.exists = FALSE] \in File
      /\ [top EXCEPT !.exists = FALSE].section = top.section
      /\ [top EXCEPT !.exists = FALSE].version = top.version
      /\ [top EXCEPT !.exists = FALSE].imports = top.imports
  BY <1>3 DEF File
<1>6. BaseDropIn(s) \in File /\ BaseDropIn(s).section = s
  BY <1>4, EmptyTypes DEF BaseDropIn, File, NoFile
<1>7. dest' \in File
  BY <1>1, <1>3, <1>5, <1>6, EmptyTypes DEF DockerLoadConfig, CrioNew, ContainerdNew, Engines
<1>8. SingleFile => dest'.section = top.section /\ dest'.version = top.version
                    /\ dest'.imports = top.imports
  BY <1>1, <1>5 DEF DockerLoadConfig, ContainerdNew, SingleFile
<1>9. Containerd => dest'.section = s
  BY <1>1, <1>6 DEF Containerd, ContainerdNew
<1>10. Crio => dest' = IF phase = "cleanup" THEN dropin ELSE NoFile
  BY <1>1 DEF Crio, CrioNew, DropIn
<1>11. source' \in {s, EmptySection} /\ source' \in Section /\ aliased' \in BOOLEAN
  BY <1>1, <1>4, EmptyTypes
<1>12. tl' \in File /\ (Containerd => tl' = top) /\ (~Containerd => tl' = NoFile)
  BY <1>2, <1>3, EmptyTypes DEF Containerd
<1> QED
  BY <1>1, <1>4, <1>7, <1>8, <1>9, <1>10, <1>11, <1>12, Zenon

\* Every step keeps the types.
LEMMA StepType ==
  ASSUME TypeOK, Engine \in {"containerd", "crio"} => host.dropIn, [Next]_vars
  PROVE  TypeOK'
<1> USE DEF TypeOK, process, user, history, vars
<1>h. host \in Host /\ Engine \in Engines
  BY HostFacts
<1>e. Effective \in Section /\ WithDefaults(Effective) \in Section
  BY <1>h, EffectiveFacts, WithDefaultsFacts DEF Effective, Engines
<1>f. Forget => todo' = {} /\ source' \in Section /\ aliased' \in BOOLEAN
                /\ dest' \in File /\ tl' \in File /\ lowlevel' = {}
  BY EmptyTypes DEF Forget
<1>1. ASSUME NEW o \in OptionSet, NEW what \in {"setup", "configure"}, Begin(o, what)
      PROVE  TypeOK'
  BY <1>1 DEF Begin
<1>2. CASE BeginCleanup
  BY <1>2 DEF BeginCleanup
<1>3. CASE GetLowlevelRuntimePaths
  <2>1. PICK s \in GetConfigLoaders : lowlevel' = GetBinaryPathsForRuntimes(s)
    BY <1>3 DEF GetLowlevelRuntimePaths
  <2>2. lowlevel' \subseteq Name
    BY <2>1, LoaderFacts, LowLevelFacts
  <2> QED
    BY <1>3, <2>2 DEF GetLowlevelRuntimePaths
<1>4. CASE Load
  <2>1. /\ source' \in Section /\ dest' \in File /\ tl' \in File /\ aliased' \in BOOLEAN
        /\ unseen' \in {unseen, "read"}
    BY <1>4, LoadFacts
  <2>2. todo' \subseteq Name
    BY <1>4, RequestedFacts DEF Load
  <2> QED
    BY <1>4, <2>1, <2>2 DEF Load
<1>5. ASSUME NEW n \in Name, UpdateOne(n)
      PROVE  TypeOK'
  <2> DEFINE options == GetDefaultRuntimeOptions(IF aliased THEN dest.section ELSE source)
  <2>1. options \in Name \cup {"builtin"}
    BY Parts, LowLevelFacts
  <2>2. dest' = AddRuntime(dest, n, opts, options)
    BY <1>5 DEF UpdateOne
  <2> HIDE DEF options
  <2>3. dest' \in File
    BY <1>h, <2>1, <2>2, AddFacts
  <2> QED
    BY <1>5, <2>3 DEF UpdateOne
<1>6. ASSUME NEW n \in Name, RevertOne(n)
      PROVE  TypeOK'
  <2>1. dest' \in File
    BY <1>6, <1>h, RemoveFacts DEF RevertOne
  <2>2. tl' \in File
    BY <1>6, <1>h, RemoveFacts DEF RevertOne
  <2> QED
    BY <1>6, <2>1, <2>2 DEF RevertOne
<1>7. CASE UpdateDone
  <2>1. dest' \in File
    BY <1>7, EnableFacts DEF UpdateDone
  <2> QED
    BY <1>7, <2>1 DEF UpdateDone
<1>8. CASE RevertDone
  BY <1>8 DEF RevertDone
<1>9. CASE CrioCleanup
  <2>1. opts.name \in Name
    BY RuntimesOf
  <2>2. dest' \in File
    BY <1>9, <1>f, <2>1, UnsetFacts DEF CrioCleanup
  <2> QED
    BY <1>9, <1>f, <2>2 DEF CrioCleanup
<1>10. CASE Save
  <2>1. Write(dest) \in File
    BY WriteFacts
  <2>2. [Write(dest) EXCEPT !.exists = @ \/ Engine = "docker"] \in File
    BY <2>1 DEF File
  <2>3. top' \in File /\ dropin' \in File
    BY <1>10, <2>1, <2>2 DEF Save
  <2>4. tl' \in File
    BY <1>10, EnsureFacts, SimplifyFacts DEF Save
  <2>5. pc' \in {"savetop", "idle", "remove", "restart"} /\ phase' \in {"ended", phase}
    BY <1>10 DEF Save, AfterSave, Ended
  <2> QED
    BY <1>10, <2>3, <2>4, <2>5 DEF Save
<1>11. CASE SaveTopLevel
  <2>1. top' \in File
    BY <1>11, WriteFacts DEF SaveTopLevel
  <2>2. pc' \in {"idle", "remove", "restart"} /\ phase' \in {"ended", phase}
    BY <1>11 DEF SaveTopLevel, AfterSave, Ended
  <2> QED
    BY <1>11, <2>1, <2>2 DEF SaveTopLevel
<1>12. CASE RemoveDropIn
  BY <1>12, EmptyTypes DEF RemoveDropIn
<1>13. CASE Restart
  BY <1>13, <1>e, <1>f DEF Restart
<1>14. CASE End
  BY <1>14, <1>f DEF End
<1>15. CASE EngineRestart
  BY <1>15, <1>e DEF EngineRestart
<1>16. ASSUME NEW s \in UserChoices, UserEdit(s)
       PROVE  TypeOK'
  <2>1. top' \in File /\ s \in Section
    BY <1>16, UserEditFacts, UserChoiceFacts
  <2> QED
    BY <1>16, <2>1 DEF UserEdit
<1>17. CASE UNCHANGED vars
  BY <1>17
<1> QED
  BY <1>1, <1>2, <1>3, <1>4, <1>5, <1>6, <1>7, <1>8, <1>9, <1>10, <1>11, <1>12, <1>13, <1>14,
     <1>15, <1>16, <1>17 DEF Next

----------------------------------------------------------------------------
(* What the steps that change configs do *)

\* h is f with n added as opts asks.
IsAdded(f, h, n) ==
  /\ h \in File
  /\ h.exists = f.exists /\ h.imports = f.imports
  /\ h.version = (f.version \/ Engine \in {"containerd", "containerdV1"})
  /\ h.section.runtimes[n].bin = "nvidia"
  /\ \A m \in Name \ {n} : h.section.runtimes[m] = f.section.runtimes[m]
  /\ h.section.default = IF IsDefault(n, opts) THEN n
                         ELSE IF f.section.default = n /\ Engine # "docker" THEN "none"
                         ELSE f.section.default
  /\ h.section.settings = f.section.settings
  /\ h.section.cdi = f.section.cdi /\ h.section.features = f.section.features

\* h is f with n removed.
IsRemoved(f, h, n) ==
  /\ h \in File
  /\ h.exists = f.exists /\ h.imports = f.imports
  /\ Engine = "docker" => h.version = f.version
  /\ Engine # "docker" => h.version = (f.version /\ (f.imports \/ h.section # EmptySection))
  /\ h.section.runtimes[n] = NoEntry
  /\ \A m \in Name \ {n} : h.section.runtimes[m] = f.section.runtimes[m]
  /\ h.section.default = IF f.section.default # n THEN f.section.default
                         ELSE IF Engine = "docker" THEN "runc" ELSE "none"
  /\ h.section.settings = f.section.settings
  /\ h.section.cdi = f.section.cdi /\ h.section.features = f.section.features

\* h says what f says.
SameText(f, h) == h.section = f.section /\ h.version = f.version /\ h.imports = f.imports

LEMMA UpdateOneFacts ==
  ASSUME TypeOK, PhaseInv, NEW n \in Name, UpdateOne(n)
  PROVE  /\ IsAdded(dest, dest', n)
         /\ n \in todo /\ n \in Requested(opts) /\ n \in Name \ UserName
<1> DEFINE options == GetDefaultRuntimeOptions(IF aliased THEN dest.section ELSE source)
<1>1. options \in Name \cup {"builtin"}
  BY Parts, LowLevelFacts DEF TypeOK
<1>2. dest' = AddRuntime(dest, n, opts, options)
  BY DEF UpdateOne
<1>3. host \in Host /\ dest \in File /\ opts \in OptionSet
  BY HostFacts DEF TypeOK
<1>4. IsAdded(dest, dest', n)
  <2> HIDE DEF options
  <2> QED
    BY <1>1, <1>2, <1>3, AddFacts DEF IsAdded
<1>5. n \in todo /\ n \in Requested(opts)
  BY DEF UpdateOne, PhaseInv
<1> QED
  BY <1>3, <1>4, <1>5, RequestedFacts

LEMMA RevertOneFacts ==
  ASSUME TypeOK, PhaseInv, NEW n \in Name, RevertOne(n)
  PROVE  /\ IsRemoved(dest, dest', n)
         /\ IF Containerd THEN IsRemoved(tl, tl', n) ELSE tl' = tl
         /\ n \in todo /\ n \in GetRuntimes(opts) /\ n \in Name \ UserName
<1>1. host \in Host /\ dest \in File /\ tl \in File /\ opts \in OptionSet /\ Engine # "crio"
  BY HostFacts DEF TypeOK, RevertOne
<1>2. dest' = RemoveRuntime(dest, n) /\ (Containerd => tl' = RemoveRuntime(tl, n))
      /\ (~Containerd => tl' = tl)
  BY DEF RevertOne, Containerd
<1>3. IsRemoved(dest, dest', n)
  BY <1>1, <1>2, RemoveFacts DEF IsRemoved
<1>4. Containerd => IsRemoved(tl, tl', n)
  BY <1>1, <1>2, RemoveFacts DEF IsRemoved
<1>5. n \in todo /\ n \in Requested(opts) /\ phase # "configure"
  BY DEF RevertOne, PhaseInv
<1> QED
  BY <1>1, <1>2, <1>3, <1>4, <1>5, RequestedFacts

LEMMA SaveFacts ==
  ASSUME TypeOK, PhaseInv, Save
  PROVE  /\ host.dropIn =>
              SameText(dest, dropin') /\ (dropin'.exists <=> ~IsEmpty(dest)) /\ top' = top
         /\ ~host.dropIn =>
              /\ SameText(dest, top') /\ dropin' = dropin
              /\ top'.exists <=> (~IsEmpty(dest) \/ Engine = "docker")
         /\ Containerd =>
              /\ pc' = "savetop" /\ phase' = phase
              /\ tl'.section = tl.section
              /\ ~IsEmpty(dest) => tl'.imports
              /\ Versioned(tl) => Versioned(tl') /\ (~IsEmpty(dest) => tl'.version)
         /\ ~Containerd =>
              /\ tl' = tl
              /\ pc' = IF phase = "configure" THEN "idle"
                       ELSE IF phase = "cleanup" /\ host.dropIn /\ ~Crio THEN "remove" ELSE "restart"
              /\ phase' = IF phase = "configure" THEN "ended" ELSE phase
<1>1. /\ host \in Host /\ Engine \in Engines /\ dest \in File /\ tl \in File
  BY HostFacts DEF TypeOK, PhaseInv
<1>2. /\ Write(dest) \in File /\ SameText(dest, Write(dest))
      /\ Write(dest).exists = ~IsEmpty(dest)
  BY <1>1, WriteFacts DEF SameText
<1>3. ASSUME NEW g, g = [Write(dest) EXCEPT !.exists = @ \/ Engine = "docker"]
      PROVE  SameText(dest, g) /\ g.exists = (~IsEmpty(dest) \/ Engine = "docker")
  BY <1>2, <1>3 DEF File, SameText
<1>4. host.dropIn =>
              SameText(dest, dropin') /\ (dropin'.exists <=> ~IsEmpty(dest)) /\ top' = top
  BY <1>1, <1>2 DEF Save, DropIn
<1>5. ~host.dropIn =>
              /\ SameText(dest, top') /\ dropin' = dropin
              /\ top'.exists <=> (~IsEmpty(dest) \/ Engine = "docker")
  BY <1>1, <1>3 DEF Save, DropIn
<1>6. Containerd => /\ pc' = "savetop" /\ phase' = phase
                    /\ tl' = IF IsEmpty(dest) THEN Simplify(tl) ELSE EnsureImports(tl)
  BY DEF Containerd, Save, Ended
<1>7. /\ EnsureImports(tl).section = tl.section /\ EnsureImports(tl).imports
      /\ Versioned(tl) => EnsureImports(tl).version
      /\ Simplify(tl).section = tl.section /\ (Versioned(tl) => Versioned(Simplify(tl)))
  BY <1>1, EnsureFacts, SimplifyFacts
<1>8. Versioned(tl) => Versioned(EnsureImports(tl))
  BY <1>7 DEF Versioned
<1>9. ~Containerd =>
              /\ tl' = tl
              /\ pc' = IF phase = "configure" THEN "idle"
                       ELSE IF phase = "cleanup" /\ host.dropIn /\ ~Crio THEN "remove" ELSE "restart"
              /\ phase' = IF phase = "configure" THEN "ended" ELSE phase
  <2>1. CASE ~Containerd
    <3>1. pc' = AfterSave /\ phase' = Ended(pc') /\ tl' = tl
      BY <2>1 DEF Save, Containerd
    <3>2. AfterSave = IF phase = "configure" THEN "idle"
                      ELSE IF phase = "cleanup" /\ host.dropIn /\ ~Crio THEN "remove" ELSE "restart"
      BY <2>1 DEF AfterSave, DropIn, Crio
    <3> QED
      BY <3>1, <3>2 DEF Ended
  <2> QED
    BY <2>1
<1> QED
  BY <1>4, <1>5, <1>6, <1>7, <1>8, <1>9

LEMMA SaveTopFacts ==
  ASSUME TypeOK, PhaseInv, SaveTopLevel
  PROVE  /\ Containerd
         /\ SameText(tl, top') /\ top'.exists = ~IsEmpty(tl) /\ (IsEmpty(top') <=> IsEmpty(tl))
         /\ pc' = IF phase = "configure" THEN "idle"
                  ELSE IF phase = "cleanup" THEN "remove" ELSE "restart"
         /\ phase' = IF phase = "configure" THEN "ended" ELSE phase
<1>1. Containerd /\ tl \in File /\ host.dropIn
  BY DEF SaveTopLevel, PhaseInv, Containerd, TypeOK
<1>2. top' = Write(tl) /\ pc' = AfterSave /\ phase' = Ended(pc')
  BY DEF SaveTopLevel
<1>3. AfterSave = IF phase = "configure" THEN "idle"
                  ELSE IF phase = "cleanup" THEN "remove" ELSE "restart"
  BY <1>1 DEF AfterSave, DropIn, Containerd
<1>4. SameText(tl, top') /\ top'.exists = ~IsEmpty(tl) /\ (IsEmpty(top') <=> IsEmpty(tl))
  BY <1>1, <1>2, WriteFacts DEF SameText
<1> QED
  BY <1>1, <1>2, <1>3, <1>4 DEF Ended

----------------------------------------------------------------------------
(* The steps keep the invariant *)

\* The steps come in their order.
LEMMA StepPhase ==
  ASSUME TypeOK, PhaseInv, [Next]_vars
  PROVE  PhaseInv'
<1> USE DEF process, user, history, vars, PhaseInv, Containerd, Crio, Engine
<1>1. ASSUME NEW o \in OptionSet, NEW what \in {"setup", "configure"}, Begin(o, what)
      PROVE  PhaseInv'
  BY <1>1 DEF Begin
<1>2. CASE BeginCleanup
  BY <1>2 DEF BeginCleanup
<1>3. CASE GetLowlevelRuntimePaths
  BY <1>3 DEF GetLowlevelRuntimePaths
<1>4. CASE Load
  <2>1. pc = "load" /\ pc' = "update" /\ UNCHANGED <<host, phase, opts>>
        /\ todo' \subseteq Requested(opts) /\ (Crio /\ phase = "cleanup" => todo' = {})
    BY <1>4 DEF Load
  <2> QED
    BY <2>1 DEF Requested
<1>5. ASSUME NEW n \in Name, UpdateOne(n)
      PROVE  PhaseInv'
  BY <1>5 DEF UpdateOne, Requested
<1>6. ASSUME NEW n \in Name, RevertOne(n)
      PROVE  PhaseInv'
  BY <1>6 DEF RevertOne, Requested
<1>7. CASE UpdateDone
  BY <1>7 DEF UpdateDone
<1>8. CASE RevertDone
  BY <1>8 DEF RevertDone
<1>9. CASE CrioCleanup
  BY <1>9 DEF CrioCleanup, Forget
<1>10. CASE Save
  <2>1. UNCHANGED <<host, opts, todo>> /\ pc = "save"
        /\ unseen' = (IF unseen = "read" THEN "no" ELSE unseen)
    BY <1>10 DEF Save
  <2> QED
    BY <1>10, <2>1, SaveFacts DEF TypeOK
<1>11. CASE SaveTopLevel
  BY <1>11, SaveTopFacts DEF SaveTopLevel, TypeOK
<1>12. CASE RemoveDropIn
  BY <1>12 DEF RemoveDropIn
<1>13. CASE Restart
  BY <1>13 DEF Restart, Forget
<1>14. CASE End
  BY <1>14 DEF End, Forget
<1>15. CASE EngineRestart
  BY <1>15 DEF EngineRestart, Requested
<1>16. ASSUME NEW s \in UserChoices, UserEdit(s)
       PROVE  PhaseInv'
  BY <1>16 DEF UserEdit, Requested
<1>17. CASE UNCHANGED vars
  BY <1>17 DEF Requested
<1> QED
  BY <1>1, <1>2, <1>3, <1>4, <1>5, <1>6, <1>7, <1>8, <1>9, <1>10, <1>11, <1>12, <1>13, <1>14,
     <1>15, <1>16, <1>17 DEF Next

\* An engine that does not read the drop-in runs with the top-level file.
LEMMA UnreadEffective ==
  ASSUME TypeOK, SeparateInv, DropInUnread
  PROVE  NoToolkit(WithDefaults(Effective))
<1>1. Engine = "containerdV1" /\ top \in File /\ dropin \in File /\ NoToolkit(top.section)
  BY DEF DropInUnread, DropIn, SeparateInv, TypeOK
<1>2. Effective = top.section /\ Effective \in Section
  BY <1>1, EffectiveFacts DEF Effective
<1> QED
  BY <1>1, <1>2, WithDefaultsFacts, Names DEF NoToolkit

\* The toolkit's runtimes stay out of a top-level file that has a drop-in.
LEMMA StepSeparate ==
  ASSUME TypeOK, TypeOK', PhaseInv, SeparateInv, [Next]_vars
  PROVE  SeparateInv'
<1>e. DropInUnread => NoToolkit(WithDefaults(Effective))
  BY UnreadEffective
<1> USE DEF process, user, history, vars, SeparateInv, NoToolkit, Containerd, Crio, Engine, DropInUnread, DropIn
<1>1. ASSUME NEW o \in OptionSet, NEW what \in {"setup", "configure"}, Begin(o, what)
      PROVE  SeparateInv'
  BY <1>1 DEF Begin
<1>2. CASE BeginCleanup
  BY <1>2 DEF BeginCleanup
<1>3. CASE GetLowlevelRuntimePaths
  BY <1>3 DEF GetLowlevelRuntimePaths
<1>4. CASE Load
  <2>1. UNCHANGED <<host, top, dropin, running>>
    BY <1>4 DEF Load
  <2>2. /\ Containerd => tl' = top
        /\ ~Containerd => tl' = NoFile
        /\ Crio => dest' = IF phase = "cleanup" THEN dropin ELSE NoFile
    BY <1>4, LoadFacts DEF PhaseInv
  <2>3. NoToolkit(NoFile.section) /\ \A n \in UserName : NoFile.section.runtimes[n] = NoEntry
    BY EmptyTypes, Names
  <2> QED
    BY <2>1, <2>2, <2>3 DEF PhaseInv
<1>5. ASSUME NEW n \in Name, UpdateOne(n)
      PROVE  SeparateInv'
  <2>1. UNCHANGED <<host, top, dropin, tl, running>>
    BY <1>5 DEF UpdateOne
  <2>2. \A m \in UserName : dest'.section.runtimes[m] = dest.section.runtimes[m]
    BY <1>5, UpdateOneFacts, Names DEF IsAdded
  <2> QED
    BY <2>1, <2>2
<1>6. ASSUME NEW n \in Name, RevertOne(n)
      PROVE  SeparateInv'
  <2>1. UNCHANGED <<host, top, dropin, running>>
    BY <1>6 DEF RevertOne
  <2>2. \A m \in UserName : dest'.section.runtimes[m] = dest.section.runtimes[m]
    BY <1>6, RevertOneFacts, Names DEF IsRemoved
  <2>3. CASE Containerd
    <3>1. IsRemoved(tl, tl', n) /\ n \in Name \ UserName
      BY <1>6, <2>3, RevertOneFacts
    <3>2. NoToolkit(tl'.section)
      BY <2>3, <3>1 DEF IsRemoved
    <3> QED
      BY <2>1, <2>3, <3>2
  <2>4. CASE ~Containerd
    <3>1. tl' = tl
      BY <1>6, <2>4, RevertOneFacts
    <3> QED
      BY <2>1, <2>2, <3>1
  <2> QED
    BY <2>3, <2>4
<1>7. CASE UpdateDone
  <2>1. UNCHANGED <<host, top, dropin, tl, running>>
    BY <1>7 DEF UpdateDone
  <2>2. dest'.section.runtimes = dest.section.runtimes
    BY <1>7, EnableFacts DEF UpdateDone, TypeOK
  <2> QED
    BY <2>1, <2>2
<1>8. CASE RevertDone
  BY <1>8 DEF RevertDone
<1>f. ASSUME Forget PROVE dest' = NoFile /\ NoToolkit(tl'.section)
        /\ \A n \in UserName : dest'.section.runtimes[n] = NoEntry
  BY <1>f, EmptyTypes, Names DEF Forget
<1>9. CASE CrioCleanup
  <2>1. UNCHANGED <<host, top, dropin, running>>
    BY <1>9 DEF CrioCleanup
  <2>2. opts.name \in Name /\ dest \in File
    BY RuntimesOf DEF TypeOK
  <2>3. \/ Forget
        \/ UNCHANGED tl /\ dest' = UnsetDefaultRuntime(dest, opts.name)
    BY <1>9 DEF CrioCleanup
  <2>4. dest' = UnsetDefaultRuntime(dest, opts.name) => dest'.section.runtimes = dest.section.runtimes
    BY <2>2, UnsetFacts
  <2> QED
    BY <1>f, <2>1, <2>3, <2>4
<1>10. CASE Save
  <2>1. UNCHANGED <<host, dest, running>>
    BY <1>10 DEF Save
  <2>2. tl'.section = tl.section
    BY <1>10, SaveFacts
  <2>3. CASE host.dropIn
    <3>1. dropin'.section = dest.section /\ top' = top
      BY <1>10, <2>3, SaveFacts DEF SameText
    <3> QED
      BY <2>1, <2>2, <3>1
  <2>4. CASE ~host.dropIn
    BY <2>1, <2>2, <2>4 DEF PhaseInv
  <2> QED
    BY <2>3, <2>4
<1>11. CASE SaveTopLevel
  <2>1. UNCHANGED <<host, dropin, dest, tl, running>>
    BY <1>11 DEF SaveTopLevel
  <2>2. top'.section = tl.section
    BY <1>11, SaveTopFacts DEF SameText
  <2> QED
    BY <2>1, <2>2
<1>12. CASE RemoveDropIn
  <2>1. ~Crio
    BY <1>12 DEF RemoveDropIn, PhaseInv
  <2> QED
    BY <1>12, <2>1 DEF RemoveDropIn
<1>13. CASE Restart
  BY <1>13, <1>e, <1>f DEF Restart
<1>14. CASE End
  BY <1>14, <1>f DEF End
<1>15. CASE EngineRestart
  BY <1>15, <1>e DEF EngineRestart
<1>16. ASSUME NEW s \in UserChoices, UserEdit(s)
       PROVE  SeparateInv'
  <2>1. UNCHANGED <<host, dropin, dest, tl, running>>
    BY <1>16 DEF UserEdit
  <2>2. /\ \A n \in Name \ UserName : top'.section.runtimes[n] = top.section.runtimes[n]
        /\ top'.section.default \in {s.default, top.section.default}
        /\ top.section.default \in UserName \cup {"none"} => top'.section.default = s.default
        /\ s.default \in UserName \cup {"none"}
    BY <1>16, UserEditFacts, UserChoiceFacts DEF TypeOK
  <2> QED
    BY <2>1, <2>2
<1>17. CASE UNCHANGED vars
  BY <1>17
<1> QED
  BY <1>1, <1>2, <1>3, <1>4, <1>5, <1>6, <1>7, <1>8, <1>9, <1>10, <1>11, <1>12, <1>13, <1>14,
     <1>15, <1>16, <1>17 DEF Next

\* Two sections with the same parts are the same.
LEMMA SameSection ==
  ASSUME NEW s \in Section, NEW t \in Section,
         \A n \in Name : s.runtimes[n] = t.runtimes[n], s.default = t.default,
         s.cdi = t.cdi, s.settings = t.settings, s.features = t.features
  PROVE  s = t
<1>1. s.runtimes = t.runtimes
  BY Parts
<1>2. /\ s = [runtimes |-> s.runtimes, default |-> s.default, cdi |-> s.cdi,
              settings |-> s.settings, features |-> s.features]
      /\ t = [runtimes |-> t.runtimes, default |-> t.default, cdi |-> t.cdi,
              settings |-> t.settings, features |-> t.features]
  BY DEF Section
<1> QED
  BY <1>1, <1>2

\* Removing a runtime from a containerd config keeps the version of what is left.
LEMMA RemovedVersion ==
  ASSUME NEW f \in File, NEW h, NEW n \in Name, IsRemoved(f, h, n), Versioned(f),
         Engine \in {"containerd", "containerdV1"}
  PROVE  Versioned(h)
<1>1. f.section = EmptySection => h.section = EmptySection
  <2>1. SUFFICES ASSUME f.section = EmptySection
                 PROVE  h.section = EmptySection
    OBVIOUS
  <2>2. /\ \A m \in Name : h.section.runtimes[m] = EmptySection.runtimes[m]
        /\ h.section.default = EmptySection.default
    BY <2>1, EmptyTypes DEF IsRemoved
  <2>3. /\ h.section.cdi = EmptySection.cdi /\ h.section.settings = EmptySection.settings
        /\ h.section.features = EmptySection.features
        /\ h.section \in Section
    BY <2>1, Parts DEF IsRemoved
  <2> QED
    BY <2>2, <2>3, SameSection, EmptyTypes
<1>2. h.version \in BOOLEAN /\ f.version \in BOOLEAN /\ f.imports \in BOOLEAN /\ h.imports = f.imports
      /\ h.version = (f.version /\ (f.imports \/ h.section # EmptySection))
  BY Parts DEF IsRemoved
<1> QED
  BY <1>1, <1>2 DEF Versioned, IsEmpty

LEMMA SameVersioned ==
  ASSUME NEW f, NEW h, SameText(f, h), Versioned(f)
  PROVE  Versioned(h) /\ (IsEmpty(h) <=> IsEmpty(f))
BY DEF SameText, Versioned, IsEmpty

\* The host does not change.
LEMMA HostKept == [Next]_vars => host' = host
BY DEF Next, vars, process, user, history, Begin, BeginCleanup, GetLowlevelRuntimePaths, Load, UpdateOne,
     RevertOne, UpdateDone, RevertDone, CrioCleanup, Save, SaveTopLevel, RemoveDropIn, Restart,
     End, EngineRestart, UserEdit

\* A containerd config never loses its version.
LEMMA StepVersion ==
  ASSUME TypeOK, TypeOK', PhaseInv, VersionInv, [Next]_vars
  PROVE  VersionInv'
<1> DEFINE Kept == /\ Versioned(top') /\ Versioned(tl')
                   /\ Engine = "containerdV1" => Versioned(dest') /\ Versioned(dropin')
                   /\ pc' \in {"update", "save"} /\ Installing' /\ todo' # Requested(opts)' => dest'.version
<1> SUFFICES ASSUME Engine \in {"containerd", "containerdV1"}
             PROVE  Kept
  BY HostKept DEF VersionInv, HasVersion, Engine, Versioned, IsEmpty
<1>0. /\ Versioned(top) /\ Versioned(tl)
      /\ Engine = "containerdV1" => Versioned(dest) /\ Versioned(dropin)
      /\ pc \in {"update", "save"} /\ Installing /\ todo # Requested(opts) => dest.version
  BY DEF VersionInv, HasVersion
<1>n. Versioned(NoFile)
  BY EmptyTypes DEF Versioned
<1>t. top \in File /\ tl \in File /\ dest \in File /\ opts \in OptionSet
  BY DEF TypeOK
<1> USE DEF process, user, history, vars, Installing
<1>1. ASSUME NEW o \in OptionSet, NEW what \in {"setup", "configure"}, Begin(o, what)
      PROVE  Kept
  BY <1>0, <1>1 DEF Begin
<1>2. CASE BeginCleanup
  BY <1>0, <1>2 DEF BeginCleanup
<1>3. CASE GetLowlevelRuntimePaths
  BY <1>0, <1>3 DEF GetLowlevelRuntimePaths
<1>4. CASE Load
  <2>1. /\ Engine = "containerd" => tl' = top
        /\ Engine = "containerdV1" => tl' = NoFile /\ SameText(top, dest')
    BY <1>4, LoadFacts DEF PhaseInv, Containerd, SingleFile, SameText
  <2>2. UNCHANGED <<top, dropin, phase, opts>> /\ (Installing => todo' = Requested(opts))
    BY <1>4 DEF Load
  <2>3. Engine = "containerdV1" => Versioned(dest')
    BY <1>0, <2>1, SameVersioned
  <2> QED
    BY <1>0, <1>n, <2>1, <2>2, <2>3 DEF Requested
<1>5. ASSUME NEW n \in Name, UpdateOne(n)
      PROVE  Kept
  <2>1. UNCHANGED <<top, dropin, tl>>
    BY <1>5 DEF UpdateOne
  <2>2. dest'.version
    BY <1>5, UpdateOneFacts DEF IsAdded
  <2> QED
    BY <1>0, <2>1, <2>2 DEF Versioned
<1>6. ASSUME NEW n \in Name, RevertOne(n)
      PROVE  Kept
  <2>1. UNCHANGED <<top, dropin, pc, phase>> /\ phase = "cleanup"
    BY <1>6 DEF RevertOne
  <2>2. IsRemoved(dest, dest', n) /\ (Engine = "containerd" => IsRemoved(tl, tl', n))
        /\ (Engine = "containerdV1" => tl' = tl)
    BY <1>6, RevertOneFacts DEF Containerd
  <2>3. Engine = "containerdV1" => Versioned(dest')
    BY <1>0, <1>t, <2>2, RemovedVersion
  <2>4. Versioned(tl')
    BY <1>0, <1>t, <2>2, RemovedVersion
  <2> QED
    BY <1>0, <2>1, <2>3, <2>4
<1>7. CASE UpdateDone
  <2>1. UNCHANGED <<top, dropin, tl>> /\ todo = {} /\ pc = "update" /\ Installing
    BY <1>7 DEF UpdateDone
  <2>2. dest.version
    BY <1>0, <1>t, <2>1, RequestedFacts
  <2>3. dest'.version
    BY <1>7, <1>t, <2>2, EnableFacts DEF UpdateDone
  <2> QED
    BY <1>0, <2>1, <2>3 DEF Versioned
<1>8. CASE RevertDone
  BY <1>0, <1>8 DEF RevertDone
<1>9. CASE CrioCleanup
  BY <1>9 DEF CrioCleanup
<1>10. CASE Save
  <2>1. dest' = dest /\ pc' \notin {"update", "save"}
    BY <1>10, SaveFacts DEF Save, Containerd
  <2>2. CASE Engine = "containerd"
    BY <1>0, <1>10, <2>1, <2>2, SaveFacts DEF Containerd, PhaseInv
  <2>3. CASE Engine = "containerdV1"
    BY <1>0, <1>10, <2>1, <2>3, SaveFacts, SameVersioned DEF Containerd, SingleFile
  <2> QED
    BY <2>2, <2>3
<1>11. CASE SaveTopLevel
  <2>1. UNCHANGED <<dest, dropin, tl>> /\ pc' \notin {"update", "save"} /\ Versioned(top')
    BY <1>0, <1>11, SaveTopFacts, SameVersioned DEF SaveTopLevel
  <2> QED
    BY <1>0, <2>1
<1>12. CASE RemoveDropIn
  BY <1>0, <1>n, <1>12 DEF RemoveDropIn
<1>13. CASE Restart
  BY <1>0, <1>n, <1>13 DEF Restart, Forget
<1>14. CASE End
  BY <1>0, <1>n, <1>14 DEF End, Forget
<1>15. CASE EngineRestart
  BY <1>0, <1>15 DEF EngineRestart, Requested
<1>16. ASSUME NEW s \in UserChoices, UserEdit(s)
       PROVE  Kept
  <2>1. top'.version /\ UNCHANGED <<dropin, pc, phase, todo, opts, dest, tl>>
    BY <1>t, <1>16, UserEditFacts DEF UserEdit
  <2> QED
    BY <1>0, <2>1 DEF Versioned, Requested
<1>17. CASE UNCHANGED vars
  BY <1>0, <1>17 DEF Requested
<1> QED
  BY <1>1, <1>2, <1>3, <1>4, <1>5, <1>6, <1>7, <1>8, <1>9, <1>10, <1>11, <1>12, <1>13, <1>14,
     <1>15, <1>16, <1>17 DEF Next

\* A section that a runtime was added to is not empty.
LEMMA AddedNotEmpty ==
  ASSUME NEW s, NEW names, NEW o, Added(s, names, o), NEW n \in names \cap Name
  PROVE  s # EmptySection /\ s.runtimes[n] # NoEntry
<1>1. s.runtimes[n].bin = "nvidia"
  BY DEF Added
<1>2. NoEntry.bin = "none"
  BY DEF NoEntry
<1>3. s.runtimes[n] # NoEntry
  BY <1>1, <1>2
<1> QED
  BY <1>3, EmptyTypes

\* Once Setup has saved its files the engine's files have the runtimes, and so has
\* the config of an engine that restarts.
LEMMA EffectiveAdded ==
  ASSUME TypeOK, PhaseInv, AddedInv, SetupSaved, ~DropInUnread
  PROVE  Added(WithDefaults(Effective), GetRuntimes(opts), opts)
<1>1. /\ host \in Host /\ Engine \in Engines /\ top \in File /\ dropin \in File /\ opts \in OptionSet
      /\ Added(Saved.section, GetRuntimes(opts), opts)
      /\ Containerd => top.imports
      /\ host.dropIn <=> Engine \in {"containerd", "crio"}
  BY HostFacts DEF TypeOK, AddedInv, SetupSaved, PhaseInv, DropInUnread, DropIn, Host, Engine
<1>2. GetRuntimes(opts) \subseteq Name \ UserName /\ opts.name \in GetRuntimes(opts)
  BY <1>1, RuntimesOf
<1>3. \A n \in GetRuntimes(opts) : Saved.section # EmptySection /\ Saved.section.runtimes[n] # NoEntry
  BY <1>1, <1>2, AddedNotEmpty
<1>4. Effective = EffectiveOf(Engine, top, dropin)
  BY DEF Effective
<1>5. Added(Effective, GetRuntimes(opts), opts) /\ Effective \in Section
  <2>1. CASE SingleFile
    <3>1. Effective = top.section /\ Saved = top /\ Effective \in Section
      BY <1>1, <1>4, <2>1, EffectiveFacts DEF SingleFile, Saved, Engines
    <3> QED
      BY <1>1, <3>1
  <2>2. CASE Containerd
    <3>1. Saved = dropin /\ dropin.section # EmptySection
      BY <1>1, <1>2, <1>3, <2>2 DEF Containerd, Saved
    <3>2. Effective = dropin.section /\ Effective \in Section
      BY <1>1, <1>4, <2>2, <3>1, EffectiveFacts DEF Containerd, Engines
    <3> QED
      BY <1>1, <3>1, <3>2
  <2>3. CASE Crio
    <3>1. Saved = dropin
      BY <1>1, <2>3 DEF Crio, Saved
    <3>2. /\ \A n \in Name : Effective.runtimes[n] =
                IF dropin.section.runtimes[n] # NoEntry
                THEN dropin.section.runtimes[n] ELSE top.section.runtimes[n]
          /\ Effective.default = IF dropin.section.default # "none"
                                 THEN dropin.section.default ELSE top.section.default
          /\ Effective \in Section
      BY <1>1, <1>4, <2>3, EffectiveFacts DEF Crio, Engines
    <3> QED
      BY <1>1, <1>2, <1>3, <3>1, <3>2, Names DEF Added
  <2> QED
    BY <1>1, <2>1, <2>2, <2>3 DEF SingleFile, Containerd, Crio, Engines
<1>6. \A n \in GetRuntimes(opts) : n # "runc"
  BY <1>2, Names
<1> QED
  BY <1>2, <1>5, <1>6, WithDefaultsFacts, Names DEF Added

\* What is to be added gets from memory to the files, and from these to the engine.
LEMMA StepAdded ==
  ASSUME TypeOK, TypeOK', PhaseInv, PhaseInv', VersionInv, AddedInv, [Next]_vars
  PROVE  AddedInv'
<1>h. host' = host /\ host \in Host /\ Engine \in Engines /\ opts \in OptionSet
      /\ (Engine \in {"containerd", "crio"} => host.dropIn)
  BY HostKept, HostFacts DEF TypeOK, PhaseInv
<1>r. /\ GetRuntimes(opts) \subseteq Name \ UserName /\ opts.name \in GetRuntimes(opts)
      /\ Requested(opts) \subseteq Name \ UserName /\ opts.name \in Requested(opts)
      /\ phase # "configure" => Requested(opts) = GetRuntimes(opts)
  BY <1>h, RuntimesOf, RequestedFacts
<1> USE DEF process, user, history, vars, AddedInv, Installing, SetupSaved, Saved, Containerd, Engine,
       DropInUnread, DropIn
<1>1. ASSUME NEW o \in OptionSet, NEW what \in {"setup", "configure"}, Begin(o, what)
      PROVE  AddedInv'
  BY <1>1 DEF Begin
<1>2. CASE BeginCleanup
  BY <1>2 DEF BeginCleanup
<1>3. CASE GetLowlevelRuntimePaths
  BY <1>3 DEF GetLowlevelRuntimePaths
<1>4. CASE Load
  <2>1. pc' = "update" /\ UNCHANGED <<phase, opts>> /\ (Installing => todo' = Requested(opts))
    BY <1>4 DEF Load
  <2>2. Installing' => (Requested(opts) \ todo)' = {}
    BY <2>1 DEF Requested
  <2> QED
    BY <2>1, <2>2 DEF Added
<1>5. ASSUME NEW n \in Name, UpdateOne(n)
      PROVE  AddedInv'
  <2>1. pc = "update" /\ UNCHANGED <<pc, phase, opts>> /\ todo' = todo \ {n} /\ Installing
    BY <1>5 DEF UpdateOne
  <2>2. IsAdded(dest, dest', n) /\ Added(dest.section, Requested(opts) \ todo, opts)
    BY <1>5, <2>1, UpdateOneFacts
  <2>3. Added(dest'.section, Requested(opts) \ (todo \ {n}), opts)
    BY <1>r, <2>2 DEF IsAdded, Added, IsDefault
  <2> QED
    BY <2>1, <2>3 DEF Requested
<1>6. ASSUME NEW n \in Name, RevertOne(n)
      PROVE  AddedInv'
  BY <1>6 DEF RevertOne
<1>7. CASE UpdateDone
  <2>1. pc = "update" /\ pc' = "save" /\ UNCHANGED <<phase, opts, todo>> /\ Installing
    BY <1>7 DEF UpdateDone
  <2>2. dest'.section.runtimes = dest.section.runtimes /\ dest'.section.default = dest.section.default
    BY <1>7, EnableFacts DEF UpdateDone, TypeOK
  <2> QED
    BY <2>1, <2>2 DEF Added, Requested
<1>8. CASE RevertDone
  BY <1>8 DEF RevertDone
<1>9. CASE CrioCleanup
  BY <1>9 DEF CrioCleanup
<1>10. CASE Save
  <2>1. pc = "save" /\ todo = {} /\ UNCHANGED <<opts, dest>>
    BY <1>10 DEF Save, PhaseInv
  <2>2. CASE ~Installing
    BY <1>10, <2>1, <2>2, SaveFacts DEF TypeOK
  <2>3. CASE Installing
    <3>1. Added(dest.section, Requested(opts), opts)
      <4>1. Requested(opts) \ todo = Requested(opts)
        BY <2>1
      <4> QED
        BY <2>1, <2>3, <4>1
    <3>2. ~IsEmpty(dest)
      BY <1>r, <3>1, AddedNotEmpty DEF IsEmpty
    <3>3. Saved'.section = dest.section
      BY <1>h, <1>10, SaveFacts DEF SameText, SingleFile, Engines
    <3>4. phase' = "setup" => Added(Saved'.section, GetRuntimes(opts), opts)
      BY <1>r, <1>10, <2>3, <3>1, <3>3, SaveFacts
    <3>5. Containerd => tl'.imports /\ tl'.version /\ dropin'.version
      <4>1. Containerd => Versioned(tl) /\ dest.version
        BY <1>r, <2>1, <2>3 DEF VersionInv, HasVersion
      <4> QED
        BY <1>h, <1>10, <3>2, <4>1, SaveFacts DEF SameText
    <3>6. pc' \in {"savetop", "restart", "idle", "remove"} /\ (~Containerd => pc' # "savetop")
          /\ (Containerd => pc' = "savetop")
      BY <1>10, SaveFacts
    <3> QED
      BY <1>h, <2>1, <3>4, <3>5, <3>6
  <2> QED
    BY <2>2, <2>3
<1>11. CASE SaveTopLevel
  <2>1. pc = "savetop" /\ UNCHANGED <<opts, dropin, tl, running>> /\ Containerd
    BY <1>11, SaveTopFacts DEF SaveTopLevel
  <2>2. /\ top'.version = tl.version /\ top'.imports = tl.imports
        /\ pc' \in {"idle", "remove", "restart"} /\ phase' \in {phase, "ended"}
    BY <1>11, SaveTopFacts DEF SameText
  <2> QED
    BY <1>h, <2>1, <2>2
<1>12. CASE RemoveDropIn
  BY <1>12 DEF RemoveDropIn, PhaseInv
<1>13. CASE Restart
  <2>1. CASE phase = "setup"
    <3>1. ~DropInUnread => Added(WithDefaults(Effective), GetRuntimes(opts), opts)
      BY <1>13, <2>1, EffectiveAdded DEF Restart
    <3>2. UNCHANGED <<top, dropin, opts>> /\ running' = WithDefaults(Effective) /\ pc' = "up"
          /\ pc = "restart" /\ phase' = "setup"
      BY <1>13, <2>1 DEF Restart
    <3> QED
      BY <1>h, <2>1, <3>1, <3>2
  <2>2. CASE phase # "setup"
    BY <1>13, <2>2 DEF Restart
  <2> QED
    BY <2>1, <2>2
<1>14. CASE End
  BY <1>14 DEF End
<1>15. CASE EngineRestart
  <2>1. UNCHANGED <<top, dropin, pc, phase, opts, todo, dest, tl>> /\ running' = WithDefaults(Effective)
    BY <1>15 DEF EngineRestart
  <2>2. pc = "up" /\ ~DropInUnread => Added(running', GetRuntimes(opts), opts)
    BY <2>1, EffectiveAdded DEF PhaseInv
  <2> QED
    BY <1>h, <2>1, <2>2 DEF Requested
<1>16. ASSUME NEW s \in UserChoices, UserEdit(s)
       PROVE  AddedInv'
  <2>1. UNCHANGED <<dropin, pc, phase, opts, todo, dest, tl, running>>
    BY <1>16 DEF UserEdit
  <2>2. /\ top'.imports = top.imports
        /\ top'.version = (Engine \in {"containerd", "containerdV1"})
        /\ \A n \in Name \ UserName : top'.section.runtimes[n] = top.section.runtimes[n]
        /\ top'.section.default = IF top.section.default \in UserName \cup {"none"}
                                  THEN s.default ELSE top.section.default
    BY <1>16, UserEditFacts DEF TypeOK
  <2>3. Added(top.section, GetRuntimes(opts), opts) => Added(top'.section, GetRuntimes(opts), opts)
    BY <1>r, <2>2, Names DEF Added
  <2> QED
    BY <1>h, <2>1, <2>2, <2>3 DEF Requested
<1>17. CASE UNCHANGED vars
  BY <1>17 DEF Requested
<1> QED
  BY <1>1, <1>2, <1>3, <1>4, <1>5, <1>6, <1>7, <1>8, <1>9, <1>10, <1>11, <1>12, <1>13, <1>14,
     <1>15, <1>16, <1>17 DEF Next

\* What was saved stays until it is removed.
LEMMA StepExists ==
  ASSUME TypeOK, TypeOK', PhaseInv, AddedInv, ExistsInv, [Next]_vars
  PROVE  ExistsInv'
<1>h. host' = host /\ host \in Host /\ Engine \in Engines /\ opts \in OptionSet
      /\ (Engine \in {"containerd", "crio"} => host.dropIn)
  BY HostKept, HostFacts DEF TypeOK, PhaseInv
<1> USE DEF process, user, history, vars, ExistsInv, SetupSaved, CleanupAhead, Saved, Containerd, Engine
<1>1. ASSUME NEW o \in OptionSet, NEW what \in {"setup", "configure"}, Begin(o, what)
      PROVE  ExistsInv'
  BY <1>1 DEF Begin
<1>2. CASE BeginCleanup
  BY <1>h, <1>2 DEF BeginCleanup, PhaseInv
<1>3. CASE GetLowlevelRuntimePaths
  BY <1>3 DEF GetLowlevelRuntimePaths, PhaseInv
<1>4. CASE Load
  BY <1>4 DEF Load
<1>5. ASSUME NEW n \in Name, UpdateOne(n)
      PROVE  ExistsInv'
  BY <1>5 DEF UpdateOne
<1>6. ASSUME NEW n \in Name, RevertOne(n)
      PROVE  ExistsInv'
  BY <1>6 DEF RevertOne
<1>7. CASE UpdateDone
  BY <1>7 DEF UpdateDone
<1>8. CASE RevertDone
  BY <1>8 DEF RevertDone
<1>9. CASE CrioCleanup
  BY <1>9 DEF CrioCleanup
<1>10. CASE Save
  <2>1. pc = "save" /\ todo = {}
    BY <1>10 DEF Save, PhaseInv
  <2>2. CASE phase = "cleanup"
    <3>1. Containerd => pc' = "savetop" /\ top' = top /\ phase' = "cleanup"
      BY <1>h, <1>10, <2>2, SaveFacts
    <3>2. ~Containerd => pc' \in {"restart", "remove"} /\ phase' = "cleanup"
      BY <1>10, <2>2, SaveFacts
    <3> QED
      BY <1>h, <2>1, <2>2, <3>1, <3>2
  <2>3. CASE phase = "setup"
    <3>1. Requested(opts) \ todo = GetRuntimes(opts)
      BY <1>h, <2>1, <2>3, RequestedFacts
    <3>2. Added(dest.section, GetRuntimes(opts), opts)
      BY <2>1, <2>3, <3>1 DEF AddedInv, Installing
    <3>3. ~IsEmpty(dest)
      BY <1>h, <3>2, RuntimesOf, AddedNotEmpty DEF IsEmpty
    <3>4. Saved'.exists
      BY <1>h, <1>10, <3>3, SaveFacts DEF SingleFile, Engines
    <3>5. Containerd => pc' = "savetop" /\ phase' = "setup"
      BY <1>10, <2>3, SaveFacts
    <3> QED
      BY <1>h, <3>4, <3>5, <1>10, <2>3, SaveFacts
  <2>4. CASE phase = "configure"
    <3>1. (pc' = "savetop" /\ phase' = "configure") \/ pc' = "idle"
      BY <1>10, <2>4, SaveFacts
    <3>2. phase' # "cleanup" /\ phase' # "setup"
      BY <1>10, <2>4, SaveFacts
    <3> QED
      BY <3>1, <3>2
  <2> QED
    BY <2>1, <2>2, <2>3, <2>4 DEF PhaseInv, TypeOK
<1>11. CASE SaveTopLevel
  <2>1. pc = "savetop" /\ UNCHANGED dropin /\ Containerd
    BY <1>11, SaveTopFacts DEF SaveTopLevel
  <2>2. phase = "setup" => top'.exists
    BY <1>11, <2>1, SaveTopFacts DEF AddedInv, Installing, IsEmpty
  <2> QED
    BY <1>h, <1>11, <2>1, <2>2, SaveTopFacts
<1>12. CASE RemoveDropIn
  BY <1>12 DEF RemoveDropIn, PhaseInv
<1>13. CASE Restart
  BY <1>h, <1>13 DEF Restart
<1>14. CASE End
  BY <1>14 DEF End
<1>15. CASE EngineRestart
  BY <1>15 DEF EngineRestart
<1>16. ASSUME NEW s \in UserChoices, UserEdit(s)
       PROVE  ExistsInv'
  <2>1. UNCHANGED <<dropin, pc, phase>> /\ top'.exists
    BY <1>16, UserEditFacts DEF UserEdit, TypeOK
  <2> QED
    BY <1>h, <2>1
<1>17. CASE UNCHANGED vars
  BY <1>17
<1> QED
  BY <1>1, <1>2, <1>3, <1>4, <1>5, <1>6, <1>7, <1>8, <1>9, <1>10, <1>11, <1>12, <1>13, <1>14,
     <1>15, <1>16, <1>17 DEF Next

\* With nothing to the contrary in its drop-in, cri-o's default is the user's.
LEMMA CrioDefault ==
  ASSUME TypeOK, PhaseInv, SeparateInv, Crio, dropin.section.default = "none"
  PROVE  WithDefaults(Effective).default \in UserName
<1>1. /\ Engine = "crio" /\ top \in File /\ dropin \in File
      /\ top.section.default \in UserName \cup {"none"}
  BY DEF TypeOK, PhaseInv, SeparateInv, NoToolkit, Crio
<1>2. Effective \in Section /\ Effective.default = top.section.default
  BY <1>1, EffectiveFacts DEF Effective
<1> QED
  BY <1>1, <1>2, WithDefaultsFacts, Names

\* Once Cleanup has saved its files an engine that restarts has no runtime of it.
LEMMA EffectiveGone ==
  ASSUME TypeOK, PhaseInv, SeparateInv, SingleFileGone, ContainerdGone, CrioGone, CleanupSaved
  PROVE  /\ Engine # "crio" => \A n \in GetRuntimes(opts) : WithDefaults(Effective).runtimes[n] = NoEntry
         /\ WithDefaults(Effective).default \notin GetRuntimes(opts)
<1>1. /\ Engine \in Engines /\ top \in File /\ dropin \in File
      /\ GetRuntimes(opts) \subseteq Name \ UserName
  BY HostFacts, RuntimesOf DEF TypeOK
<1>2. CASE Crio
  BY <1>1, <1>2, CrioDefault DEF CrioGone, Crio
<1>3. CASE ~Crio
  <2>1. Effective = top.section /\ Effective \in Section
    <3>1. CASE Containerd
      <4>1. dropin.section = EmptySection
        BY <3>1, EmptyTypes DEF ContainerdGone, PhaseInv, Containerd, Crio
      <4> QED
        BY <1>1, <3>1, <4>1, EffectiveFacts DEF Effective, Containerd, Engines
    <3>2. CASE SingleFile
      BY <1>1, <3>2, EffectiveFacts DEF Effective, SingleFile, Engines
    <3> QED
      BY <1>1, <1>3, <3>1, <3>2 DEF Engines, SingleFile, Containerd, Crio
  <2>2. Gone(top.section, GetRuntimes(opts))
    <3>1. CASE host.dropIn
      <4>1. NoToolkit(top.section)
        BY <3>1 DEF SeparateInv
      <4> QED
        BY <1>1, <4>1, Names DEF NoToolkit, Gone
    <3>2. CASE InPlace
      BY <3>2 DEF SingleFileGone
    <3> QED
      BY <1>1, <1>3, <3>1, <3>2 DEF Engines, SingleFile, InPlace, Crio, PhaseInv
  <2>3. \A n \in GetRuntimes(opts) : n # "runc"
    BY <1>1, Names
  <2> QED
    BY <1>1, <2>1, <2>2, <2>3, WithDefaultsFacts DEF Gone
<1> QED
  BY <1>2, <1>3

\* docker and version 1: what Cleanup removes in memory is gone from the file.
LEMMA StepSingleFileGone ==
  ASSUME TypeOK, TypeOK', PhaseInv, SingleFileGone, [Next]_vars
  PROVE  SingleFileGone'
<1> SUFFICES ASSUME InPlace, InPlace', SingleFile
             PROVE  SingleFileGone'
  BY HostKept DEF SingleFileGone, SingleFile, InPlace, Engine
<1>r. /\ GetRuntimes(opts) \subseteq Name \ UserName /\ opts \in OptionSet
      /\ "runc" \notin GetRuntimes(opts) /\ "none" \notin GetRuntimes(opts)
  BY RuntimesOf, Names DEF TypeOK
<1> USE DEF process, user, history, vars, SingleFileGone, CleanupSaved
<1>1. ASSUME NEW o \in OptionSet, NEW what \in {"setup", "configure"}, Begin(o, what)
      PROVE  SingleFileGone'
  BY <1>1 DEF Begin
<1>2. CASE BeginCleanup \/ GetLowlevelRuntimePaths \/ End \/ EngineRestart \/ RemoveDropIn \/ UpdateDone
  BY <1>2 DEF BeginCleanup, GetLowlevelRuntimePaths, End, EngineRestart, RemoveDropIn, UpdateDone, PhaseInv,
       InPlace
<1>3. CASE Load
  <2>1. UNCHANGED <<phase, opts, top>> /\ pc' = "update"
        /\ (phase = "cleanup" => todo' = GetRuntimes(opts))
    BY <1>3 DEF Load, SingleFile, Requested
  <2>2. phase = "cleanup" => GetRuntimes(opts) \ todo' = {}
    BY <2>1
  <2> QED
    BY <1>3, <2>1, <2>2 DEF Gone, Load, PhaseInv
<1>4. ASSUME NEW n \in Name, UpdateOne(n)
      PROVE  SingleFileGone'
  BY <1>4 DEF UpdateOne
<1>5. ASSUME NEW n \in Name, RevertOne(n)
      PROVE  SingleFileGone'
  <2>1. pc = "update" /\ UNCHANGED <<pc, phase, opts, top>> /\ todo' = todo \ {n} /\ phase = "cleanup"
    BY <1>5 DEF RevertOne
  <2>2. IsRemoved(dest, dest', n) /\ n \in GetRuntimes(opts)
    BY <1>5, RevertOneFacts
  <2>3. Gone(dest'.section, GetRuntimes(opts) \ (todo \ {n}))
    BY <1>r, <2>1, <2>2 DEF IsRemoved, Gone
  <2> QED
    BY <2>1, <2>3
<1>6. CASE RevertDone
  BY <1>6 DEF RevertDone
<1>7. CASE CrioCleanup \/ SaveTopLevel
  BY <1>7 DEF CrioCleanup, SaveTopLevel, PhaseInv, SingleFile, Containerd
<1>8. CASE Save
  <2>1. pc = "save" /\ todo = {} /\ UNCHANGED <<opts>> /\ top'.section = dest.section
        /\ pc' \in {"idle", "restart"} /\ phase' \in {phase, "ended"}
    BY <1>8, SaveFacts DEF Save, PhaseInv, SameText, SingleFile, InPlace, Containerd
  <2>2. GetRuntimes(opts) \ todo = GetRuntimes(opts)
    BY <2>1
  <2> QED
    BY <2>1, <2>2 DEF PhaseInv
<1>9. CASE Restart
  BY <1>9 DEF Restart, PhaseInv
<1>10. ASSUME NEW s \in UserChoices, UserEdit(s)
       PROVE  SingleFileGone'
  <2>1. UNCHANGED <<pc, phase, opts, todo, dest>>
    BY <1>10 DEF UserEdit
  <2>2. /\ \A n \in Name \ UserName : top'.section.runtimes[n] = top.section.runtimes[n]
        /\ top'.section.default \in {s.default, top.section.default}
        /\ s.default \in UserName \cup {"none"}
    BY <1>10, UserEditFacts, UserChoiceFacts DEF TypeOK, NoToolkit
  <2>3. Gone(top.section, GetRuntimes(opts)) => Gone(top'.section, GetRuntimes(opts))
    BY <1>r, <2>2 DEF Gone
  <2> QED
    BY <2>1, <2>3
<1>11. CASE UNCHANGED vars
  BY <1>11
<1> QED
  BY <1>1, <1>2, <1>3, <1>4, <1>5, <1>6, <1>7, <1>8, <1>9, <1>10, <1>11 DEF Next

\* containerd: the drop-in file that Cleanup removes stays removed.
LEMMA StepContainerdGone ==
  ASSUME TypeOK, PhaseInv, ContainerdGone, [Next]_vars
  PROVE  ContainerdGone'
<1> SUFFICES ASSUME host.dropIn, ~Crio, ~Crio', host' = host
             PROVE  ContainerdGone'
  BY HostKept DEF ContainerdGone, Crio, Engine
<1> USE DEF process, user, history, vars, ContainerdGone, CleanupSaved
<1>1. ASSUME NEW o \in OptionSet, NEW what \in {"setup", "configure"}, Begin(o, what)
      PROVE  ContainerdGone'
  BY <1>1 DEF Begin
<1>2. CASE BeginCleanup \/ GetLowlevelRuntimePaths \/ End \/ EngineRestart \/ UpdateDone \/ RevertDone
           \/ RemoveDropIn \/ Restart
  BY <1>2 DEF BeginCleanup, GetLowlevelRuntimePaths, End, EngineRestart, UpdateDone, RevertDone,
       RemoveDropIn, Restart, PhaseInv
<1>3. CASE Load
  BY <1>3 DEF Load, PhaseInv
<1>4. ASSUME NEW n \in Name, UpdateOne(n) \/ RevertOne(n)
      PROVE  ContainerdGone'
  BY <1>4 DEF UpdateOne, RevertOne, PhaseInv
<1>5. CASE CrioCleanup
  BY <1>5 DEF CrioCleanup, Crio
<1>6. CASE Save
  BY <1>6, SaveFacts DEF Save, PhaseInv
<1>7. CASE SaveTopLevel
  BY <1>7, SaveTopFacts DEF SaveTopLevel, PhaseInv
<1>8. ASSUME NEW s \in UserChoices, UserEdit(s)
      PROVE  ContainerdGone'
  BY <1>8 DEF UserEdit
<1>9. CASE UNCHANGED vars
  BY <1>9
<1> QED
  BY <1>1, <1>2, <1>3, <1>4, <1>5, <1>6, <1>7, <1>8, <1>9 DEF Next

\* cri-o: the drop-in's default is the one that Setup was to set, and Cleanup unsets it.
LEMMA StepCrioGone ==
  ASSUME TypeOK, TypeOK', PhaseInv, SeparateInv, CrioGone, [Next]_vars
  PROVE  CrioGone'
<1> SUFFICES ASSUME Crio, Crio'
             PROVE  CrioGone'
  BY HostKept DEF CrioGone, Crio, Engine
<1>r. /\ GetRuntimes(opts) \subseteq Name \ UserName /\ opts \in OptionSet /\ opts.name \in Name
      /\ dest \in File /\ ~Containerd /\ host.dropIn /\ ~SingleFile /\ Engine = "crio"
  BY RuntimesOf DEF TypeOK, PhaseInv, Crio, Containerd, SingleFile
<1>e. /\ dropin.section.default = "none" => WithDefaults(Effective).default \notin GetRuntimes(opts)
  BY <1>r, CrioDefault
<1> USE DEF process, user, history, vars, CrioGone, CleanupSaved, SetupSaved, OwnDefault
<1>1. ASSUME NEW o \in OptionSet, NEW what \in {"setup", "configure"}, Begin(o, what)
      PROVE  CrioGone'
  BY <1>1 DEF Begin
<1>2. CASE BeginCleanup \/ GetLowlevelRuntimePaths \/ End \/ RemoveDropIn \/ RevertDone
  BY <1>2 DEF BeginCleanup, GetLowlevelRuntimePaths, End, RevertDone, RemoveDropIn, PhaseInv, Containerd, Crio
<1>3. CASE Load
  <2>1. dest' = IF phase = "cleanup" THEN dropin ELSE NoFile
    BY <1>3, LoadFacts DEF PhaseInv
  <2>2. UNCHANGED <<dropin, running, phase, opts>> /\ pc = "load" /\ pc' = "update"
    BY <1>3 DEF Load
  <2>3. NoFile.section.default = "none"
    BY EmptyTypes
  <2> QED
    BY <2>1, <2>2, <2>3 DEF PhaseInv
<1>4. ASSUME NEW n \in Name, UpdateOne(n)
      PROVE  CrioGone'
  <2>1. IsAdded(dest, dest', n)
    BY <1>4, UpdateOneFacts
  <2>2. UNCHANGED <<dropin, running, pc, phase, opts>> /\ pc = "update" /\ phase # "cleanup"
    BY <1>4 DEF UpdateOne
  <2> QED
    BY <2>1, <2>2 DEF IsAdded, IsDefault
<1>5. ASSUME NEW n \in Name, RevertOne(n)
      PROVE  CrioGone'
  BY <1>5 DEF RevertOne, PhaseInv
<1>6. CASE UpdateDone
  <2>1. dest'.section.default = dest.section.default
    BY <1>r, <1>6, EnableFacts DEF UpdateDone
  <2> QED
    BY <1>6, <2>1 DEF UpdateDone
<1>7. CASE CrioCleanup
  <2>1. pc = "update" /\ phase = "cleanup" /\ UNCHANGED <<dropin, running, opts>>
    BY <1>7 DEF CrioCleanup
  <2>2. CASE opts.setAsDefault
    <3>1. dest' = UnsetDefaultRuntime(dest, opts.name) /\ pc' = "save" /\ phase' = phase
      BY <1>7, <2>2 DEF CrioCleanup
    <3>2. dest'.section.default = "none"
      BY <1>r, <2>1, <3>1, UnsetFacts
    <3> QED
      BY <2>1, <2>2, <3>1, <3>2
  <2>3. CASE ~opts.setAsDefault
    BY <1>7, <2>1, <2>3 DEF CrioCleanup
  <2> QED
    BY <2>2, <2>3
<1>8. CASE Save
  <2>1. dropin'.section = dest.section
    BY <1>8, <1>r, SaveFacts DEF SameText
  <2>2. /\ pc' = IF phase = "configure" THEN "idle" ELSE "restart"
        /\ phase' = IF phase = "configure" THEN "ended" ELSE phase
    BY <1>8, <1>r, SaveFacts
  <2>3. pc = "save" /\ UNCHANGED <<running, dest, opts>>
    BY <1>8 DEF Save
  <2> QED
    BY <2>1, <2>2, <2>3 DEF PhaseInv
<1>9. CASE SaveTopLevel
  BY <1>9, <1>r DEF SaveTopLevel, PhaseInv
<1>10. CASE Restart
  <2>1. UNCHANGED <<dropin, opts>> /\ running' = WithDefaults(Effective) /\ pc = "restart"
        /\ pc' = (IF phase = "setup" THEN "up" ELSE "idle")
        /\ phase' = (IF phase = "setup" THEN "setup" ELSE "cleaned")
    BY <1>10 DEF Restart
  <2> QED
    BY <1>e, <2>1 DEF PhaseInv
<1>11. CASE EngineRestart
  <2>1. UNCHANGED <<dropin, opts, pc, phase, dest>> /\ running' = WithDefaults(Effective)
    BY <1>11 DEF EngineRestart
  <2> QED
    BY <1>e, <2>1 DEF PhaseInv
<1>12. ASSUME NEW s \in UserChoices, UserEdit(s)
       PROVE  CrioGone'
  BY <1>12 DEF UserEdit
<1>13. CASE UNCHANGED vars
  BY <1>13
<1> QED
  BY <1>1, <1>2, <1>3, <1>4, <1>5, <1>6, <1>7, <1>8, <1>9, <1>10, <1>11, <1>12, <1>13 DEF Next

\* The engine of a completed Cleanup runs without what Setup added.
LEMMA StepReverts ==
  ASSUME TypeOK, PhaseInv, SeparateInv, GoneInv, [Next]_vars
  PROVE  CleanupReverts'
<1>h. host' = host
  BY HostKept
<1>e. CleanupSaved =>
         /\ Engine # "crio" => \A n \in GetRuntimes(opts) : WithDefaults(Effective).runtimes[n] = NoEntry
         /\ WithDefaults(Effective).default \notin GetRuntimes(opts)
  BY EffectiveGone DEF GoneInv
<1> USE DEF process, user, history, vars, CleanupReverts, Engine
<1>g. CleanupReverts
  BY DEF GoneInv
<1>1. ASSUME NEW o \in OptionSet, NEW what \in {"setup", "configure"}, Begin(o, what)
      PROVE  CleanupReverts'
  BY <1>1 DEF Begin
<1>2. CASE BeginCleanup \/ GetLowlevelRuntimePaths \/ End \/ UpdateDone \/ RevertDone \/ RemoveDropIn
  BY <1>2 DEF BeginCleanup, GetLowlevelRuntimePaths, End, UpdateDone, RevertDone, RemoveDropIn, PhaseInv
<1>3. CASE Load
  BY <1>3 DEF Load, PhaseInv
<1>4. ASSUME NEW n \in Name, UpdateOne(n) \/ RevertOne(n)
      PROVE  CleanupReverts'
  BY <1>4 DEF UpdateOne, RevertOne, PhaseInv
<1>5. CASE CrioCleanup
  <2>1. Crio /\ phase = "cleanup" /\ UNCHANGED <<running, opts>>
        /\ (phase' = "cleaned" => ~opts.setAsDefault)
    BY <1>5 DEF CrioCleanup, Crio
  <2>2. phase' = "cleaned" => running.default \notin GetRuntimes(opts)
    BY <2>1 DEF GoneInv, CrioGone
  <2> QED
    BY <1>h, <2>1, <2>2 DEF Crio
<1>6. CASE Save
  BY <1>6, SaveFacts DEF Save, PhaseInv
<1>7. CASE SaveTopLevel
  BY <1>7, SaveTopFacts DEF SaveTopLevel, PhaseInv
<1>8. CASE Restart
  <2>1. pc = "restart" /\ running' = WithDefaults(Effective) /\ UNCHANGED opts
        /\ (phase' = "cleaned" => phase # "setup")
    BY <1>8 DEF Restart
  <2>2. phase' = "cleaned" => CleanupSaved
    BY <2>1 DEF CleanupSaved, PhaseInv
  <2> QED
    BY <1>h, <1>e, <2>1, <2>2
<1>9. CASE EngineRestart
  BY <1>h, <1>e, <1>9 DEF EngineRestart, CleanupSaved
<1>10. ASSUME NEW s \in UserChoices, UserEdit(s)
       PROVE  CleanupReverts'
  BY <1>h, <1>g, <1>10 DEF UserEdit
<1>11. CASE UNCHANGED vars
  BY <1>g, <1>11
<1> QED
  BY <1>1, <1>2, <1>3, <1>4, <1>5, <1>6, <1>7, <1>8, <1>9, <1>10, <1>11 DEF Next

LEMMA StepGone ==
  ASSUME TypeOK, TypeOK', PhaseInv, SeparateInv, GoneInv, [Next]_vars
  PROVE  GoneInv'
BY StepSingleFileGone, StepContainerdGone, StepCrioGone, StepReverts DEF GoneInv

\* The user's part of a file does not change with the toolkit's runtimes.
LEMMA UserPartKept ==
  ASSUME NEW f \in File, NEW h \in File, NEW n \in Name \ UserName,
         IsAdded(f, h, n) \/ IsRemoved(f, h, n)
  PROVE  UserPart(h.section) = UserPart(f.section)
<1>1. f.section \in Section /\ h.section \in Section
  BY Parts
<1>2. h.section.settings = f.section.settings /\ \A m \in UserName : h.section.runtimes[m] = f.section.runtimes[m]
  BY Names DEF IsAdded, IsRemoved
<1> QED
  BY <1>1, <1>2, UserParts

\* The same when CDI is enabled.
LEMMA UserPartEnabled ==
  ASSUME TypeOK, UpdateDone
  PROVE  /\ dest' \in File /\ UserPart(dest'.section) = UserPart(dest.section)
         /\ Engine = "docker" /\ (dest.section.features \/ dest.section.cdi) =>
              dest'.section.features \/ dest'.section.cdi
<1>1. dest \in File /\ dest' = IF opts.enableCDI THEN EnableCDI(dest) ELSE dest
  BY DEF TypeOK, UpdateDone
<1>2. CASE opts.enableCDI
  <2>1. /\ dest' \in File /\ dest'.section.runtimes = dest.section.runtimes
        /\ dest'.section.settings = dest.section.settings
        /\ Engine = "docker" => dest'.section.cdi
    BY <1>1, <1>2, EnableFacts
  <2> QED
    BY <2>1 DEF UserPart
<1>3. CASE ~opts.enableCDI
  BY <1>1, <1>3
<1> QED
  BY <1>2, <1>3

\* No step changes what the user wrote, but for an edit between load and save.
LEMMA StepUser ==
  ASSUME TypeOK, TypeOK', PhaseInv, SeparateInv, UserInv, [Next]_vars
  PROVE  UserInv'
<1>h. host' = host /\ Engine \in Engines /\ opts \in OptionSet /\ top \in File /\ tl \in File /\ dest \in File
      /\ tl' \in File /\ dest' \in File /\ top' \in File
  BY HostKept, HostFacts DEF TypeOK
<1> USE DEF process, user, history, vars, UserInv, UserFilePreserved, SingleFile, Containerd, Engine, DropIn
<1>1. ASSUME NEW o \in OptionSet, NEW what \in {"setup", "configure"}, Begin(o, what)
      PROVE  UserInv'
  BY <1>1 DEF Begin
<1>2. CASE BeginCleanup \/ GetLowlevelRuntimePaths \/ End \/ EngineRestart \/ RemoveDropIn
  BY <1>2 DEF BeginCleanup, GetLowlevelRuntimePaths, End, EngineRestart, RemoveDropIn
<1>3. CASE Load
  <2>1. (SingleFile => dest'.section = top.section) /\ (Containerd => tl' = top)
    BY <1>3, LoadFacts DEF PhaseInv
  <2>2. UNCHANGED <<top, want, raced>>
    BY <1>3 DEF Load
  <2> QED
    BY <1>h, <2>1, <2>2 DEF PhaseInv
<1>4. ASSUME NEW n \in Name, UpdateOne(n)
      PROVE  UserInv'
  <2>1. UNCHANGED <<top, tl, pc, want, raced>>
    BY <1>4 DEF UpdateOne
  <2>2. IsAdded(dest, dest', n) /\ n \in Name \ UserName
    BY <1>4, UpdateOneFacts
  <2>3. UserPart(dest'.section) = UserPart(dest.section)
        /\ dest'.section.features = dest.section.features /\ dest'.section.cdi = dest.section.cdi
    BY <1>h, <2>2, UserPartKept DEF IsAdded
  <2> QED
    BY <1>h, <2>1, <2>3
<1>5. ASSUME NEW n \in Name, RevertOne(n)
      PROVE  UserInv'
  <2>1. UNCHANGED <<top, pc, want, raced>>
    BY <1>5 DEF RevertOne
  <2>2. IsRemoved(dest, dest', n) /\ n \in Name \ UserName
        /\ (IF Containerd THEN IsRemoved(tl, tl', n) ELSE tl' = tl)
    BY <1>5, RevertOneFacts
  <2>3. UserPart(dest'.section) = UserPart(dest.section)
        /\ dest'.section.features = dest.section.features /\ dest'.section.cdi = dest.section.cdi
    BY <1>h, <2>2, UserPartKept DEF IsRemoved
  <2>4. UserPart(tl'.section) = UserPart(tl.section)
    BY <1>h, <2>2, UserPartKept
  <2>5. tl'.section.default = tl.section.default
    BY <2>2, Names DEF IsRemoved, SeparateInv, NoToolkit
  <2> QED
    BY <1>h, <2>1, <2>3, <2>4, <2>5
<1>6. CASE UpdateDone
  <2>1. UNCHANGED <<top, tl, want, raced>> /\ pc = "update" /\ pc' = "save"
    BY <1>6 DEF UpdateDone
  <2>2. /\ UserPart(dest'.section) = UserPart(dest.section)
        /\ Engine = "docker" /\ (dest.section.features \/ dest.section.cdi) =>
              dest'.section.features \/ dest'.section.cdi
    BY <1>6, UserPartEnabled
  <2> QED
    BY <1>h, <2>1, <2>2
<1>7. CASE RevertDone
  BY <1>7 DEF RevertDone
<1>8. CASE CrioCleanup
  BY <1>8 DEF CrioCleanup
<1>9. CASE Save
  <2>1. pc = "save" /\ UNCHANGED <<want, raced, dest>> /\ pc' \notin {"update", "save"}
    BY <1>9, SaveFacts DEF Save
  <2>2. CASE ~host.dropIn
    <3>1. top'.section = dest.section /\ SingleFile /\ pc' # "savetop"
      BY <1>9, <1>h, <2>2, SaveFacts DEF SameText, PhaseInv, Engines
    <3> QED
      BY <1>h, <2>1, <2>2, <3>1
  <2>3. CASE host.dropIn
    <3>1. top' = top /\ tl'.section = tl.section
      BY <1>9, <2>3, SaveFacts
    <3> QED
      BY <1>h, <2>1, <2>3, <3>1
  <2> QED
    BY <2>2, <2>3
<1>10. CASE SaveTopLevel
  <2>1. pc = "savetop" /\ UNCHANGED <<want, raced>> /\ Containerd /\ top'.section = tl.section
        /\ pc' \notin {"update", "save", "savetop"}
    BY <1>10, SaveTopFacts DEF SaveTopLevel, SameText
  <2> QED
    BY <1>h, <2>1
<1>11. CASE Restart
  BY <1>11 DEF Restart
<1>12. ASSUME NEW s \in UserChoices, UserEdit(s)
       PROVE  UserInv'
  <2>1. UNCHANGED pc /\ want' = s /\ raced' = (raced \/ pc \in {"update", "save", "savetop"})
    BY <1>12 DEF UserEdit
  <2>2. s \in Section /\ top'.section \in Section /\ (s.features <=> Engine = "docker")
    BY <1>h, UserChoiceFacts, Parts
  <2>3. /\ \A n \in UserName : top'.section.runtimes[n] = s.runtimes[n]
        /\ top'.section.settings = s.settings /\ top'.section.features = s.features
        /\ top'.section.default = IF top.section.default \in UserName \cup {"none"}
                                  THEN s.default ELSE top.section.default
    BY <1>h, <1>12, UserEditFacts
  <2>4. UserPart(top'.section) = UserPart(s)
    BY <2>2, <2>3, UserParts
  <2>5. host.dropIn => top'.section.default = s.default
    BY <2>3 DEF SeparateInv, NoToolkit
  <2> QED
    BY <1>h, <2>1, <2>2, <2>3, <2>4, <2>5
<1>13. CASE UNCHANGED vars
  BY <1>13
<1> QED
  BY <1>1, <1>2, <1>3, <1>4, <1>5, <1>6, <1>7, <1>8, <1>9, <1>10, <1>11, <1>12, <1>13 DEF Next

\* A section with the user's part of a current one is current.
LEMMA CurrentKept ==
  ASSUME NEW s \in Section, NEW t \in Section, UserPart(t) = UserPart(s), Current(s)
  PROVE  Current(t)
BY UserParts DEF Current

\* The files are current unless there is an edit that containerd's drop-in does not have.
LEMMA EffectiveCurrent ==
  ASSUME TypeOK, PhaseInv, SeparateInv, UserInv, CurrentInv, ~raced, Containerd => unseen = "no"
  PROVE  Effective \in Section /\ Current(Effective) /\ Current(top.section)
<1>1. /\ Engine \in Engines /\ top \in File /\ dropin \in File /\ want \in Section
      /\ top.section \in Section /\ dropin.section \in Section
  BY HostFacts, Parts DEF TypeOK
<1>2. UserPart(top.section) = UserPart(want)
  BY DEF UserInv, UserFilePreserved
<1>3. Current(want) /\ Current(top.section)
  BY <1>1, <1>2, CurrentKept DEF Current
<1>4. CASE SingleFile
  BY <1>1, <1>3, <1>4, EffectiveFacts DEF Effective, SingleFile, Engines
<1>5. CASE Containerd
  <2>1. Effective = IF top.imports /\ dropin.section # EmptySection THEN dropin.section ELSE top.section
    BY <1>1, <1>5, EffectiveFacts DEF Effective, Containerd, Engines
  <2>2. top.imports /\ dropin.section # EmptySection => Current(dropin.section)
    BY <1>5 DEF CurrentInv
  <2> QED
    BY <1>1, <1>3, <2>1, <2>2
<1>6. CASE Crio
  <2>1. /\ Effective \in Section /\ Effective.settings = top.section.settings
        /\ \A n \in Name : Effective.runtimes[n] = IF dropin.section.runtimes[n] # NoEntry
                             THEN dropin.section.runtimes[n] ELSE top.section.runtimes[n]
    BY <1>1, <1>6, EffectiveFacts DEF Effective, Crio, Engines
  <2>2. \A n \in UserName : Effective.runtimes[n] = top.section.runtimes[n]
    BY <1>6, <2>1, Names DEF SeparateInv
  <2>3. UserPart(Effective) = UserPart(top.section)
    BY <1>1, <2>1, <2>2, UserParts
  <2> QED
    BY <1>1, <1>3, <2>1, <2>3, CurrentKept
<1> QED
  BY <1>1, <1>4, <1>5, <1>6 DEF Engines, SingleFile, Containerd, Crio

\* The copies of the user's section are taken from current ones.
LEMMA StepCurrent ==
  ASSUME TypeOK, TypeOK', PhaseInv, SeparateInv, UserInv, CurrentInv, [Next]_vars
  PROVE  CurrentInv'
<1>h. /\ host' = host /\ Engine \in Engines /\ opts \in OptionSet /\ top \in File /\ dest \in File
      /\ dest' \in File /\ dest.section \in Section /\ dest'.section \in Section
      /\ top.section \in Section /\ unseen \in {"no", "read", "yes"}
  BY HostKept, HostFacts, Parts DEF TypeOK
<1>e. ~raced /\ unseen = "no" => Current(Effective) /\ Effective \in Section
  BY EffectiveCurrent
<1> USE DEF process, user, history, vars, CurrentInv, DropInIsCurrent, Containerd, Engine, Current
<1>1. ASSUME NEW o \in OptionSet, NEW what \in {"setup", "configure"}, Begin(o, what)
      PROVE  CurrentInv'
  BY <1>1 DEF Begin
<1>2. CASE BeginCleanup \/ GetLowlevelRuntimePaths \/ End
  BY <1>2 DEF BeginCleanup, GetLowlevelRuntimePaths, End
<1>3. CASE Load
  <2>1. UNCHANGED <<top, dropin, want, raced>> /\ pc = "load" /\ pc' = "update"
    BY <1>3 DEF Load
  <2>2. PICK s \in GetConfigLoaders :
           /\ s \in Section
           /\ unseen' = IF unseen = "yes" /\ s \in {top.section, WithDefaults(top.section)}
                        THEN "read" ELSE unseen
           /\ Containerd => s \in {WithDefaults(Effective), top.section} /\ dest'.section = s
    BY <1>3, LoadFacts DEF PhaseInv
  <2>3. ASSUME Containerd, ~raced, unseen' # "yes"
        PROVE  Current(s)
    <3>1. UserPart(top.section) = UserPart(want) /\ want \in Section
      BY <2>3 DEF UserInv, UserFilePreserved, TypeOK
    <3>2. Current(top.section)
      BY <1>h, <3>1, UserParts
    <3>3. Current(WithDefaults(top.section))
      BY <1>h, <3>2, UserParts
    <3>4. CASE unseen = "no"
      <4>1. Current(WithDefaults(Effective))
        BY <1>e, <2>3, <3>4, UserParts
      <4> QED
        BY <2>2, <2>3, <3>2, <4>1
    <3>5. CASE unseen = "yes"
      BY <2>2, <2>3, <3>2, <3>3, <3>5
    <3>6. unseen # "read"
      BY <2>1, <2>3 DEF PhaseInv
    <3> QED
      BY <1>h, <3>4, <3>5, <3>6
  <2> QED
    BY <1>h, <2>1, <2>2, <2>3
<1>4. ASSUME NEW n \in Name, UpdateOne(n) \/ RevertOne(n)
      PROVE  CurrentInv'
  <2>1. UNCHANGED <<top, dropin, pc, want, raced, unseen>> /\ pc = "update"
    BY <1>4 DEF UpdateOne, RevertOne
  <2>2. UserPart(dest'.section) = UserPart(dest.section)
    <3>1. (IsAdded(dest, dest', n) \/ IsRemoved(dest, dest', n)) /\ n \in Name \ UserName
      BY <1>4, UpdateOneFacts, RevertOneFacts
    <3> QED
      BY <1>h, <3>1, UserPartKept
  <2>3. Current(dest.section) => Current(dest'.section)
    BY <1>h, <2>2, CurrentKept
  <2> QED
    BY <1>h, <2>1, <2>3
<1>5. CASE UpdateDone
  <2>1. UNCHANGED <<top, dropin, want, raced, unseen>> /\ pc = "update" /\ pc' = "save"
    BY <1>5 DEF UpdateDone
  <2>2. UserPart(dest'.section) = UserPart(dest.section)
    BY <1>5, UserPartEnabled
  <2>3. Current(dest.section) => Current(dest'.section)
    BY <1>h, <2>2, CurrentKept
  <2> QED
    BY <1>h, <2>1, <2>3
<1>6. CASE RevertDone
  BY <1>6 DEF RevertDone
<1>7. CASE CrioCleanup
  BY <1>h, <1>7 DEF CrioCleanup
<1>8. CASE Save
  <2>1. pc = "save" /\ UNCHANGED <<want, raced>> /\ pc' \notin {"update", "save", "up"}
        /\ unseen' = (IF unseen = "read" THEN "no" ELSE unseen)
    BY <1>8, SaveFacts DEF Save
  <2>2. Containerd => dropin'.section = dest.section
    BY <1>8, SaveFacts DEF SameText, PhaseInv
  <2> QED
    BY <1>h, <2>1, <2>2
<1>9. CASE SaveTopLevel
  <2>1. pc = "savetop" /\ UNCHANGED <<dropin, want, raced, unseen>> /\ pc' \notin {"update", "save", "savetop", "up"}
    BY <1>9, SaveTopFacts DEF SaveTopLevel
  <2> QED
    BY <1>h, <2>1
<1>10. CASE RemoveDropIn
  <2>1. dropin'.section = EmptySection /\ pc' = "restart"
    BY <1>10, EmptyTypes DEF RemoveDropIn
  <2> QED
    BY <2>1
<1>11. CASE Restart
  <2>1. UNCHANGED <<top, dropin, want, raced, unseen>> /\ running' = WithDefaults(Effective)
        /\ pc' \in {"up", "idle"}
    BY <1>11 DEF Restart
  <2> QED
    BY <1>e, <1>h, <2>1
<1>12. CASE EngineRestart
  <2>1. UNCHANGED <<top, dropin, want, raced, unseen, pc, dest>> /\ running' = WithDefaults(Effective)
    BY <1>12 DEF EngineRestart
  <2> QED
    BY <1>e, <1>h, <2>1
<1>13. ASSUME NEW s \in UserChoices, UserEdit(s)
       PROVE  CurrentInv'
  BY <1>13 DEF UserEdit
<1>14. CASE UNCHANGED vars
  BY <1>14
<1> QED
  BY <1>1, <1>2, <1>3, <1>4, <1>5, <1>6, <1>7, <1>8, <1>9, <1>10, <1>11, <1>12, <1>13, <1>14 DEF Next

\* runc, which the engine adds, is not the toolkit's.
LEMMA DefaultsNoNvidia ==
  ASSUME NEW s \in Section, NoNvidia(s)
  PROVE  NoNvidia(WithDefaults(s))
<1>1. UserEntry("runc").bin = "runc"
  BY DEF UserEntry
<1> QED
  BY <1>1, WithDefaultsFacts DEF NoNvidia

\* As long as all the runtimes' names start with nvidia, the toolkit's binary is not
\* behind any other name.
LEMMA StepLowLevel ==
  ASSUME TypeOK, TypeOK', PhaseInv, LowLevelInv, [Next]_vars
  PROVE  LowLevelInv'
<1> DEFINE Kept == /\ NoNvidia(top'.section) /\ NoNvidia(dropin'.section) /\ NoNvidia(dest'.section)
                   /\ NoNvidia(tl'.section) /\ NoNvidia(source') /\ NoNvidia(running')
                   /\ "nvidia" \notin lowlevel'
<1> SUFFICES ASSUME \A o \in OptionSet : o.name \in NvidiaPrefixed
             PROVE  Kept
  BY DEF LowLevelInv, NoNvidia
<1>0. /\ NoNvidia(top.section) /\ NoNvidia(dropin.section) /\ NoNvidia(dest.section)
      /\ NoNvidia(tl.section) /\ NoNvidia(source) /\ NoNvidia(running)
      /\ "nvidia" \notin lowlevel
  BY DEF LowLevelInv
<1>h. /\ host' = host /\ Engine \in Engines /\ opts \in OptionSet /\ opts.name \in NvidiaPrefixed
      /\ top \in File /\ dest \in File /\ dropin \in File /\ tl \in File /\ running \in Section
  BY HostKept, HostFacts DEF TypeOK
<1>e. NoNvidia(WithDefaults(Effective)) /\ NoNvidia(WithDefaults(running))
  <2>1. Effective \in Section /\ NoNvidia(Effective)
    BY <1>0, <1>h, EffectiveFacts DEF Effective, Engines
  <2> QED
    BY <1>0, <1>h, <2>1, DefaultsNoNvidia
<1>l. \A s \in GetConfigLoaders : NoNvidia(s) /\ s \in Section
  BY <1>0, <1>e, LoaderFacts DEF GetConfigLoaders, ContainerdCommandSource, CrioCommandSource
<1>n. NoNvidia(EmptySection) /\ NoFile.section = EmptySection
  BY EmptyTypes
<1>f. Forget => NoNvidia(dest'.section) /\ NoNvidia(tl'.section) /\ NoNvidia(source') /\ "nvidia" \notin lowlevel'
  BY <1>n DEF Forget
<1> USE DEF process, user, history, vars
<1>1. ASSUME NEW o \in OptionSet, NEW what \in {"setup", "configure"}, Begin(o, what)
      PROVE  Kept
  BY <1>0, <1>1 DEF Begin
<1>2. CASE BeginCleanup \/ RevertDone
  BY <1>0, <1>2 DEF BeginCleanup, RevertDone
<1>3. CASE GetLowlevelRuntimePaths
  <2>1. PICK s \in GetConfigLoaders : lowlevel' = GetBinaryPathsForRuntimes(s)
    BY <1>3 DEF GetLowlevelRuntimePaths
  <2>2. "nvidia" \notin lowlevel'
    BY <1>l, <2>1, LowLevelFacts
  <2> QED
    BY <1>0, <1>3, <2>2 DEF GetLowlevelRuntimePaths
<1>4. CASE Load
  <2>1. UNCHANGED <<top, dropin, running, lowlevel>>
    BY <1>4 DEF Load
  <2>2. PICK s \in GetConfigLoaders :
           /\ source' \in {s, EmptySection}
           /\ SingleFile => dest'.section = top.section
           /\ Containerd => dest'.section = s /\ tl' = top
           /\ Crio => dest' = IF phase = "cleanup" THEN dropin ELSE NoFile
           /\ ~Containerd => tl' = NoFile
    BY <1>4, LoadFacts DEF PhaseInv
  <2>3. NoNvidia(source') /\ NoNvidia(tl'.section)
    BY <1>0, <1>l, <1>n, <2>2
  <2>4. NoNvidia(dest'.section)
    BY <1>0, <1>h, <1>l, <1>n, <2>2 DEF Engines, SingleFile, Containerd, Crio
  <2> QED
    BY <1>0, <2>1, <2>3, <2>4
<1>5. ASSUME NEW n \in Name, UpdateOne(n)
      PROVE  Kept
  <2>1. UNCHANGED <<top, dropin, running, source, tl, lowlevel>>
    BY <1>5 DEF UpdateOne
  <2>2. IsAdded(dest, dest', n) /\ n \in NvidiaPrefixed
    BY <1>h, <1>5, UpdateOneFacts, RequestedFacts
  <2>3. NoNvidia(dest'.section)
    BY <1>0, <2>2, Names DEF IsAdded, NoNvidia
  <2> QED
    BY <1>0, <2>1, <2>3
<1>6. ASSUME NEW n \in Name, RevertOne(n)
      PROVE  Kept
  <2>1. UNCHANGED <<top, dropin, running, source, lowlevel>>
    BY <1>6 DEF RevertOne
  <2>2. IsRemoved(dest, dest', n) /\ (IF Containerd THEN IsRemoved(tl, tl', n) ELSE tl' = tl)
    BY <1>6, RevertOneFacts
  <2>3. NoEntry.bin # "nvidia"
    BY DEF NoEntry
  <2>4. ASSUME NEW f, NEW g, NoNvidia(f.section), IsRemoved(f, g, n)
        PROVE  NoNvidia(g.section)
    BY <2>3, <2>4 DEF IsRemoved, NoNvidia
  <2>5. NoNvidia(dest'.section) /\ NoNvidia(tl'.section)
    BY <1>0, <2>2, <2>4
  <2> QED
    BY <1>0, <2>1, <2>5
<1>7. CASE UpdateDone
  <2>1. UNCHANGED <<top, dropin, running, source, tl, lowlevel>>
    BY <1>7 DEF UpdateDone
  <2>2. dest'.section.runtimes = dest.section.runtimes /\ dest'.section.default = dest.section.default
    BY <1>h, <1>7, EnableFacts DEF UpdateDone
  <2> QED
    BY <1>0, <2>1, <2>2 DEF NoNvidia
<1>8. CASE CrioCleanup
  <2>1. UNCHANGED <<top, dropin, running>>
    BY <1>8 DEF CrioCleanup
  <2>2. \/ Forget
        \/ UNCHANGED <<source, tl, lowlevel>> /\ dest' = UnsetDefaultRuntime(dest, opts.name)
    BY <1>8 DEF CrioCleanup
  <2>3. dest' = UnsetDefaultRuntime(dest, opts.name) => NoNvidia(dest'.section)
    <3>1. opts.name \in Name
      BY <1>h, RuntimesOf
    <3>2. dest' = UnsetDefaultRuntime(dest, opts.name) =>
            /\ dest'.section.runtimes = dest.section.runtimes
            /\ dest'.section.default \in {"none", dest.section.default}
      BY <1>h, <3>1, UnsetFacts
    <3> QED
      BY <1>0, <3>2 DEF NoNvidia
  <2> QED
    BY <1>0, <1>f, <2>1, <2>2, <2>3
<1>9. CASE Save
  <2>1. UNCHANGED <<running, source, dest, lowlevel>>
    BY <1>9 DEF Save
  <2>2. tl'.section = tl.section
    BY <1>9, SaveFacts
  <2>3. top'.section \in {top.section, dest.section} /\ dropin'.section \in {dropin.section, dest.section}
    BY <1>h, <1>9, SaveFacts DEF SameText, SingleFile, Engines
  <2> QED
    BY <1>0, <2>1, <2>2, <2>3
<1>10. CASE SaveTopLevel
  <2>1. UNCHANGED <<dropin, running, source, dest, tl, lowlevel>> /\ top'.section = tl.section
    BY <1>10, SaveTopFacts DEF SaveTopLevel, SameText
  <2> QED
    BY <1>0, <2>1
<1>11. CASE RemoveDropIn
  BY <1>0, <1>n, <1>11 DEF RemoveDropIn
<1>12. CASE Restart
  BY <1>0, <1>e, <1>f, <1>12 DEF Restart
<1>13. CASE End
  BY <1>0, <1>f, <1>13 DEF End
<1>14. CASE EngineRestart
  BY <1>0, <1>e, <1>14 DEF EngineRestart
<1>15. ASSUME NEW s \in UserChoices, UserEdit(s)
       PROVE  Kept
  <2>1. UNCHANGED <<dropin, running, source, dest, tl, lowlevel>>
    BY <1>15 DEF UserEdit
  <2>2. NoNvidia(s)
    BY UserChoiceFacts
  <2>3. /\ \A n \in UserName : top'.section.runtimes[n] = s.runtimes[n]
        /\ \A n \in Name \ UserName : top'.section.runtimes[n] = top.section.runtimes[n]
        /\ top'.section.default \in {s.default, top.section.default}
    BY <1>h, <1>15, UserEditFacts
  <2>4. NoNvidia(top'.section)
    BY <1>0, <2>2, <2>3 DEF NoNvidia
  <2> QED
    BY <1>0, <2>1, <2>4
<1>16. CASE UNCHANGED vars
  BY <1>0, <1>16
<1> QED
  BY <1>1, <1>2, <1>3, <1>4, <1>5, <1>6, <1>7, <1>8, <1>9, <1>10, <1>11, <1>12, <1>13, <1>14,
     <1>15, <1>16 DEF Next

\* The invariant holds when the user's config is all there is.
LEMMA InitInv == DefaultPaths /\ Init => EngineInv
<1> SUFFICES ASSUME DefaultPaths, Init
             PROVE  EngineInv
  OBVIOUS
<1>1. /\ host \in Hosts /\ want \in UserChoices /\ opts \in OptionSet
      /\ top = IF want = EmptySection THEN NoFile
               ELSE [exists |-> TRUE, version |-> HasVersion,
                     imports |-> FALSE, section |-> want]
      /\ dropin = NoFile /\ running = WithDefaults(want) /\ pc = "idle" /\ phase = "ended"
      /\ todo = {} /\ source = EmptySection /\ aliased = FALSE /\ dest = NoFile /\ tl = NoFile
      /\ lowlevel = {} /\ unseen = "no" /\ raced = FALSE
  BY DEF Init
<1>2. /\ want \in Section /\ NoToolkit(want) /\ NoNvidia(want) /\ (want.features <=> Engine = "docker")
      /\ running \in Section /\ NoNvidia(running) /\ NoToolkit(running)
  BY <1>1, UserChoiceFacts, WithDefaultsFacts, DefaultsNoNvidia, Names DEF NoToolkit
<1>3. top \in File /\ top.section = want
      /\ (HasVersion => Versioned(top))
  <2>1. CASE want = EmptySection
    BY <1>1, <2>1, EmptyTypes DEF Versioned
  <2>2. CASE want # EmptySection
    <3>1. top = [exists |-> TRUE, version |-> HasVersion,
                 imports |-> FALSE, section |-> want]
      BY <1>1, <2>2
    <3> DEFINE v == HasVersion
    <3>2. v \in BOOLEAN
      BY DEF HasVersion
    <3>3. top = [exists |-> TRUE, version |-> v, imports |-> FALSE, section |-> want]
      BY <3>1
    <3> HIDE DEF v
    <3>4. top \in File /\ top.section = want /\ (v => top.version)
      BY <1>2, <3>2, <3>3 DEF File
    <3> QED
      BY <3>4 DEF Versioned, v
  <2> QED
    BY <2>1, <2>2
<1>4. TypeOK
  BY <1>1, <1>2, <1>3, EmptyTypes DEF TypeOK
<1>5. PhaseInv
  BY <1>1 DEF PhaseInv, DefaultPaths, Engine
<1>6. SeparateInv
  BY <1>1, <1>2, <1>3, EmptyTypes, Names DEF SeparateInv
<1>7. VersionInv
  BY <1>1, <1>3, EmptyTypes DEF VersionInv, Versioned
<1>8. AddedInv /\ ExistsInv
  BY <1>1 DEF AddedInv, ExistsInv, SetupSaved, CleanupAhead
<1>9. GoneInv
  BY <1>1 DEF GoneInv, SingleFileGone, ContainerdGone, CrioGone, CleanupReverts, SetupSaved, CleanupSaved
<1>10. UserInv
  BY <1>1, <1>2, <1>3 DEF UserInv, UserFilePreserved
<1>11. CurrentInv
  BY <1>1, EmptyTypes DEF CurrentInv, DropInIsCurrent
<1>12. LowLevelInv
  BY <1>1, <1>2, <1>3, EmptyTypes DEF LowLevelInv
<1> QED
  BY <1>4, <1>5, <1>6, <1>7, <1>8, <1>9, <1>10, <1>11, <1>12 DEF EngineInv

----------------------------------------------------------------------------
(* The theorems *)

\* With the default drop-in paths, every state of an engine's config files, of the
\* processes that change them and of the running engine satisfies the inductive
\* invariant: whatever the user edits, and wherever processes end.
THEOREM EngineInvariant == DefaultPaths /\ Spec => []EngineInv
<1>1. DefaultPaths /\ Init => EngineInv
  BY InitInv
<1>2. EngineInv /\ [Next]_vars => EngineInv'
  <2> SUFFICES ASSUME EngineInv, [Next]_vars
               PROVE  EngineInv'
    OBVIOUS
  <2>1. /\ TypeOK /\ PhaseInv /\ SeparateInv /\ VersionInv /\ AddedInv /\ ExistsInv /\ GoneInv
        /\ UserInv /\ CurrentInv /\ LowLevelInv
    BY DEF EngineInv
  <2>2. TypeOK'
    BY <2>1, StepType DEF PhaseInv
  <2>3. PhaseInv'
    BY <2>1, StepPhase
  <2>4. SeparateInv' /\ VersionInv'
    BY <2>1, <2>2, StepSeparate, StepVersion
  <2>5. AddedInv' /\ ExistsInv'
    BY <2>1, <2>2, <2>3, StepAdded, StepExists
  <2>6. GoneInv' /\ UserInv'
    BY <2>1, <2>2, StepGone, StepUser
  <2>7. CurrentInv' /\ LowLevelInv'
    BY <2>1, <2>2, StepCurrent, StepLowLevel
  <2> QED
    BY <2>2, <2>3, <2>4, <2>5, <2>6, <2>7 DEF EngineInv
<1> QED
  BY <1>1, <1>2, PTL DEF Spec

\* The files, the configs in memory and the running config stay well-formed.
THEOREM TypeCorrect == DefaultPaths /\ Spec => []TypeOK
BY EngineInvariant, PTL DEF EngineInv

\* Once Setup is complete the engine runs with the nvidia runtimes and the requested
\* default, for every command line and every user config, whatever is edited and
\* however often the engine restarts afterwards; a version 1 containerd with a drop-in
\* path runs without them (container.go:99-132, containerd.go:122-125).
THEOREM SetupIsEffective == DefaultPaths /\ Spec => []SetupTakesEffect
<1>1. EngineInv => SetupTakesEffect
  <2> SUFFICES ASSUME EngineInv, pc = "up"
               PROVE  SetupTakesEffect
    BY DEF SetupTakesEffect
  <2>1. phase = "setup" /\ GetRuntimes(opts) \subseteq Name \ UserName /\ opts.name \in GetRuntimes(opts)
    BY RuntimesOf DEF EngineInv, PhaseInv, TypeOK
  <2>2. CASE DropInUnread
    <3>1. NoToolkit(running)
      BY <2>2 DEF EngineInv, SeparateInv
    <3> QED
      BY <2>1, <2>2, <3>1, Names DEF NoToolkit, SetupTakesEffect
  <2>3. CASE ~DropInUnread
    <3>1. /\ Added(running, GetRuntimes(opts), opts)
          /\ Containerd => top.imports /\ top.version /\ dropin.version
      BY <2>1, <2>3 DEF EngineInv, AddedInv, SetupSaved
    <3> QED
      BY <2>1, <2>3, <3>1 DEF Added, Containerd, SetupTakesEffect
  <2> QED
    BY <2>2, <2>3
<1> QED
  BY <1>1, EngineInvariant, PTL

\* After a completed Cleanup the engine runs without the runtimes that Setup added
\* (container.go:71-94, crio.go:182-209).
THEOREM CleanupIsEffective == DefaultPaths /\ Spec => []CleanupReverts
BY EngineInvariant, PTL DEF EngineInv, GoneInv

\* Neither Setup nor Cleanup, complete or abandoned, changes what the user wrote to
\* the top-level file, unless the user wrote it between load and save.
THEOREM UserFileIsKept == DefaultPaths /\ Spec => []UserFilePreserved
BY EngineInvariant, PTL DEF EngineInv, UserInv

\* After a completed Cleanup the engine's files say what the user wrote: no copy of an
\* older section stays behind in a drop-in (container.go:80-91).
THEOREM CleanedIsUsers == DefaultPaths /\ Spec => []CleanedConfigIsUsers
<1>1. EngineInv => CleanedConfigIsUsers
  <2> SUFFICES ASSUME EngineInv, phase = "cleaned", ~raced
               PROVE  /\ UserPart(WithDefaults(Effective)) = UserPart(WithDefaults(want))
                      /\ host.dropIn =>
                           WithDefaults(Effective).default = WithDefaults(want).default
    BY DEF CleanedConfigIsUsers, DropIn
  <2>1. /\ TypeOK /\ PhaseInv /\ SeparateInv /\ UserInv /\ CurrentInv /\ ContainerdGone /\ CrioGone
        /\ Engine \in Engines /\ top \in File /\ dropin \in File /\ want \in Section
        /\ top.section \in Section /\ CleanupSaved
    BY HostFacts, Parts DEF EngineInv, GoneInv, TypeOK, CleanupSaved
  <2>2. /\ UserPart(top.section) = UserPart(want)
        /\ host.dropIn => top.section.default = want.default
    BY <2>1 DEF UserInv, UserFilePreserved, DropIn
  <2>3. CASE Containerd
    <3>1. dropin.section = EmptySection
      BY <2>1, <2>3, EmptyTypes DEF ContainerdGone, PhaseInv, Containerd, Crio
    <3>2. Effective = top.section
      BY <2>1, <2>3, <3>1, EffectiveFacts DEF Effective, Containerd, Engines
    <3>3. UserPart(WithDefaults(top.section)) = UserPart(WithDefaults(want))
      BY <2>1, <2>2, UserParts
    <3>4. host.dropIn => WithDefaults(top.section).default = WithDefaults(want).default
      BY <2>1, <2>2, WithDefaultsFacts
    <3> QED
      BY <3>2, <3>3, <3>4
  <2>4. CASE ~Containerd
    <3>1. Effective \in Section /\ Current(Effective)
      BY <2>1, <2>4, EffectiveCurrent
    <3>2. host.dropIn => Effective.default = want.default
      <4>1. CASE Crio
        <5>1. Effective.default = top.section.default
          BY <2>1, <4>1, EffectiveFacts DEF Effective, Crio, CrioGone, Engines
        <5> QED
          BY <2>2, <5>1
      <4>2. CASE SingleFile
        <5>1. Effective = top.section
          BY <2>1, <4>2, EffectiveFacts DEF Effective, SingleFile, Engines
        <5> QED
          BY <2>2, <5>1
      <4> QED
        BY <2>1, <2>4, <4>1, <4>2 DEF Containerd, Crio, SingleFile, Engines
    <3>3. host.dropIn =>
            WithDefaults(Effective).default = WithDefaults(want).default
      BY <2>1, <3>1, <3>2, WithDefaultsFacts
    <3> QED
      BY <3>1, <3>3 DEF Current
  <2> QED
    BY <2>3, <2>4
<1> QED
  BY <1>1, EngineInvariant, PTL

\* The engine of a completed Setup runs with the user's section as the user last wrote
\* it, unless the user has written since it was copied (containerd.go:213-225).
THEOREM DropInStaysCurrent == DefaultPaths /\ Spec => []DropInIsCurrent
BY EngineInvariant, PTL DEF EngineInv, CurrentInv

\* Every containerd file with anything in it has its version, but for the drop-in that
\* a Cleanup has saved and has yet to remove (config_drop_in.go:166-174, 202-221,
\* config.go:149-151, containerd.go:218-225).
THEOREM VersionIsKept == DefaultPaths /\ Spec => VersionKept
<1>1. EngineInv /\ HasVersion => Versioned(top) /\ (phase = "cleaned" => Versioned(dropin))
  <2> SUFFICES ASSUME EngineInv, HasVersion
               PROVE  Versioned(top) /\ (phase = "cleaned" => Versioned(dropin))
    OBVIOUS
  <2>1. Versioned(top)
    BY DEF EngineInv, VersionInv
  <2>2. ASSUME phase = "cleaned"
        PROVE  Versioned(dropin)
    <3>1. CASE host.dropIn
      BY <2>2, <3>1, EmptyTypes DEF EngineInv, GoneInv, ContainerdGone, CleanupSaved, Versioned,
           HasVersion, Crio
    <3>2. CASE ~host.dropIn
      BY <3>2 DEF EngineInv, VersionInv, PhaseInv, HasVersion
    <3> QED
      BY <3>1, <3>2
  <2> QED
    BY <2>1, <2>2
<1>2. EngineInv /\ [Next]_vars =>
        [HasVersion /\ dropin' # dropin /\ ~Versioned(dropin') =>
           pc = "save" /\ phase = "cleanup" /\ Engine = "containerd"]_vars
  <2> SUFFICES ASSUME EngineInv, Next, HasVersion, dropin' # dropin, ~Versioned(dropin')
               PROVE  pc = "save" /\ phase = "cleanup" /\ Engine = "containerd"
    BY DEF vars
  <2>1. Versioned(NoFile)
    BY EmptyTypes DEF Versioned
  <2>2. Save
    BY <2>1 DEF Next, vars, process, user, history, Begin, BeginCleanup, GetLowlevelRuntimePaths, Load,
         UpdateOne, RevertOne, UpdateDone, RevertDone, CrioCleanup, SaveTopLevel, RemoveDropIn, Restart,
         End, EngineRestart, UserEdit
  <2>3. pc = "save" /\ todo = {} /\ SameText(dest, dropin') /\ opts \in OptionSet
    BY <2>2, SaveFacts DEF EngineInv, PhaseInv, Save, TypeOK
  <2>4. ~Versioned(dest)
    BY <2>3, SameVersioned
  <2>5. Engine = "containerd"
    BY <2>4 DEF EngineInv, VersionInv, HasVersion
  <2>6. ~Installing
    <3>1. ~dest.version
      BY <2>4 DEF Versioned
    <3>2. todo # Requested(opts)
      BY <2>3, RequestedFacts
    <3> QED
      BY <2>3, <3>1, <3>2 DEF EngineInv, VersionInv
  <2>7. phase \in {"setup", "cleanup", "configure"}
    BY <2>3 DEF EngineInv, PhaseInv, TypeOK
  <2> QED
    BY <2>3, <2>5, <2>6, <2>7 DEF Installing
<1> QED
  BY <1>1, <1>2, EngineInvariant, PTL DEF Spec, VersionKept

\* An empty config is saved only over a file that exists, so that removing the file
\* never fails and never abandons a Setup or Cleanup (raw.go:39-45).
THEOREM RemovesWhatExists == DefaultPaths /\ Spec => []NoRemoveOfMissing
<1>1. EngineInv => NoRemoveOfMissing
  <2> SUFFICES ASSUME EngineInv
               PROVE  NoRemoveOfMissing
    OBVIOUS
  <2>1. /\ PhaseInv /\ AddedInv /\ ExistsInv /\ opts \in OptionSet
        /\ phase \in {"setup", "cleanup", "configure", "cleaned", "ended"}
    BY DEF EngineInv, TypeOK
  <2>2. ASSUME pc = "save", IsEmpty(dest)
        PROVE  IF DropIn THEN dropin.exists ELSE top.exists
    <3>1. todo = {} /\ phase \in {"setup", "configure", "cleanup"}
      BY <2>1, <2>2 DEF PhaseInv
    <3>2. Installing => Added(dest.section, Requested(opts), opts)
      <4>1. Requested(opts) \ todo = Requested(opts)
        BY <3>1
      <4> QED
        BY <2>1, <2>2, <4>1 DEF AddedInv
    <3>3. ~Installing
      BY <2>1, <2>2, <3>2, RequestedFacts, AddedNotEmpty DEF IsEmpty
    <3> QED
      BY <2>1, <2>2, <3>1, <3>3 DEF ExistsInv, CleanupAhead, Installing, Saved, DropIn
  <2>3. ASSUME pc = "savetop", IsEmpty(tl)
        PROVE  top.exists
    <3>1. phase \in {"setup", "configure", "cleanup"} /\ Containerd
      BY <2>1, <2>3 DEF PhaseInv
    <3>2. ~Installing
      BY <2>1, <2>3 DEF AddedInv, IsEmpty
    <3> QED
      BY <2>1, <2>3, <3>1, <3>2 DEF ExistsInv, Installing
  <2> QED
    BY <2>2, <2>3 DEF NoRemoveOfMissing
<1> QED
  BY <1>1, EngineInvariant, PTL

\* As long as the runtimes' names start with nvidia, the toolkit's runtime is never
\* taken for a low-level runtime, whatever earlier processes left in the files
\* (engine.go:21-67).
THEOREM LowLevelIsNeverNvidia == DefaultPaths /\ Spec => []LowLevelNeverNvidia
<1>1. EngineInv => LowLevelNeverNvidia
  BY DEF EngineInv, LowLevelInv, LowLevelNeverNvidia
<1> QED
  BY <1>1, EngineInvariant, PTL
=============================================================================
