---------------------------- MODULE CDIHooksProofs ----------------------------
(***************************************************************************)
(* Proofs about CDIHooks, for every set of driver versions, library        *)
(* directories, images, hosts and hook options, and any number of starts.  *)
(*                                                                         *)
(* The inductive invariant HooksInv follows the hooks of a start in their  *)
(* order: what a hook that is done has left, what the current one has left *)
(* so far, and what earlier starts may have left, dead or not.             *)
(***************************************************************************)
EXTENDS CDIHooks, TLAPS

----------------------------------------------------------------------------
(* The inductive invariant *)

\* The steps of update-ldcache; those after its scratch folder is made; and those after
\* the directories are listed in ld.so.conf.d.
LdSteps == {"reexec", "root", "pivot", "ensure", "include", "filter", "nvcr", "nvcr-write", "zz",
            "zz-write", "musl", "exec"}
AfterRoot == LdSteps \ {"reexec", "root"}
Listing == {"zz", "zz-write", "musl"}

\* The hook has run in this start.
Did(h) == pc # "stopped" /\ h \in Ran /\ h \notin hooks

\* A start is one of the spec's driver, and its hooks are done in their order.
PhaseInv ==
  /\ pc \in {"stopped", "running"} => hooks = {}
  /\ pc \notin LdSteps => dirs = {}
  /\ pc # "stopped" => /\ spec.version = driver
                       /\ Len(started) > 0 /\ started[Len(started)] = driver
  /\ hooks \subseteq HooksOf(spec)
  /\ Compat \in hooks /\ LDCache \in HooksOf(spec) => LDCache \in hooks
  /\ pc = "symlink" => Symlinks \in hooks /\ todo # <<>>
  /\ pc = "compat-write" => Compat \in hooks
  /\ pc \in LdSteps => LDCache \in hooks /\ Compat \notin hooks
  /\ pc = "params" => Params \in hooks
  /\ params \in {site.params, ModifiedParams}

\* Every start makes at most two scratch folders.
ScratchInv ==
  scratch + (IF LDCache \in hooks /\ pc \notin AfterRoot THEN 1 ELSE 0)
          + (IF Params \in hooks /\ pc # "params" THEN 1 ELSE 0) <= 2 * Len(started)

\* What a hook that is done has left.
SymlinksDone ==
  Did(Symlinks) => \A i \in DOMAIN LinksOf(driver) : links[LinksOf(driver)[i][1]] = LinksOf(driver)[i][2]
ParamsDone == Did(Params) => params # "1"
CacheDone  == Did(LDCache) => cache = ReadOrder
CompatDone == Did(Compat) /\ CompatIsNewer(driver) => "compat" \in Listed("00-compat")
ChmodDone  == Did(Chmod) /\ "failed" \in Range(modes) => modes["nvidia-caps"] \in {"755", "refused"}

DoneInv == SymlinksDone /\ ParamsDone /\ CacheDone /\ CompatDone /\ ChmodDone

\* The links that are not to be made any more are made.
SoLink == <<<<LibDir[driver], "so">>, <<"soname">>>>
SonameLink == <<<<LibDir[driver], "soname">>, <<"lib", driver>>>>

Left(t, l, so, soname, both) ==
  \/ t = IF both THEN <<so, soname>> ELSE <<so>>
  \/ both /\ t = <<soname>> /\ l[so[1]] = so[2]
  \/ /\ t = <<>> /\ l[so[1]] = so[2]
     /\ both => l[soname[1]] = soname[2]

LinksInv == Symlinks \in hooks => Left(todo, links, SoLink, SonameLink, site.hostSoname)

\* What drop-in files can list, in this start and before.
DropInInv ==
  /\ Listed("00-compat") \subseteq {"compat"}
  /\ "compat" \in Listed("00-compat") => \E i \in DOMAIN started : CompatIsNewer(started[i])
  /\ Listed("00-nvcr") \subseteq LibDirs
  /\ Listed("zz-nvcr") \subseteq SystemSearchPaths(site.debian)
  /\ pc = "compat-write" => Len(confd["00-compat"]) > 0 /\ confd["00-compat"][Len(confd["00-compat"])] = {}
                            /\ ContainerForwardCompatDir(driver) = {"compat"}
  /\ pc = "nvcr-write" => Len(confd["00-nvcr"]) > 0 /\ confd["00-nvcr"][Len(confd["00-nvcr"])] = {}
  /\ pc = "zz-write" => Len(confd["zz-nvcr"]) > 0 /\ confd["zz-nvcr"][Len(confd["zz-nvcr"])] = {}

\* update-ldcache lists the directory of the driver, unless it is listed.
ListInv ==
  /\ dirs \subseteq {LibDir[driver]}
  /\ pc \in LdSteps \ ({"reexec", "exec"} \cup Listing) => dirs = {LibDir[driver]}
  /\ pc \in {"nvcr", "nvcr-write"} =>
       /\ dirs \cap SystemSearchPaths(site.debian) = {}
       /\ top = "include" => dirs \cap Listed("00-nvcr") = {}
  /\ top = "absent" \/ pc = "include" => confd["00-nvcr"] = <<>>
  /\ top = "absent" => pc \notin {"include", "filter", "nvcr", "nvcr-write", "zz", "zz-write", "musl", "exec"}
  /\ top = "include" /\ (pc \in Listing \cup {"exec"} \/ Did(LDCache)) =>
       LibDir[driver] \in SystemSearchPaths(site.debian) \cup Listed("00-nvcr")
  /\ pc \in {"musl", "exec"} \/ Did(LDCache) => SystemSearchPaths(site.debian) \subseteq Listed("zz-nvcr")

\* What glibc finds, musl finds, unless a start died in between.
MuslInv ==
  site.musl =>
    /\ Listed("00-nvcr") \subseteq path \cup torn \cup (IF pc \in Listing THEN dirs ELSE {})
    /\ pc \in Listing => LibDir[driver] \in dirs \cup SystemSearchPaths(site.debian) \cup path \cup torn
    /\ pc = "exec" \/ Did(LDCache) => LibDir[driver] \in path \cup torn

HooksInv ==
  /\ TypeOK /\ PhaseInv /\ ScratchInv /\ DoneInv /\ LinksInv /\ DropInInv /\ ListInv
  /\ MuslInv /\ DirectoriesListedOnce
----------------------------------------------------------------------------
(* The steps, action by action *)

\* The parts of CreateLink and ChmodFolders that do not fail, and every failure.
LinkKept ==
  /\ At(Symlinks) /\ Symlinks \in site.supported /\ todo # <<>>
  /\ links[todo[1][1]] = todo[1][2]
  /\ todo' = Tail(todo)
  /\ UNCHANGED <<site, driver, spec, hooks, pc, dirs, rootfs, modes, params, started, torn>>

LinkRemoved ==
  /\ At(Symlinks) /\ Symlinks \in site.supported /\ todo # <<>>
  /\ links[todo[1][1]] # todo[1][2]
  /\ links' = [links EXCEPT ![todo[1][1]] = <<"absent">>]
  /\ pc' = "symlink"
  /\ UNCHANGED <<site, driver, spec, hooks, todo, dirs, top, confd, path, cache, scratch, modes, params, started, torn>>

Chmodded ==
  /\ At(Chmod) /\ Chmod \in site.supported
  /\ modes' \in [Folder -> FileMode]
  /\ "failed" \in Range(modes') => modes'["nvidia-caps"] \in {"755", "refused"}
  /\ Done(Chmod)
  /\ UNCHANGED <<site, driver, spec, todo, dirs, rootfs, params, started, torn>>

Failing == pc \notin {"stopped", "running"} /\ Fail

\* createLink leaves a correct link, removes a wrong one, or fails on a directory.
LEMMA LinkSplit == ASSUME CreateLink PROVE LinkKept \/ LinkRemoved \/ Failing
<1>1. CASE links[todo[1][1]] = todo[1][2] /\ todo' = Tail(todo) /\ UNCHANGED <<links, hooks, pc, dirs, modes, params, torn>>
  BY <1>1 DEF CreateLink, LinkKept, rootfs
<1>2. CASE /\ links[todo[1][1]] \notin {todo[1][2], <<"dir">>}
           /\ links' = [links EXCEPT ![todo[1][1]] = <<"absent">>]
           /\ pc' = "symlink"
           /\ UNCHANGED <<hooks, todo, dirs, modes, params, torn>>
  BY <1>2 DEF CreateLink, LinkRemoved
<1>3. CASE links[todo[1][1]] = <<"dir">> /\ Fail
  BY <1>3 DEF CreateLink, Failing, At
<1> QED
  BY <1>1, <1>2, <1>3 DEF CreateLink

\* chmod ends with the modes set, or fails on the last of its paths.
LEMMA ChmodSplit == ASSUME ChmodFolders PROVE Chmodded \/ Failing
<1>1. PICK dev \in [Folder -> {"755", "other", "absent"}] :
        \E result \in [GetPaths(dev) -> {"755", "refused", "failed"}] :
          IF GetPaths(dev) # {} /\ result[LastOf(GetPaths(dev))] = "failed"
          THEN Fail
          ELSE /\ modes' = [f \in Folder |-> IF f \in GetPaths(dev) THEN result[f] ELSE dev[f]]
               /\ Done(Chmod)
               /\ UNCHANGED <<todo, dirs, params, torn>>
  BY DEF ChmodFolders
<1>2. PICK result \in [GetPaths(dev) -> {"755", "refused", "failed"}] :
          IF GetPaths(dev) # {} /\ result[LastOf(GetPaths(dev))] = "failed"
          THEN Fail
          ELSE /\ modes' = [f \in Folder |-> IF f \in GetPaths(dev) THEN result[f] ELSE dev[f]]
               /\ Done(Chmod)
               /\ UNCHANGED <<todo, dirs, params, torn>>
  BY <1>1
<1>3. CASE Fail
  BY <1>3 DEF ChmodFolders, At, Failing
<1>4. CASE ~(GetPaths(dev) # {} /\ result[LastOf(GetPaths(dev))] = "failed")
  <2>1. modes' = [f \in Folder |-> IF f \in GetPaths(dev) THEN result[f] ELSE dev[f]]
    BY <1>2, <1>4
  <2>2. modes' \in [Folder -> FileMode]
    BY <2>1 DEF GetPaths, FileMode
  <2>3. ASSUME "failed" \in Range(modes') PROVE modes'["nvidia-caps"] \in {"755", "refused"}
    <3>1. PICK f \in Folder : modes'[f] = "failed"
      BY <2>2, <2>3 DEF Range
    <3>2. f \in GetPaths(dev) /\ result[f] = "failed"
      BY <3>1, <2>1, <1>1
    <3>3. "nvidia-caps" \in GetPaths(dev) /\ result["nvidia-caps"] # "failed"
      BY <3>2, <1>4 DEF LastOf, GetPaths, Folder
    <3> QED
      BY <3>3, <2>1, <1>2 DEF Folder
  <2> QED
    BY <1>2, <1>4, <2>2, <2>3 DEF ChmodFolders, Chmodded
<1> QED
  BY <1>2, <1>3, <1>4

\* The steps of the specification, with createLink and chmod split into their outcomes.
LEMMA NextSplit ==
  ASSUME [Next]_vars
  PROVE  \/ UpgradeDriver \/ Regenerate \/ Start \/ Running \/ Stop \/ Unsupported
         \/ Failing \/ LinkKept \/ LinkRemoved \/ Symlink \/ LinksDone \/ CompatStart \/ CompatWrite
         \/ UpdateLdcache \/ NewFromArgs \/ PrepareRoot \/ PivotRoot \/ EnsureLdsoconfFile \/ WriteInclude \/ FilterDirectories
         \/ CreateDropIn \/ MuslPathFile \/ ExecLdconfig \/ DisableDeviceNodeModification \/ CreateParamsFile \/ Chmodded
         \/ UNCHANGED vars
  BY LinkSplit, ChmodSplit DEF Next, Die, Failing


----------------------------------------------------------------------------
(* Drop-in files, hooks and links *)

\* CreateTemp and WriteDirs on the files with one prefix: an empty file lists nothing,
\* and writing the last file, which is empty, adds to what is listed.
LEMMA NewFileLists ==
  ASSUME NEW s \in Seq(SUBSET Dir)
  PROVE  /\ Append(s, {}) \in Seq(SUBSET Dir) /\ Lists(Append(s, {})) = Lists(s)
         /\ Len(Append(s, {})) > 0 /\ Append(s, {})[Len(Append(s, {}))] = {}
<1>1. /\ Append(s, {}) \in Seq(SUBSET Dir) /\ Len(Append(s, {})) = Len(s) + 1
      /\ \A i \in 1 .. Len(s) : Append(s, {})[i] = s[i]
      /\ Append(s, {})[Len(s) + 1] = {}
  OBVIOUS
<1>2. Lists(Append(s, {})) = Lists(s)
  BY <1>1 DEF Lists, Range
<1> QED
  BY <1>1, <1>2

\* Writing the new, empty last file adds its directories and nothing else.
LEMMA WrittenFileLists ==
  ASSUME NEW s \in Seq(SUBSET Dir), Len(s) > 0, s[Len(s)] = {}, NEW d \in SUBSET Dir,
         NEW t, t = [s EXCEPT ![Len(s)] = d]
  PROVE  t \in Seq(SUBSET Dir) /\ Lists(t) = Lists(s) \cup d
<1>1. /\ t \in Seq(SUBSET Dir) /\ Len(t) = Len(s) /\ t[Len(s)] = d
      /\ \A i \in 1 .. Len(s) : i # Len(s) => t[i] = s[i]
  OBVIOUS
<1>2. Lists(t) = Lists(s) \cup d
  BY <1>1 DEF Lists, Range
<1> QED
  BY <1>1, <1>2

\* Nothing is listed by no file.
LEMMA NoFileLists == Lists(<<>>) = {}
  BY DEF Lists, Range

\* What one file lists is listed.
LEMMA ListsFile ==
  ASSUME NEW s \in Seq(SUBSET Dir), NEW i \in DOMAIN s
  PROVE  s[i] \subseteq Lists(s)
  BY DEF Lists, Range

\* The constants of the code.
LEMMA HookNames ==
  /\ HookName = {Symlinks, Compat, LDCache, Params, Chmod}
  /\ Symlinks # Compat /\ Symlinks # LDCache /\ Symlinks # Params /\ Symlinks # Chmod
  /\ Compat # LDCache /\ Compat # Params /\ Compat # Chmod
  /\ LDCache # Params /\ LDCache # Chmod /\ Params # Chmod
  BY DEF HookName, Symlinks, Compat, LDCache, Params, Chmod

\* The order in which the hooks are in the spec.
LEMMA Positions ==
  /\ Position(Symlinks) = 1 /\ Position(Compat) = 2 /\ Position(LDCache) = 3
  /\ Position(Params) = 4 /\ Position(Chmod) = 5
  BY DEF Position, HookName, Symlinks, Compat, LDCache, Params, Chmod

\* The current hook comes first: an earlier one is done.
LEMMA AtFirst ==
  ASSUME NEW h, At(h)
  PROVE  /\ pc = "next" /\ h \in hooks
         /\ h = LDCache => Compat \notin hooks
  BY Positions DEF At

\* The two links, and what is known of them.
LEMMA LinksOfFacts ==
  ASSUME TypeOK
  PROVE  /\ LinksOf(driver) = IF site.hostSoname THEN <<SoLink, SonameLink>> ELSE <<SoLink>>
         /\ SoLink \in (LibDirs \X LinkName) \X LinkValue
         /\ SonameLink \in (LibDirs \X LinkName) \X LinkValue
         /\ SoLink[1] \in LibDirs \X LinkName /\ SonameLink[1] \in LibDirs \X LinkName
         /\ SoLink[2] \in LinkValue /\ SonameLink[2] \in LinkValue
         /\ SoLink[1] # SonameLink[1]
         /\ <<"absent">> \in LinkValue
  BY HooksAssumption DEF TypeOK, LinksOf, SoLink, SonameLink, LibDirs, LinkName, LinkValue

\* The same for the folder ld.so.conf.d.
LEMMA TempFacts ==
  ASSUME confd \in [Prefix -> Seq(SUBSET Dir)], NEW p \in Prefix, CreateTemp(p)
  PROVE  /\ confd' \in [Prefix -> Seq(SUBSET Dir)]
         /\ confd'[p] = Append(confd[p], {})
         /\ \A q \in Prefix \ {p} : confd'[q] = confd[q]
         /\ \A q \in Prefix : Lists(confd'[q]) = Lists(confd[q])
         /\ Len(confd'[p]) > 0 /\ confd'[p][Len(confd'[p])] = {}
<1>1. confd[p] \in Seq(SUBSET Dir)
  OBVIOUS
<1>2. Append(confd[p], {}) \in Seq(SUBSET Dir)
  BY <1>1
<1>3. confd' = [confd EXCEPT ![p] = Append(confd[p], {})]
  BY DEF CreateTemp
<1>4. confd'[p] = Append(confd[p], {}) /\ \A q \in Prefix \ {p} : confd'[q] = confd[q]
  BY <1>3
<1>5. confd' \in [Prefix -> Seq(SUBSET Dir)]
  BY <1>2, <1>3
<1> QED
  BY <1>1, <1>4, <1>5, NewFileLists

\* The directories are written to the last file of one prefix and leave the other prefixes alone.
LEMMA WriteFacts ==
  ASSUME confd \in [Prefix -> Seq(SUBSET Dir)], NEW p \in Prefix, NEW d \in SUBSET Dir,
         Len(confd[p]) > 0, confd[p][Len(confd[p])] = {}, WriteDirs(p, d)
  PROVE  /\ confd' \in [Prefix -> Seq(SUBSET Dir)]
         /\ confd'[p] = [confd[p] EXCEPT ![Len(confd[p])] = d]
         /\ \A q \in Prefix \ {p} : confd'[q] = confd[q] /\ Lists(confd'[q]) = Lists(confd[q])
         /\ Lists(confd'[p]) = Lists(confd[p]) \cup d
<1> DEFINE t == [confd[p] EXCEPT ![Len(confd[p])] = d]
<1>1. confd[p] \in Seq(SUBSET Dir)
  OBVIOUS
<1>2. t \in Seq(SUBSET Dir) /\ Lists(t) = Lists(confd[p]) \cup d
  BY <1>1, WrittenFileLists
<1>3. confd' = [confd EXCEPT ![p] = t]
  BY DEF WriteDirs
<1> HIDE DEF t
<1>4. confd'[p] = t /\ \A q \in Prefix \ {p} : confd'[q] = confd[q]
  BY <1>3
<1>5. confd' \in [Prefix -> Seq(SUBSET Dir)]
  BY <1>2, <1>3
<1> QED
  BY <1>2, <1>4, <1>5 DEF t

\* The system search paths are directories of the model.
LEMMA SearchPathsAreDirs == ASSUME NEW d \in BOOLEAN PROVE SystemSearchPaths(d) \subseteq Dir
  BY DEF SystemSearchPaths, Dir

\* What is read is a sequence of sets of directories.
LEMMA ReadOrderType ==
  ASSUME TypeOK
  PROVE  ReadOrder \in Seq(SUBSET Dir)
<1> DEFINE system == SystemSearchPaths(site.hostDebian)
<1>1. system \subseteq Dir /\ site.own \subseteq Dir
  BY SearchPathsAreDirs, HooksAssumption DEF TypeOK, Site, Dir
<1>2. \A p \in Prefix : Listed(p) \subseteq Dir
  BY DEF TypeOK, Listed, Lists, Range
<1>3. Listed("00-compat") \subseteq Dir /\ Listed("00-nvcr") \subseteq Dir /\ Listed("zz-nvcr") \subseteq Dir
  BY <1>2 DEF Prefix
<1> HIDE DEF system
<1>4. CASE top = "include"
  <2>1. ReadOrder = <<Listed("00-compat"), Listed("00-nvcr"), site.own, Listed("zz-nvcr"), system>>
    BY <1>4 DEF ReadOrder, system
  <2> QED
    BY <2>1, <1>1, <1>3
<1>5. CASE top = "plain"
  <2>1. ReadOrder = <<site.own, system>>
    BY <1>5 DEF ReadOrder, system
  <2> QED
    BY <2>1, <1>1
<1>6. CASE top \notin {"include", "plain"}
  <2>1. ReadOrder = <<system>>
    BY <1>6 DEF ReadOrder, system
  <2> QED
    BY <2>1, <1>1
<1> QED
  BY <1>4, <1>5, <1>6

\* create-symlinks is given a sequence of links.
LEMMA LinksOfType ==
  ASSUME TypeOK
  PROVE  LinksOf(driver) \in Seq((LibDirs \X LinkName) \X LinkValue)
<1> DEFINE Link == (LibDirs \X LinkName) \X LinkValue
<1>1. SoLink \in Link /\ SonameLink \in Link
  BY LinksOfFacts
<1> HIDE DEF Link
<1>2. <<SoLink, SonameLink>> \in Seq(Link) /\ <<SoLink>> \in Seq(Link)
  BY <1>1
<1>3. LinksOf(driver) \in Seq(Link)
  BY <1>2, LinksOfFacts
<1> QED
  BY <1>3 DEF Link

\* The scratch folders of a start are those its hooks make.
LEMMA StepScratch ==
  ASSUME HooksInv, [Next]_vars
  PROVE  (scratch \in 0 .. (2 * Len(started)) /\ ScratchInv)'
<1> USE DEF HooksInv, TypeOK, PhaseInv, ScratchInv, LdSteps, AfterRoot
<1>1. CASE UpgradeDriver
  BY <1>1, Positions, HookNames DEF UpgradeDriver, rootfs
<1>2. CASE Regenerate
  BY <1>2, Positions, HookNames DEF Regenerate, rootfs
<1>3. CASE Start
  BY <1>3, Positions, HookNames DEF Start, rootfs
<1>4. CASE Running
  BY <1>4, Positions, HookNames DEF Running, rootfs
<1>5. CASE Stop
  BY <1>5, Positions, HookNames DEF Stop, Unmount, rootfs
<1>6. CASE Unsupported
  BY <1>6, Positions, HookNames DEF Unsupported, At, Done, rootfs
<1>7. CASE Failing
  BY <1>7, Positions, HookNames DEF Failing, Fail, Unmount, rootfs
<1>8. CASE LinkKept
  BY <1>8, Positions, HookNames DEF LinkKept, At, rootfs
<1>9. CASE LinkRemoved
  BY <1>9, Positions, HookNames DEF LinkRemoved, At, rootfs
<1>10. CASE Symlink
  BY <1>10, Positions, HookNames DEF Symlink, rootfs
<1>11. CASE LinksDone
  BY <1>11, Positions, HookNames DEF LinksDone, At, Done, rootfs
<1>12. CASE CompatStart
  BY <1>12, Positions, HookNames DEF CompatStart, At, Done, CreateTemp, rootfs
<1>13. CASE CompatWrite
  BY <1>13, Positions, HookNames DEF CompatWrite, Done, WriteDirs, rootfs
<1>14. CASE UpdateLdcache
  BY <1>14, Positions, HookNames DEF UpdateLdcache, At, rootfs
<1>15. CASE NewFromArgs
  BY <1>15, Positions, HookNames DEF NewFromArgs, rootfs
<1>16. CASE PrepareRoot
  BY <1>16, Positions, HookNames DEF PrepareRoot, MountLdconfig, rootfs
<1>17. CASE PivotRoot
  BY <1>17, Positions, HookNames DEF PivotRoot, rootfs
<1>18. CASE EnsureLdsoconfFile
  BY <1>18, Positions, HookNames DEF EnsureLdsoconfFile, rootfs
<1>19. CASE WriteInclude
  BY <1>19, Positions, HookNames DEF WriteInclude, rootfs
<1>20. CASE FilterDirectories
  BY <1>20, Positions, HookNames DEF FilterDirectories, rootfs
<1>21. CASE CreateDropIn
  BY <1>21, Positions, HookNames DEF CreateDropIn, CreateTemp, WriteDirs, rootfs
<1>22. CASE MuslPathFile
  BY <1>22, Positions, HookNames DEF MuslPathFile, rootfs
<1>23. CASE ExecLdconfig
  BY <1>23, Positions, HookNames DEF ExecLdconfig, Done, rootfs
<1>24. CASE DisableDeviceNodeModification
  BY <1>24, Positions, HookNames DEF DisableDeviceNodeModification, At, Done, rootfs
<1>25. CASE CreateParamsFile
  BY <1>25, Positions, HookNames DEF CreateParamsFile, Done, rootfs
<1>26. CASE Chmodded
  BY <1>26, Positions, HookNames DEF Chmodded, At, Done, rootfs
<1>27. CASE UNCHANGED vars
  BY <1>27, Positions, HookNames DEF vars, rootfs
<1> QED
  BY <1>1, <1>2, <1>3, <1>4, <1>5, <1>6, <1>7, <1>8, <1>9, <1>10, <1>11, <1>12, <1>13,
     <1>14, <1>15, <1>16, <1>17, <1>18, <1>19, <1>20, <1>21, <1>22, <1>23, <1>24, <1>25, <1>26, <1>27, NextSplit

\* The variables keep their types.
LEMMA StepType ==
  ASSUME HooksInv, [Next]_vars
  PROVE  TypeOK'
<1> USE DEF HooksInv, TypeOK, Step
<1>1. CASE UpgradeDriver
  BY <1>1, HooksAssumption DEF UpgradeDriver, rootfs
<1>2. CASE Regenerate
  BY <1>2, HooksAssumption DEF Regenerate, rootfs
<1>3. CASE Start
  <2>1. LinksOf(driver) \in Seq((LibDirs \X LinkName) \X LinkValue)
    BY LinksOfType
  <2>2. HooksOf(spec) \subseteq HookName
    BY DEF HooksOf
  <2>3. started' \in Seq(Version) /\ Len(started') <= MaxStarts
    BY <1>3, HooksAssumption DEF Start
  <2> QED
    BY <1>3, <2>1, <2>2, <2>3, StepScratch DEF Start, rootfs
<1>4. CASE Running
  BY <1>4, HooksAssumption DEF Running, rootfs
<1>5. CASE Stop
  <2>1. modes' \in [Folder -> FileMode] /\ params' \in {"absent", "0", "1"}
    BY <1>5, HooksAssumption DEF Stop, Unmount, FileMode, Site
  <2> QED
    BY <1>5, <2>1, HooksAssumption DEF Stop, Unmount, rootfs
<1>6. CASE Unsupported
  BY <1>6, HooksAssumption DEF Unsupported, At, Done, rootfs
<1>7. CASE Failing
  <2>1. modes' \in [Folder -> FileMode] /\ params' \in {"absent", "0", "1"}
    BY <1>7, HooksAssumption DEF Failing, Fail, Unmount, FileMode, Site
  <2> QED
    BY <1>7, <2>1, HooksAssumption DEF Failing, Fail, Unmount, rootfs
<1>8. CASE LinkKept
  BY <1>8, HooksAssumption DEF LinkKept, At, rootfs
<1>9. CASE LinkRemoved
  <2>1. links' \in [LibDirs \X LinkName -> LinkValue]
    BY <1>9, LinksOfFacts DEF LinkRemoved
  <2> QED
    BY <1>9, <2>1 DEF LinkRemoved
<1>10. CASE Symlink
  <2>1. todo # <<>>
    BY <1>10 DEF PhaseInv, Symlink
  <2>2. todo[1] \in (LibDirs \X LinkName) \X LinkValue /\ Tail(todo) \in Seq((LibDirs \X LinkName) \X LinkValue)
    BY <2>1
  <2>3. todo[1][2] \in LinkValue
    BY <2>2
  <2>4. links' \in [LibDirs \X LinkName -> LinkValue]
    BY <1>10, <2>3 DEF Symlink
  <2> QED
    BY <1>10, <2>2, <2>4 DEF Symlink
<1>11. CASE LinksDone
  BY <1>11, HooksAssumption DEF LinksDone, At, Done, rootfs
<1>12. CASE CompatStart
  <2>1. confd' \in [Prefix -> Seq(SUBSET Dir)]
    BY <1>12, TempFacts DEF CompatStart, Prefix
  <2> QED
    BY <1>12, <2>1 DEF CompatStart, At, Done
<1>13. CASE CompatWrite
  <2>1. ContainerForwardCompatDir(spec.version) \subseteq Dir
    BY DEF ContainerForwardCompatDir, Dir
  <2>2. confd' \in [Prefix -> Seq(SUBSET Dir)]
    BY <1>13, <2>1, WriteFacts DEF CompatWrite, Prefix, DropInInv
  <2> QED
    BY <1>13, <2>2 DEF CompatWrite, Done
<1>14. CASE UpdateLdcache
  BY <1>14, HooksAssumption DEF UpdateLdcache, At, rootfs
<1>15. CASE NewFromArgs
  BY <1>15, HooksAssumption DEF NewFromArgs, rootfs
<1>16. CASE PrepareRoot
  BY <1>16, StepScratch DEF PrepareRoot
<1>17. CASE PivotRoot
  BY <1>17, HooksAssumption DEF PivotRoot, rootfs
<1>18. CASE EnsureLdsoconfFile
  BY <1>18, HooksAssumption DEF EnsureLdsoconfFile, rootfs
<1>19. CASE WriteInclude
  BY <1>19, HooksAssumption DEF WriteInclude, rootfs
<1>20. CASE FilterDirectories
  BY <1>20, HooksAssumption DEF FilterDirectories, rootfs
<1>21. CASE CreateDropIn
  <2>1. SystemSearchPaths(site.debian) \subseteq Dir
    BY SearchPathsAreDirs, HooksAssumption DEF Site
  <2>2. confd' \in [Prefix -> Seq(SUBSET Dir)]
    BY <1>21, <2>1, TempFacts, WriteFacts DEF CreateDropIn, Prefix, DropInInv
  <2> QED
    BY <1>21, <2>2 DEF CreateDropIn
<1>22. CASE MuslPathFile
  <2>1. SystemSearchPaths(site.debian) \subseteq Dir
    BY SearchPathsAreDirs, HooksAssumption DEF Site
  <2> QED
    BY <1>22, <2>1 DEF MuslPathFile
<1>23. CASE ExecLdconfig
  <2>1. cache' \in Seq(SUBSET Dir)
    BY <1>23, ReadOrderType DEF ExecLdconfig
  <2>2. <<"lib", driver>> \in LinkValue
    BY LinksOfFacts DEF SonameLink
  <2>3. links' \in [LibDirs \X LinkName -> LinkValue]
    BY <1>23, <2>2 DEF ExecLdconfig
  <2> QED
    BY <1>23, <2>1, <2>3 DEF ExecLdconfig, Done
<1>24. CASE DisableDeviceNodeModification
  BY <1>24, StepScratch DEF DisableDeviceNodeModification, Done
<1>25. CASE CreateParamsFile
  BY <1>25 DEF CreateParamsFile, Done, rootfs, ModifiedParams
<1>26. CASE Chmodded
  BY <1>26, HooksAssumption DEF Chmodded, At, Done, rootfs
<1>27. CASE UNCHANGED vars
  BY <1>27, HooksAssumption DEF vars, rootfs
<1> QED
  BY <1>1, <1>2, <1>3, <1>4, <1>5, <1>6, <1>7, <1>8, <1>9, <1>10, <1>11, <1>12, <1>13,
     <1>14, <1>15, <1>16, <1>17, <1>18, <1>19, <1>20, <1>21, <1>22, <1>23, <1>24, <1>25, <1>26, <1>27, NextSplit

\* A start stays one of its driver, and its hooks are done in their order.
LEMMA StepPhase ==
  ASSUME HooksInv, [Next]_vars
  PROVE  PhaseInv'
<1> USE DEF HooksInv, TypeOK, PhaseInv, LdSteps, ModifiedParams
<1>1. CASE UpgradeDriver
  BY <1>1, Positions, HookNames DEF UpgradeDriver, rootfs
<1>2. CASE Regenerate
  BY <1>2, Positions, HookNames DEF Regenerate, rootfs
<1>3. CASE Start
  BY <1>3, Positions, HookNames DEF Start, rootfs
<1>4. CASE Running
  BY <1>4, Positions, HookNames DEF Running, rootfs
<1>5. CASE Stop
  BY <1>5, Positions, HookNames DEF Stop, Unmount, rootfs
<1>6. CASE Unsupported
  BY <1>6, Positions, HookNames DEF Unsupported, At, Done, rootfs
<1>7. CASE Failing
  BY <1>7, Positions, HookNames DEF Failing, Fail, Unmount, rootfs
<1>8. CASE LinkKept
  BY <1>8, Positions, HookNames DEF LinkKept, At, rootfs
<1>9. CASE LinkRemoved
  BY <1>9, Positions, HookNames DEF LinkRemoved, At, rootfs
<1>10. CASE Symlink
  BY <1>10, Positions, HookNames DEF Symlink, rootfs
<1>11. CASE LinksDone
  BY <1>11, Positions, HookNames DEF LinksDone, At, Done, rootfs
<1>12. CASE CompatStart
  BY <1>12, Positions, HookNames DEF CompatStart, At, Done, CreateTemp, rootfs
<1>13. CASE CompatWrite
  BY <1>13, Positions, HookNames DEF CompatWrite, Done, WriteDirs, rootfs
<1>14. CASE UpdateLdcache
  BY <1>14, Positions, HookNames DEF UpdateLdcache, At, rootfs
<1>15. CASE NewFromArgs
  BY <1>15, Positions, HookNames DEF NewFromArgs, rootfs
<1>16. CASE PrepareRoot
  BY <1>16, Positions, HookNames DEF PrepareRoot, MountLdconfig, rootfs
<1>17. CASE PivotRoot
  BY <1>17, Positions, HookNames DEF PivotRoot, rootfs
<1>18. CASE EnsureLdsoconfFile
  BY <1>18, Positions, HookNames DEF EnsureLdsoconfFile, rootfs
<1>19. CASE WriteInclude
  BY <1>19, Positions, HookNames DEF WriteInclude, rootfs
<1>20. CASE FilterDirectories
  BY <1>20, Positions, HookNames DEF FilterDirectories, rootfs
<1>21. CASE CreateDropIn
  BY <1>21, Positions, HookNames DEF CreateDropIn, CreateTemp, WriteDirs, rootfs
<1>22. CASE MuslPathFile
  BY <1>22, Positions, HookNames DEF MuslPathFile, rootfs
<1>23. CASE ExecLdconfig
  BY <1>23, Positions, HookNames DEF ExecLdconfig, Done, rootfs
<1>24. CASE DisableDeviceNodeModification
  BY <1>24, Positions, HookNames DEF DisableDeviceNodeModification, At, Done, rootfs
<1>25. CASE CreateParamsFile
  BY <1>25, Positions, HookNames DEF CreateParamsFile, Done, rootfs
<1>26. CASE Chmodded
  BY <1>26, Positions, HookNames DEF Chmodded, At, Done, rootfs
<1>27. CASE UNCHANGED vars
  BY <1>27, Positions, HookNames DEF vars, rootfs
<1> QED
  BY <1>1, <1>2, <1>3, <1>4, <1>5, <1>6, <1>7, <1>8, <1>9, <1>10, <1>11, <1>12, <1>13,
     <1>14, <1>15, <1>16, <1>17, <1>18, <1>19, <1>20, <1>21, <1>22, <1>23, <1>24, <1>25, <1>26, <1>27, NextSplit

\* Which action changes what.
LEMMA Changes ==
  ASSUME [Next]_vars
  PROVE  /\ site' = site
         /\ links' = links \/ LinkRemoved \/ Symlink \/ ExecLdconfig
         /\ top' = top \/ EnsureLdsoconfFile \/ WriteInclude
         /\ confd' = confd \/ CompatStart \/ CompatWrite \/ CreateDropIn
         /\ cache' = cache \/ ExecLdconfig
         /\ path' = path \/ MuslPathFile
         /\ params' = params \/ Stop \/ Failing \/ CreateParamsFile
         /\ modes' = modes \/ Stop \/ Failing \/ Chmodded
         /\ started' = started \/ Start
         /\ torn' = torn \/ Failing
         /\ dirs' = dirs \/ NewFromArgs \/ FilterDirectories \/ ExecLdconfig \/ Failing
         /\ todo' = todo \/ Start \/ Running \/ LinkKept \/ Symlink \/ Failing
         /\ driver' = driver \/ UpgradeDriver
         /\ spec' = spec \/ Regenerate
         /\ hooks' \subseteq hooks \/ Start
<1>1. CASE UpgradeDriver
  BY <1>1 DEF UpgradeDriver, rootfs
<1>2. CASE Regenerate
  BY <1>2 DEF Regenerate, rootfs
<1>3. CASE Start
  BY <1>3 DEF Start, rootfs
<1>4. CASE Running
  BY <1>4 DEF Running, rootfs
<1>5. CASE Stop
  BY <1>5 DEF Stop, Unmount, rootfs
<1>6. CASE Unsupported
  BY <1>6 DEF Unsupported, At, Done, rootfs
<1>7. CASE Failing
  BY <1>7 DEF Failing, Fail, Unmount, rootfs
<1>8. CASE LinkKept
  BY <1>8 DEF LinkKept, At, rootfs
<1>9. CASE LinkRemoved
  BY <1>9 DEF LinkRemoved, At, rootfs
<1>10. CASE Symlink
  BY <1>10 DEF Symlink, rootfs
<1>11. CASE LinksDone
  BY <1>11 DEF LinksDone, At, Done, rootfs
<1>12. CASE CompatStart
  BY <1>12 DEF CompatStart, At, Done, CreateTemp, rootfs
<1>13. CASE CompatWrite
  BY <1>13 DEF CompatWrite, Done, WriteDirs, rootfs
<1>14. CASE UpdateLdcache
  BY <1>14 DEF UpdateLdcache, At, rootfs
<1>15. CASE NewFromArgs
  BY <1>15 DEF NewFromArgs, rootfs
<1>16. CASE PrepareRoot
  BY <1>16 DEF PrepareRoot, MountLdconfig, rootfs
<1>17. CASE PivotRoot
  BY <1>17 DEF PivotRoot, rootfs
<1>18. CASE EnsureLdsoconfFile
  BY <1>18 DEF EnsureLdsoconfFile, rootfs
<1>19. CASE WriteInclude
  BY <1>19 DEF WriteInclude, rootfs
<1>20. CASE FilterDirectories
  BY <1>20 DEF FilterDirectories, rootfs
<1>21. CASE CreateDropIn
  BY <1>21 DEF CreateDropIn, CreateTemp, WriteDirs, rootfs
<1>22. CASE MuslPathFile
  BY <1>22 DEF MuslPathFile, rootfs
<1>23. CASE ExecLdconfig
  BY <1>23 DEF ExecLdconfig, Done, rootfs
<1>24. CASE DisableDeviceNodeModification
  BY <1>24 DEF DisableDeviceNodeModification, At, Done, rootfs
<1>25. CASE CreateParamsFile
  BY <1>25 DEF CreateParamsFile, Done, rootfs
<1>26. CASE Chmodded
  BY <1>26 DEF Chmodded, At, Done, rootfs
<1>27. CASE UNCHANGED vars
  BY <1>27 DEF vars, rootfs
<1> QED
  BY <1>1, <1>2, <1>3, <1>4, <1>5, <1>6, <1>7, <1>8, <1>9, <1>10, <1>11, <1>12, <1>13,
     <1>14, <1>15, <1>16, <1>17, <1>18, <1>19, <1>20, <1>21, <1>22, <1>23, <1>24, <1>25, <1>26, <1>27, NextSplit

\* Which action leads to which step.
LEMMA Arrivals ==
  ASSUME [Next]_vars, ~UNCHANGED vars
  PROVE  /\ pc' = "compat-write" => CompatStart
         /\ pc' = "root" => NewFromArgs
         /\ pc' = "pivot" => PrepareRoot
         /\ pc' = "ensure" => PivotRoot
         /\ pc' = "include" => EnsureLdsoconfFile
         /\ pc' = "filter" => EnsureLdsoconfFile \/ WriteInclude
         /\ pc' = "nvcr" => FilterDirectories
         /\ pc' \in {"nvcr-write", "zz-write", "musl"} => CreateDropIn
         /\ pc' = "zz" => CreateDropIn \/ FilterDirectories
         /\ pc' = "exec" => MuslPathFile
<1>1. CASE UpgradeDriver
  BY <1>1 DEF UpgradeDriver, rootfs
<1>2. CASE Regenerate
  BY <1>2 DEF Regenerate, rootfs
<1>3. CASE Start
  BY <1>3 DEF Start, rootfs
<1>4. CASE Running
  BY <1>4 DEF Running, rootfs
<1>5. CASE Stop
  BY <1>5 DEF Stop, Unmount, rootfs
<1>6. CASE Unsupported
  BY <1>6 DEF Unsupported, At, Done, rootfs
<1>7. CASE Failing
  BY <1>7 DEF Failing, Fail, Unmount, rootfs
<1>8. CASE LinkKept
  BY <1>8 DEF LinkKept, At, rootfs
<1>9. CASE LinkRemoved
  BY <1>9 DEF LinkRemoved, At, rootfs
<1>10. CASE Symlink
  BY <1>10 DEF Symlink, rootfs
<1>11. CASE LinksDone
  BY <1>11 DEF LinksDone, At, Done, rootfs
<1>12. CASE CompatStart
  BY <1>12 DEF CompatStart, At, Done, CreateTemp, rootfs
<1>13. CASE CompatWrite
  BY <1>13 DEF CompatWrite, Done, WriteDirs, rootfs
<1>14. CASE UpdateLdcache
  BY <1>14 DEF UpdateLdcache, At, rootfs
<1>15. CASE NewFromArgs
  BY <1>15 DEF NewFromArgs, rootfs
<1>16. CASE PrepareRoot
  BY <1>16 DEF PrepareRoot, MountLdconfig, rootfs
<1>17. CASE PivotRoot
  BY <1>17 DEF PivotRoot, rootfs
<1>18. CASE EnsureLdsoconfFile
  BY <1>18 DEF EnsureLdsoconfFile, rootfs
<1>19. CASE WriteInclude
  BY <1>19 DEF WriteInclude, rootfs
<1>20. CASE FilterDirectories
  BY <1>20 DEF FilterDirectories, rootfs
<1>21. CASE CreateDropIn
  BY <1>21 DEF CreateDropIn, CreateTemp, WriteDirs, rootfs
<1>22. CASE MuslPathFile
  BY <1>22 DEF MuslPathFile, rootfs
<1>23. CASE ExecLdconfig
  BY <1>23 DEF ExecLdconfig, Done, rootfs
<1>24. CASE DisableDeviceNodeModification
  BY <1>24 DEF DisableDeviceNodeModification, At, Done, rootfs
<1>25. CASE CreateParamsFile
  BY <1>25 DEF CreateParamsFile, Done, rootfs
<1>26. CASE Chmodded
  BY <1>26 DEF Chmodded, At, Done, rootfs
<1>27. CASE UNCHANGED vars
  BY <1>27 DEF vars, rootfs
<1> QED
  BY <1>1, <1>2, <1>3, <1>4, <1>5, <1>6, <1>7, <1>8, <1>9, <1>10, <1>11, <1>12, <1>13,
     <1>14, <1>15, <1>16, <1>17, <1>18, <1>19, <1>20, <1>21, <1>22, <1>23, <1>24, <1>25, <1>26, <1>27, NextSplit

\* A hook that has run in this start and had not before is the one that this step ends.
LEMMA Ending ==
  ASSUME HooksInv, [Next]_vars, NEW h \in HookName, Did(h)'
  PROVE  /\ pc # "stopped" /\ driver' = driver /\ spec' = spec
         /\ \/ Did(h)
            \/ h = Symlinks /\ LinksDone
            \/ h = Compat /\ (CompatStart \/ CompatWrite)
            \/ h = LDCache /\ ExecLdconfig
            \/ h = Params /\ (DisableDeviceNodeModification \/ CreateParamsFile)
            \/ h = Chmod /\ Chmodded
<1> USE DEF HooksInv, PhaseInv, Did, Ran
<1>1. CASE UpgradeDriver
  BY <1>1, HookNames DEF UpgradeDriver, rootfs
<1>2. CASE Regenerate
  BY <1>2, HookNames DEF Regenerate, rootfs
<1>3. CASE Start
  BY <1>3, HookNames DEF Start, rootfs
<1>4. CASE Running
  BY <1>4, HookNames DEF Running, rootfs
<1>5. CASE Stop
  BY <1>5, HookNames DEF Stop, Unmount, rootfs
<1>6. CASE Unsupported
  BY <1>6, HookNames DEF Unsupported, At, Done, rootfs
<1>7. CASE Failing
  BY <1>7, HookNames DEF Failing, Fail, Unmount, rootfs
<1>8. CASE LinkKept
  BY <1>8, HookNames DEF LinkKept, At, rootfs
<1>9. CASE LinkRemoved
  BY <1>9, HookNames DEF LinkRemoved, At, rootfs
<1>10. CASE Symlink
  BY <1>10, HookNames DEF Symlink, rootfs
<1>11. CASE LinksDone
  BY <1>11, HookNames DEF LinksDone, At, Done, rootfs
<1>12. CASE CompatStart
  BY <1>12, HookNames DEF CompatStart, At, Done, CreateTemp, rootfs
<1>13. CASE CompatWrite
  BY <1>13, HookNames DEF CompatWrite, Done, WriteDirs, rootfs
<1>14. CASE UpdateLdcache
  BY <1>14, HookNames DEF UpdateLdcache, At, rootfs
<1>15. CASE NewFromArgs
  BY <1>15, HookNames DEF NewFromArgs, rootfs
<1>16. CASE PrepareRoot
  BY <1>16, HookNames DEF PrepareRoot, MountLdconfig, rootfs
<1>17. CASE PivotRoot
  BY <1>17, HookNames DEF PivotRoot, rootfs
<1>18. CASE EnsureLdsoconfFile
  BY <1>18, HookNames DEF EnsureLdsoconfFile, rootfs
<1>19. CASE WriteInclude
  BY <1>19, HookNames DEF WriteInclude, rootfs
<1>20. CASE FilterDirectories
  BY <1>20, HookNames DEF FilterDirectories, rootfs
<1>21. CASE CreateDropIn
  BY <1>21, HookNames DEF CreateDropIn, CreateTemp, WriteDirs, rootfs
<1>22. CASE MuslPathFile
  BY <1>22, HookNames DEF MuslPathFile, rootfs
<1>23. CASE ExecLdconfig
  BY <1>23, HookNames DEF ExecLdconfig, Done, rootfs
<1>24. CASE DisableDeviceNodeModification
  BY <1>24, HookNames DEF DisableDeviceNodeModification, At, Done, rootfs
<1>25. CASE CreateParamsFile
  BY <1>25, HookNames DEF CreateParamsFile, Done, rootfs
<1>26. CASE Chmodded
  BY <1>26, HookNames DEF Chmodded, At, Done, rootfs
<1>27. CASE UNCHANGED vars
  BY <1>27, HookNames DEF vars, rootfs
<1> QED
  BY <1>1, <1>2, <1>3, <1>4, <1>5, <1>6, <1>7, <1>8, <1>9, <1>10, <1>11, <1>12, <1>13,
     <1>14, <1>15, <1>16, <1>17, <1>18, <1>19, <1>20, <1>21, <1>22, <1>23, <1>24, <1>25, <1>26, <1>27, NextSplit

\* How Left changes when ldconfig makes the link of the SONAME, and when the first link is
\* kept, removed or made.
LeftAfter(t, l, so, soname, both) ==
  /\ Left(t, [l EXCEPT ![soname[1]] = soname[2]], so, soname, both)
  /\ t # <<>> =>
       /\ l[t[1][1]] = t[1][2] => Left(Tail(t), l, so, soname, both)
       /\ \A x \in LinkValue : Left(t, [l EXCEPT ![t[1][1]] = x], so, soname, both)
       /\ Left(Tail(t), [l EXCEPT ![t[1][1]] = t[1][2]], so, soname, both)

\* LeftAfter follows from Left: what a step on the first link leaves of the list.
LEMMA LeftFacts ==
  ASSUME NEW l \in [LibDirs \X LinkName -> LinkValue],
         NEW so \in (LibDirs \X LinkName) \X LinkValue,
         NEW soname \in (LibDirs \X LinkName) \X LinkValue, so[1] # soname[1],
         NEW both \in BOOLEAN, NEW t, Left(t, l, so, soname, both)
  PROVE  LeftAfter(t, l, so, soname, both)
<1> USE DEF LeftAfter
<1> DEFINE D == LibDirs \X LinkName
<1> DEFINE V == LinkValue
<1>0. l \in [D -> V] /\ so \in D \X V /\ soname \in D \X V
  OBVIOUS
<1> HIDE DEF D, V
<1>1. so[1] \in D /\ soname[1] \in D /\ so[2] \in V /\ soname[2] \in V
  BY <1>0
<1>2. CASE t = <<so, soname>> /\ both
  <2>1. t # <<>> /\ t[1] = so /\ Tail(t) = <<soname>>
    BY <1>2
  <2> QED
    BY <1>0, <1>1, <1>2, <2>1 DEF Left
<1>3. CASE t = <<so>> /\ ~both
  <2>1. t # <<>> /\ t[1] = so /\ Tail(t) = <<>>
    BY <1>3
  <2> QED
    BY <1>0, <1>1, <1>3, <2>1 DEF Left
<1>4. CASE both /\ t = <<soname>> /\ l[so[1]] = so[2]
  <2>1. t # <<>> /\ t[1] = soname /\ Tail(t) = <<>>
    BY <1>4
  <2> QED
    BY <1>0, <1>1, <1>4, <2>1 DEF Left
<1>5. CASE t = <<>> /\ l[so[1]] = so[2] /\ (both => l[soname[1]] = soname[2])
  BY <1>0, <1>1, <1>5 DEF Left
<1> QED
  BY <1>2, <1>3, <1>4, <1>5 DEF Left

\* All links are made.
LEMMA AllMade ==
  ASSUME TypeOK, NEW l
  PROVE  (\A i \in DOMAIN LinksOf(driver) : l[LinksOf(driver)[i][1]] = LinksOf(driver)[i][2])
         <=> Left(<<>>, l, SoLink, SonameLink, site.hostSoname)
<1>1. CASE site.hostSoname
  <2>1. LinksOf(driver) = <<SoLink, SonameLink>>
    BY <1>1, LinksOfFacts
  <2>2. <<>> # <<SoLink, SonameLink>> /\ <<>> # <<SonameLink>>
    OBVIOUS
  <2> QED
    BY <1>1, <2>1, <2>2 DEF Left
<1>2. CASE ~site.hostSoname
  <2>1. LinksOf(driver) = <<SoLink>>
    BY <1>2, LinksOfFacts
  <2>2. <<>> # <<SoLink>>
    OBVIOUS
  <2> QED
    BY <1>2, <2>1, <2>2 DEF Left
<1> QED
  BY <1>1, <1>2

\* What does not depend on the driver's version but by its directory, or not on this
\* step at all.
LEMMA SameLinks ==
  ASSUME driver' = driver, site' = site
  PROVE  SoLink' = SoLink /\ SonameLink' = SonameLink /\ LinksOf(driver)' = LinksOf(driver)
  BY DEF SoLink, SonameLink, LinksOf

\* ldconfig changes no link but that of the SONAME, and that as create-symlinks does.
LEMMA LdconfigLinks ==
  ASSUME HooksInv, ExecLdconfig
  PROVE  links' = links \/ links' = [links EXCEPT ![SonameLink[1]] = SonameLink[2]]
  BY DEF ExecLdconfig, SonameLink

\* Links are removed and made one after the other.
LEMMA StepLinks ==
  ASSUME HooksInv, [Next]_vars
  PROVE  LinksInv'
<1> SUFFICES ASSUME (Symlinks \in hooks)'
             PROVE  Left(todo, links, SoLink, SonameLink, site.hostSoname)'
  BY DEF LinksInv
<1> DEFINE both == site.hostSoname
<1>1. /\ links \in [LibDirs \X LinkName -> LinkValue] /\ both \in BOOLEAN /\ site' = site
      /\ SoLink \in (LibDirs \X LinkName) \X LinkValue /\ SonameLink \in (LibDirs \X LinkName) \X LinkValue
      /\ SoLink[1] # SonameLink[1] /\ <<"absent">> \in LinkValue
  BY LinksOfFacts, Changes, HooksAssumption DEF HooksInv, TypeOK, Site
<1>2. CASE Start
  <2>1. todo' = LinksOf(driver) /\ driver' = driver
    BY <1>2 DEF Start
  <2>2. todo' = IF both THEN <<SoLink, SonameLink>> ELSE <<SoLink>>
    BY <2>1, LinksOfFacts DEF HooksInv
  <2> QED
    BY <1>1, <2>1, <2>2, SameLinks DEF Left
<1>3. CASE ~Start
  <2>1. Symlinks \in hooks /\ pc # "stopped"
    BY <1>3, Changes DEF HooksInv, PhaseInv
  <2>2. driver' = driver
    BY <2>1, Changes DEF UpgradeDriver
  <2>3. Left(todo, links, SoLink, SonameLink, both)
    BY <2>1 DEF HooksInv, LinksInv
  <2>4. ~Running /\ ~Failing
    BY <2>1 DEF Running, Failing, Fail
  <2>5. LeftAfter(todo, links, SoLink, SonameLink, both)
    BY <1>1, <2>3, LeftFacts DEF both
  <2> HIDE DEF both
  <2>6. Left(todo', links', SoLink, SonameLink, both)
    <3>1. CASE LinkKept
      <4>1. links' = links /\ todo' = Tail(todo) /\ todo # <<>> /\ links[todo[1][1]] = todo[1][2]
        BY <3>1 DEF LinkKept, rootfs
      <4> QED
        BY <4>1, <1>1, <2>5 DEF LeftAfter
    <3>2. CASE LinkRemoved
      <4>1. links' = [links EXCEPT ![todo[1][1]] = <<"absent">>] /\ todo' = todo /\ todo # <<>>
        BY <3>2 DEF LinkRemoved
      <4> QED
        BY <4>1, <1>1, <2>5 DEF LeftAfter
    <3>3. CASE Symlink
      <4>1. links' = [links EXCEPT ![todo[1][1]] = todo[1][2]] /\ todo' = Tail(todo) /\ todo # <<>>
        BY <3>3 DEF Symlink, HooksInv, PhaseInv
      <4> QED
        BY <4>1, <1>1, <2>5 DEF LeftAfter
    <3>4. CASE ExecLdconfig
      <4>1. todo' = todo
        BY <3>4 DEF ExecLdconfig
      <4> QED
        BY <3>4, <4>1, <2>3, <2>5, LdconfigLinks DEF LeftAfter
    <3>5. CASE links' = links /\ todo' = todo
      BY <2>3, <3>5
    <3> QED
      BY <1>3, <2>4, <3>1, <3>2, <3>3, <3>4, <3>5, Changes
  <2> QED
    BY <1>1, <2>2, <2>6, SameLinks DEF both
<1> QED
  BY <1>2, <1>3

\* What the four steps that make drop-in files of update-ldcache do.
LEMMA DropInSteps ==
  ASSUME HooksInv, CreateDropIn
  PROVE  /\ confd'["00-compat"] = confd["00-compat"]
         /\ \/ /\ pc = "nvcr" /\ pc' = "nvcr-write"
               /\ confd'["00-nvcr"] = Append(confd["00-nvcr"], {})
               /\ confd'["zz-nvcr"] = confd["zz-nvcr"]
               /\ Lists(confd'["00-nvcr"]) = Lists(confd["00-nvcr"])
               /\ Len(confd'["00-nvcr"]) > 0 /\ confd'["00-nvcr"][Len(confd'["00-nvcr"])] = {}
            \/ /\ pc = "nvcr-write" /\ pc' = "zz"
               /\ confd'["00-nvcr"] = [confd["00-nvcr"] EXCEPT ![Len(confd["00-nvcr"])] = dirs]
               /\ confd'["zz-nvcr"] = confd["zz-nvcr"]
               /\ Lists(confd'["00-nvcr"]) = Lists(confd["00-nvcr"]) \cup dirs
            \/ /\ pc = "zz" /\ pc' = "zz-write"
               /\ confd'["00-nvcr"] = confd["00-nvcr"]
               /\ Lists(confd'["zz-nvcr"]) = Lists(confd["zz-nvcr"])
               /\ Len(confd'["zz-nvcr"]) > 0 /\ confd'["zz-nvcr"][Len(confd'["zz-nvcr"])] = {}
            \/ /\ pc = "zz-write" /\ pc' = "musl"
               /\ confd'["00-nvcr"] = confd["00-nvcr"]
               /\ Lists(confd'["zz-nvcr"]) = Lists(confd["zz-nvcr"]) \cup SystemSearchPaths(site.debian)
<1>1. /\ confd \in [Prefix -> Seq(SUBSET Dir)] /\ dirs \in SUBSET Dir
      /\ SystemSearchPaths(site.debian) \in SUBSET Dir
  BY SearchPathsAreDirs, HooksAssumption DEF HooksInv, TypeOK, Site
<1>2. Prefix = {"00-compat", "00-nvcr", "zz-nvcr"}
  BY DEF Prefix
<1>3. CASE pc = "nvcr" /\ CreateTemp("00-nvcr") /\ pc' = "nvcr-write"
  BY <1>1, <1>2, <1>3, TempFacts
<1>4. CASE pc = "nvcr-write" /\ WriteDirs("00-nvcr", dirs) /\ pc' = "zz"
  BY <1>1, <1>2, <1>4, WriteFacts DEF HooksInv, DropInInv
<1>5. CASE pc = "zz" /\ CreateTemp("zz-nvcr") /\ pc' = "zz-write"
  BY <1>1, <1>2, <1>5, TempFacts
<1>6. CASE pc = "zz-write" /\ WriteDirs("zz-nvcr", SystemSearchPaths(site.debian)) /\ pc' = "musl"
  BY <1>1, <1>2, <1>6, WriteFacts DEF HooksInv, DropInInv
<1> QED
  BY <1>3, <1>4, <1>5, <1>6 DEF CreateDropIn

\* The links of this driver stay once they are made.
LEMMA StepSymlinksDone ==
  ASSUME HooksInv, [Next]_vars
  PROVE  SymlinksDone'
<1> SUFFICES ASSUME Did(Symlinks)'
             PROVE  \A i \in DOMAIN LinksOf(driver)' : links'[LinksOf(driver)'[i][1]] = LinksOf(driver)'[i][2]
  BY DEF SymlinksDone
<1> DEFINE both == site.hostSoname
<1> DEFINE Made(l) == Left(<<>>, l, SoLink, SonameLink, both)
<1>1. /\ links \in [LibDirs \X LinkName -> LinkValue] /\ both \in BOOLEAN /\ site' = site
      /\ SoLink \in (LibDirs \X LinkName) \X LinkValue /\ SonameLink \in (LibDirs \X LinkName) \X LinkValue
      /\ SoLink[1] # SonameLink[1]
  BY LinksOfFacts, Changes, HooksAssumption DEF HooksInv, TypeOK, Site
<1>2. driver' = driver /\ (Did(Symlinks) \/ LinksDone)
  BY Ending, HookNames
<1>3. Made(links)
  <2>1. CASE Did(Symlinks)
    BY <2>1, AllMade DEF HooksInv, DoneInv, SymlinksDone
  <2>2. CASE LinksDone
    BY <2>2 DEF LinksDone, At, HooksInv, LinksInv
  <2> QED
    BY <1>2, <2>1, <2>2
<1>4. LeftAfter(<<>>, links, SoLink, SonameLink, both)
  BY <1>1, <1>3, LeftFacts
<1>5. links' = links \/ ExecLdconfig
  <2>1. CASE LinksDone
    BY <2>1 DEF LinksDone, rootfs
  <2>2. CASE Did(Symlinks)
    BY <2>2, Changes DEF Did, LinkRemoved, At, Symlink, HooksInv, PhaseInv
  <2> QED
    BY <1>2, <2>1, <2>2
<1> HIDE DEF both
<1>6. Made(links')
  BY <1>3, <1>4, <1>5, LdconfigLinks DEF LeftAfter
<1>7. \A i \in DOMAIN LinksOf(driver) : links'[LinksOf(driver)[i][1]] = LinksOf(driver)[i][2]
  BY <1>6, AllMade DEF HooksInv, both
<1> QED
  BY <1>1, <1>2, <1>7, SameLinks

\* The params file stays once it is mounted.
LEMMA StepParamsDone ==
  ASSUME HooksInv, [Next]_vars
  PROVE  ParamsDone'
<1> SUFFICES ASSUME Did(Params)'
             PROVE  params' # "1"
  BY DEF ParamsDone
<1>1. pc' # "stopped"
  BY DEF Did
<1>2. CASE DisableDeviceNodeModification
  <2>1. Params \in hooks /\ Params \notin hooks' /\ params' = params
    BY <1>2 DEF DisableDeviceNodeModification, At, Did
  <2>2. ModifiedParams = "absent"
    BY <1>2, <2>1 DEF DisableDeviceNodeModification
  <2>3. params \in {site.params, ModifiedParams}
    BY DEF HooksInv, PhaseInv
  <2> QED
    BY <2>1, <2>2, <2>3 DEF ModifiedParams
<1>3. CASE CreateParamsFile
  BY <1>3 DEF CreateParamsFile, ModifiedParams
<1>4. CASE Did(Params)
  BY <1>1, <1>4, Changes DEF HooksInv, DoneInv, ParamsDone, Stop, Failing, Fail, CreateParamsFile, ModifiedParams
<1> QED
  BY <1>2, <1>3, <1>4, Ending, HookNames

\* Modes stay once they are set.
LEMMA StepChmodDone ==
  ASSUME HooksInv, [Next]_vars
  PROVE  ChmodDone'
<1> SUFFICES ASSUME Did(Chmod)', "failed" \in Range(modes')
             PROVE  modes'["nvidia-caps"] \in {"755", "refused"}
  BY DEF ChmodDone
<1>1. pc' # "stopped"
  BY DEF Did
<1>2. CASE Chmodded
  BY <1>2 DEF Chmodded
<1>3. CASE Did(Chmod) /\ ~Chmodded
  BY <1>1, <1>3, Changes DEF HooksInv, DoneInv, ChmodDone, Stop, Failing, Fail
<1> QED
  BY <1>2, <1>3, Ending, HookNames

\* ReadOrder depends on what ld.so.conf and its drop-in files list.
LEMMA SameReadOrder ==
  ASSUME site' = site, top' = top, \A p \in Prefix : Lists(confd'[p]) = Lists(confd[p])
  PROVE  ReadOrder' = ReadOrder
  BY DEF ReadOrder, Listed, Prefix

\* The cache stays that of the files, because no file is made after it in a start.
LEMMA StepCacheDone ==
  ASSUME HooksInv, [Next]_vars
  PROVE  CacheDone'
<1> SUFFICES ASSUME Did(LDCache)'
             PROVE  cache' = ReadOrder'
  BY DEF CacheDone
<1>1. site' = site
  BY Changes
<1>2. CASE ExecLdconfig
  <2>1. top' = top /\ confd' = confd /\ cache' = ReadOrder
    BY <1>2 DEF ExecLdconfig
  <2> QED
    BY <1>1, <2>1, SameReadOrder
<1>3. CASE Did(LDCache)
  <2>1. LDCache \notin hooks /\ Compat \notin hooks
    BY <1>3 DEF Did, Ran, HooksInv, PhaseInv
  <2>2. pc \notin LdSteps /\ pc # "compat-write"
    BY <2>1 DEF HooksInv, PhaseInv
  <2>3. ~CompatStart /\ ~CompatWrite /\ ~CreateDropIn /\ ~EnsureLdsoconfFile /\ ~WriteInclude /\ ~ExecLdconfig
    BY <2>1, <2>2 DEF CompatStart, At, CompatWrite, CreateDropIn, EnsureLdsoconfFile, WriteInclude, ExecLdconfig, LdSteps
  <2>4. cache' = cache /\ top' = top /\ confd' = confd
    BY <2>3, Changes
  <2> QED
    BY <1>1, <1>3, <2>4, SameReadOrder DEF HooksInv, DoneInv, CacheDone
<1> QED
  BY <1>2, <1>3, Ending, HookNames

\* A drop-in file of enable-cuda-compat stays.
LEMMA StepCompatDone ==
  ASSUME HooksInv, [Next]_vars
  PROVE  CompatDone'
<1> SUFFICES ASSUME Did(Compat)', CompatIsNewer(driver)'
             PROVE  "compat" \in Lists(confd'["00-compat"])
  BY DEF CompatDone, Listed
<1>1. confd \in [Prefix -> Seq(SUBSET Dir)] /\ "00-compat" \in Prefix /\ driver' = driver /\ spec' = spec
  BY Ending, HookNames DEF HooksInv, TypeOK, Prefix
<1>2. CompatIsNewer(driver) /\ spec.version = driver
  BY <1>1, Changes, Ending, HookNames DEF CompatIsNewer, HooksInv, PhaseInv
<1>3. ContainerForwardCompatDir(driver) = {"compat"}
  BY <1>2 DEF CompatIsNewer, ContainerForwardCompatDir, HasCompatLibrary, UseCompatLibraries, UseCompat
<1>4. CASE CompatStart
  BY <1>2, <1>3, <1>4 DEF CompatStart, Did, At
<1>5. CASE CompatWrite
  <2>1. WriteDirs("00-compat", {"compat"})
    BY <1>2, <1>3, <1>5 DEF CompatWrite
  <2>2. {"compat"} \in SUBSET Dir
    BY DEF Dir
  <2>3. Len(confd["00-compat"]) > 0 /\ confd["00-compat"][Len(confd["00-compat"])] = {}
    BY <1>5 DEF CompatWrite, HooksInv, DropInInv
  <2>4. Lists(confd'["00-compat"]) = Lists(confd["00-compat"]) \cup {"compat"}
    BY <1>1, <2>1, <2>2, <2>3, WriteFacts
  <2> QED
    BY <2>4
<1>6. CASE Did(Compat) /\ ~CompatStart /\ ~CompatWrite
  <2>1. "compat" \in Lists(confd["00-compat"])
    BY <1>2, <1>6 DEF HooksInv, DoneInv, CompatDone, Listed
  <2>2. confd' = confd \/ Lists(confd'["00-compat"]) = Lists(confd["00-compat"])
    BY <1>1, <1>6, Changes, DropInSteps
  <2> QED
    BY <2>1, <2>2
<1> QED
  BY <1>4, <1>5, <1>6, Ending, HookNames

\* What the two steps of enable-cuda-compat do.
LEMMA CompatSteps ==
  ASSUME HooksInv, CompatStart \/ CompatWrite
  PROVE  /\ confd'["00-nvcr"] = confd["00-nvcr"] /\ confd'["zz-nvcr"] = confd["zz-nvcr"]
         /\ CompatStart => Lists(confd'["00-compat"]) = Lists(confd["00-compat"])
         /\ CompatStart /\ pc' = "compat-write" =>
              /\ Len(confd'["00-compat"]) > 0 /\ confd'["00-compat"][Len(confd'["00-compat"])] = {}
              /\ ContainerForwardCompatDir(driver) = {"compat"}
         /\ CompatWrite => /\ Lists(confd'["00-compat"]) = Lists(confd["00-compat"]) \cup {"compat"}
                           /\ CompatIsNewer(driver)
<1>1. /\ confd \in [Prefix -> Seq(SUBSET Dir)] /\ Prefix = {"00-compat", "00-nvcr", "zz-nvcr"}
      /\ {"compat"} \in SUBSET Dir
  BY DEF HooksInv, TypeOK, Prefix, Dir
<1>2. spec.version = driver
  BY DEF HooksInv, PhaseInv, CompatStart, CompatWrite, At
<1>3. ContainerForwardCompatDir(driver) \in {{}, {"compat"}}
  BY DEF ContainerForwardCompatDir
<1>4. CASE CompatStart /\ ContainerForwardCompatDir(spec.version) # {} /\ CreateTemp("00-compat")
  <2>1. ~CompatWrite
    BY <1>4 DEF CompatStart, CompatWrite, At
  <2> QED
    BY <1>1, <1>2, <1>3, <1>4, <2>1, TempFacts
<1>5. CASE CompatStart /\ pc' = "next" /\ confd' = confd
  <2>1. ~CompatWrite
    BY <1>5 DEF CompatStart, CompatWrite, At
  <2> QED
    BY <1>5, <2>1
<1>6. CASE CompatWrite
  <2>1. ~CompatStart
    BY <1>6 DEF CompatStart, CompatWrite, At
  <2>2. /\ Len(confd["00-compat"]) > 0 /\ confd["00-compat"][Len(confd["00-compat"])] = {}
        /\ ContainerForwardCompatDir(driver) = {"compat"}
    BY <1>6 DEF CompatWrite, HooksInv, DropInInv
  <2>3. CompatIsNewer(driver)
    BY <2>2 DEF CompatIsNewer, ContainerForwardCompatDir, HasCompatLibrary, UseCompatLibraries, UseCompat
  <2>4. WriteDirs("00-compat", {"compat"})
    BY <1>2, <1>6, <2>2 DEF CompatWrite
  <2> QED
    BY <1>1, <2>1, <2>2, <2>3, <2>4, WriteFacts
<1> QED
  BY <1>4, <1>5, <1>6 DEF CompatStart, Done

\* Drop-in files list what their hooks list.
LEMMA StepDropIn ==
  ASSUME HooksInv, [Next]_vars
  PROVE  DropInInv'
<1>1. site' = site
  BY Changes
<1>2. /\ Lists(confd["00-compat"]) \subseteq {"compat"} /\ Lists(confd["00-nvcr"]) \subseteq LibDirs
      /\ Lists(confd["zz-nvcr"]) \subseteq SystemSearchPaths(site.debian)
  BY DEF HooksInv, DropInInv, Listed
<1>3. Lists(confd'["00-compat"]) \subseteq {"compat"}
  BY <1>2, Changes, CompatSteps, DropInSteps
<1>4. dirs \subseteq LibDirs
  BY DEF HooksInv, TypeOK, ListInv, LibDirs
<1>5. Lists(confd'["00-nvcr"]) \subseteq LibDirs
  BY <1>2, <1>4, Changes, CompatSteps, DropInSteps
<1>6. Lists(confd'["zz-nvcr"]) \subseteq SystemSearchPaths(site.debian)
  BY <1>2, Changes, CompatSteps, DropInSteps
<1>7. ASSUME "compat" \in Lists(confd'["00-compat"])
      PROVE  \E i \in DOMAIN started' : CompatIsNewer(started'[i])
  <2>1. \E i \in DOMAIN started : CompatIsNewer(started[i])
    <3>1. CASE CompatWrite
      <4>1. Len(started) \in DOMAIN started /\ started[Len(started)] = driver
        BY <3>1 DEF CompatWrite, HooksInv, TypeOK, PhaseInv
      <4> QED
        BY <3>1, <4>1, CompatSteps
    <3>2. CASE ~CompatWrite
      <4>1. "compat" \in Lists(confd["00-compat"])
        BY <1>7, <3>2, Changes, CompatSteps, DropInSteps
      <4> QED
        BY <4>1 DEF HooksInv, DropInInv, Listed
    <3> QED
      BY <3>1, <3>2
  <2>2. CASE started' = started
    BY <2>1, <2>2
  <2>3. CASE Start
    <3>1. started' = Append(started, driver) /\ started \in Seq(Version)
      BY <2>3 DEF Start, HooksInv, TypeOK
    <3>2. \A i \in DOMAIN started : i \in DOMAIN started' /\ started'[i] = started[i]
      BY <3>1
    <3> QED
      BY <2>1, <3>2
  <2> QED
    BY <2>2, <2>3, Changes
<1>8. ASSUME pc' = "compat-write"
      PROVE  /\ Len(confd'["00-compat"]) > 0 /\ confd'["00-compat"][Len(confd'["00-compat"])] = {}
             /\ ContainerForwardCompatDir(driver)' = {"compat"}
  <2>1. CASE CompatStart
    <3>1. driver' = driver
      BY <2>1 DEF CompatStart
    <3> QED
      BY <1>1, <1>8, <2>1, <3>1, CompatSteps
      DEF ContainerForwardCompatDir, HasCompatLibrary, UseCompatLibraries, UseCompat
  <2>2. CASE UNCHANGED vars
    BY <1>1, <1>8, <2>2 DEF vars, rootfs, HooksInv, DropInInv, ContainerForwardCompatDir, HasCompatLibrary,
                            UseCompatLibraries, UseCompat
  <2> QED
    BY <1>8, <2>1, <2>2, Arrivals
<1>9. ASSUME pc' = "nvcr-write"
      PROVE  Len(confd'["00-nvcr"]) > 0 /\ confd'["00-nvcr"][Len(confd'["00-nvcr"])] = {}
  <2>1. CASE CreateDropIn
    BY <1>9, <2>1, DropInSteps
  <2>2. CASE UNCHANGED vars
    BY <1>9, <2>2 DEF vars, rootfs, HooksInv, DropInInv
  <2> QED
    BY <1>9, <2>1, <2>2, Arrivals
<1>10. ASSUME pc' = "zz-write"
       PROVE  Len(confd'["zz-nvcr"]) > 0 /\ confd'["zz-nvcr"][Len(confd'["zz-nvcr"])] = {}
  <2>1. CASE CreateDropIn
    BY <1>10, <2>1, DropInSteps
  <2>2. CASE UNCHANGED vars
    BY <1>10, <2>2 DEF vars, rootfs, HooksInv, DropInInv
  <2> QED
    BY <1>10, <2>1, <2>2, Arrivals
<1> QED
  BY <1>1, <1>3, <1>5, <1>6, <1>7, <1>8, <1>9, <1>10 DEF DropInInv, Listed, CompatIsNewer

\* The directory of the driver is neither the image's own nor that of the compat library.
LEMMA DriverDir ==
  ASSUME HooksInv
  PROVE  /\ LibDir[driver] \in Dir /\ LibDir[driver] \in LibDirs
         /\ LibDir[driver] \notin site.own /\ LibDir[driver] # "compat"
         /\ "compat" \notin LibDirs /\ LibDirs \cap site.own = {}
  BY HooksAssumption DEF HooksInv, TypeOK, Site, LibDirs

\* What FilterDirectories leaves: the directory of the driver, unless it is listed.
LEMMA FilterFacts ==
  ASSUME HooksInv, FilterDirectories
  PROVE  \/ /\ pc' = "nvcr" /\ dirs' = {LibDir[driver]}
            /\ LibDir[driver] \notin SystemSearchPaths(site.debian)
            /\ top = "include" => LibDir[driver] \notin Lists(confd["00-nvcr"])
         \/ /\ pc' = "zz" /\ dirs' = {}
            /\ \/ LibDir[driver] \in SystemSearchPaths(site.debian)
               \/ top = "include" /\ LibDir[driver] \in Lists(confd["00-nvcr"])
<1>1. pc = "filter" /\ dirs' = dirs \ LdsoconfDirectories /\ pc' = IF dirs' = {} THEN "zz" ELSE "nvcr"
  BY DEF FilterDirectories
<1>2. dirs = {LibDir[driver]}
  BY <1>1 DEF HooksInv, ListInv, LdSteps, Listing
<1>3. LibDir[driver] \in LdsoconfDirectories <=>
        \/ LibDir[driver] \in SystemSearchPaths(site.debian)
        \/ top = "include" /\ LibDir[driver] \in UNION {Listed(p) : p \in Prefix}
  BY DriverDir DEF LdsoconfDirectories, HooksInv, TypeOK
<1>4. UNION {Listed(p) : p \in Prefix} = Listed("00-compat") \cup Listed("00-nvcr") \cup Listed("zz-nvcr")
  BY DEF Prefix
<1>5. Listed("00-compat") \subseteq {"compat"} /\ Listed("zz-nvcr") \subseteq SystemSearchPaths(site.debian)
  BY DEF HooksInv, DropInInv
<1> QED
  BY <1>1, <1>2, <1>3, <1>4, <1>5, DriverDir DEF Listed

\* The directories to list are those of this start's driver.
LEMMA StepDirs ==
  ASSUME HooksInv, [Next]_vars
  PROVE  /\ (dirs \subseteq {LibDir[driver]})'
         /\ (pc \in LdSteps \ ({"reexec", "exec"} \cup Listing) => dirs = {LibDir[driver]})'
<1>1. CASE UNCHANGED vars
  BY <1>1 DEF vars, HooksInv, ListInv, LdSteps, Listing
<1>2. CASE ~UNCHANGED vars
  <2>1. dirs' \subseteq {LibDir[driver']}
    <3>1. CASE UpgradeDriver
      BY <3>1 DEF UpgradeDriver, HooksInv, PhaseInv, LdSteps
    <3>2. CASE driver' = driver
      BY <3>2, Changes DEF NewFromArgs, FilterDirectories, ExecLdconfig, Failing, Fail, HooksInv, ListInv, PhaseInv
    <3> QED
      BY <3>1, <3>2, Changes
  <2>2. CASE pc' = "root"
    BY <1>2, <2>2, Arrivals DEF NewFromArgs, HooksInv, PhaseInv
  <2>3. CASE pc' \in {"pivot", "ensure", "include", "filter"}
    BY <1>2, <2>3, Arrivals
    DEF PrepareRoot, PivotRoot, EnsureLdsoconfFile, WriteInclude, HooksInv, ListInv, LdSteps, Listing
  <2>4. CASE pc' = "nvcr"
    BY <1>2, <2>4, Arrivals, FilterFacts DEF FilterDirectories
  <2>5. CASE pc' = "nvcr-write"
    <3>1. CreateDropIn
      BY <1>2, <2>5, Arrivals
    <3>2. pc = "nvcr"
      BY <3>1, <2>5 DEF CreateDropIn
    <3> QED
      BY <3>1, <3>2 DEF CreateDropIn, HooksInv, ListInv, LdSteps, Listing
  <2> QED
    BY <2>1, <2>2, <2>3, <2>4, <2>5 DEF LdSteps, Listing
<1> QED
  BY <1>1, <1>2

\* A directory that is about to be listed is not listed yet.
LEMMA StepFresh ==
  ASSUME HooksInv, [Next]_vars
  PROVE  (pc \in {"nvcr", "nvcr-write"} =>
            /\ dirs \cap SystemSearchPaths(site.debian) = {}
            /\ top = "include" => dirs \cap Listed("00-nvcr") = {})'
<1>1. CASE UNCHANGED vars
  BY <1>1 DEF vars, rootfs, HooksInv, ListInv, Listed
<1>2. CASE ~UNCHANGED vars
  <2>1. site' = site
    BY Changes
  <2>2. CASE pc' = "nvcr"
    <3>1. FilterDirectories
      BY <1>2, <2>2, Arrivals
    <3>2. UNCHANGED <<top, confd, driver>>
      BY <3>1 DEF FilterDirectories, rootfs
    <3> QED
      BY <2>1, <2>2, <3>1, <3>2, FilterFacts DEF Listed
  <2>3. CASE pc' = "nvcr-write"
    <3>1. CreateDropIn
      BY <1>2, <2>3, Arrivals
    <3>2. UNCHANGED <<top, dirs>> /\ pc = "nvcr" /\ Lists(confd'["00-nvcr"]) = Lists(confd["00-nvcr"])
      BY <2>3, <3>1, DropInSteps DEF CreateDropIn
    <3> QED
      BY <2>1, <3>2 DEF Listed, HooksInv, ListInv
  <2> QED
    BY <2>2, <2>3
<1> QED
  BY <1>1, <1>2

\* An ld.so.conf that is made for this start includes no files of an earlier one.
LEMMA StepTop ==
  ASSUME HooksInv, [Next]_vars
  PROVE  /\ (top = "absent" \/ pc = "include" => confd["00-nvcr"] = <<>>)'
         /\ (top = "absent" => pc \notin {"include", "filter", "nvcr", "nvcr-write", "zz", "zz-write", "musl", "exec"})'
<1>1. CASE UNCHANGED vars
  BY <1>1 DEF vars, rootfs, HooksInv, ListInv
<1>2. CASE ~UNCHANGED vars
  <2>1. CASE EnsureLdsoconfFile \/ WriteInclude
    BY <2>1 DEF EnsureLdsoconfFile, WriteInclude, HooksInv, ListInv
  <2>2. CASE ~EnsureLdsoconfFile /\ ~WriteInclude
    <3>1. top' = top /\ pc' # "include" /\ pc' # "filter"
      BY <1>2, <2>2, Changes, Arrivals
    <3>2. ASSUME top = "absent" PROVE ~CreateDropIn /\ ~FilterDirectories /\ ~MuslPathFile
      BY <3>2 DEF CreateDropIn, FilterDirectories, MuslPathFile, HooksInv, ListInv
    <3>3. ASSUME top = "absent" PROVE confd'["00-nvcr"] = confd["00-nvcr"]
      BY <3>2, <3>3, Changes, CompatSteps
    <3> QED
      BY <1>2, <3>1, <3>2, <3>3, Arrivals DEF HooksInv, ListInv
  <2> QED
    BY <2>1, <2>2
<1> QED
  BY <1>1, <1>2

\* No directory is ever taken out of the drop-in files, and ld.so.conf is left alone but for
\* two steps of update-ldcache.
LEMMA Monotone ==
  ASSUME HooksInv, [Next]_vars
  PROVE  /\ Lists(confd["00-nvcr"]) \subseteq Lists(confd'["00-nvcr"])
         /\ Lists(confd["zz-nvcr"]) \subseteq Lists(confd'["zz-nvcr"])
         /\ pc \notin {"ensure", "include"} => top' = top
         /\ pc # "stopped" => driver' = driver
  BY Changes, CompatSteps, DropInSteps DEF EnsureLdsoconfFile, WriteInclude, UpgradeDriver

\* What update-ldcache has done in a step that leads to, or leaves, its last steps.
LEMMA LdcacheEnding ==
  ASSUME HooksInv, [Next]_vars, Did(LDCache)'
  PROVE  /\ pc # "stopped" /\ driver' = driver /\ pc \notin {"ensure", "include"} \cup Listing
         /\ pc = "exec" \/ Did(LDCache)
<1>1. pc # "stopped" /\ driver' = driver /\ (Did(LDCache) \/ ExecLdconfig)
  BY Ending, HookNames
<1>2. CASE ExecLdconfig
  BY <1>1, <1>2 DEF ExecLdconfig, Listing
<1>3. CASE Did(LDCache)
  BY <1>1, <1>3 DEF Did, HooksInv, PhaseInv, LdSteps, Listing
<1> QED
  BY <1>1, <1>2, <1>3

\* From the end of its listing on, the directory of the driver is listed or is searched
\* anyway.
LEMMA StepListed ==
  ASSUME HooksInv, [Next]_vars
  PROVE  (top = "include" /\ (pc \in Listing \cup {"exec"} \/ Did(LDCache)) =>
            LibDir[driver] \in SystemSearchPaths(site.debian) \cup Listed("00-nvcr"))'
<1> SUFFICES ASSUME top' = "include", pc' \in Listing \cup {"exec"} \/ Did(LDCache)'
             PROVE  LibDir[driver'] \in SystemSearchPaths(site.debian) \cup Lists(confd'["00-nvcr"])
  BY Changes DEF Listed
<1> DEFINE Before == top = "include" => LibDir[driver] \in SystemSearchPaths(site.debian) \cup Lists(confd["00-nvcr"])
<1>1. pc \in Listing \cup {"exec"} \/ Did(LDCache) => Before
  BY DEF HooksInv, ListInv, Listed
<1>2. CASE Did(LDCache)'
  BY <1>1, <1>2, LdcacheEnding, Monotone
<1>3. CASE pc' \in Listing \cup {"exec"} /\ UNCHANGED vars
  BY <1>1, <1>3 DEF vars, rootfs
<1>4. CASE pc' = "exec" /\ ~UNCHANGED vars
  <2>1. pc = "musl"
    BY <1>4, Arrivals DEF MuslPathFile
  <2> QED
    BY <1>1, <2>1, Monotone DEF Listing
<1>5. CASE pc' \in Listing /\ CreateDropIn
  <2>1. pc \notin {"ensure", "include", "stopped"} /\ (pc \in Listing \/ (pc = "nvcr-write" /\ pc' = "zz"))
    BY <1>5 DEF CreateDropIn, Listing
  <2>2. CASE pc \in Listing
    BY <1>1, <2>1, <2>2, Monotone
  <2>3. CASE pc = "nvcr-write"
    <3>1. Lists(confd'["00-nvcr"]) = Lists(confd["00-nvcr"]) \cup dirs
      BY <1>5, <2>3, DropInSteps
    <3>2. dirs = {LibDir[driver]}
      BY <2>3 DEF HooksInv, ListInv, LdSteps, Listing
    <3> QED
      BY <2>1, <3>1, <3>2, Monotone
  <2> QED
    BY <2>1, <2>2, <2>3
<1>6. CASE pc' \in Listing /\ FilterDirectories
  <2>1. pc' # "nvcr" /\ UNCHANGED <<driver, confd, top>>
    BY <1>6 DEF FilterDirectories, rootfs, Listing
  <2> QED
    BY <1>6, <2>1, FilterFacts
<1> QED
  BY <1>2, <1>3, <1>4, <1>5, <1>6, Arrivals DEF Listing

\* The same for the search paths.
LEMMA StepSystemListed ==
  ASSUME HooksInv, [Next]_vars
  PROVE  (pc \in {"musl", "exec"} \/ Did(LDCache) => SystemSearchPaths(site.debian) \subseteq Listed("zz-nvcr"))'
<1> SUFFICES ASSUME pc' \in {"musl", "exec"} \/ Did(LDCache)'
             PROVE  SystemSearchPaths(site.debian) \subseteq Lists(confd'["zz-nvcr"])
  BY Changes DEF Listed
<1>1. pc \in {"musl", "exec"} \/ Did(LDCache) => SystemSearchPaths(site.debian) \subseteq Lists(confd["zz-nvcr"])
  BY DEF HooksInv, ListInv, Listed
<1>2. CASE Did(LDCache)'
  BY <1>1, <1>2, LdcacheEnding, Monotone
<1>3. CASE pc' \in {"musl", "exec"} /\ UNCHANGED vars
  BY <1>1, <1>3 DEF vars, rootfs
<1>4. CASE pc' = "exec" /\ ~UNCHANGED vars
  BY <1>1, <1>4, Arrivals, Monotone DEF MuslPathFile
<1>5. CASE pc' = "musl" /\ ~UNCHANGED vars
  BY <1>5, Arrivals, DropInSteps
<1> QED
  BY <1>2, <1>3, <1>4, <1>5

\* Every step keeps ListInv.
LEMMA StepList ==
  ASSUME HooksInv, [Next]_vars
  PROVE  ListInv'
  BY StepDirs, StepFresh, StepTop, StepListed, StepSystemListed DEF ListInv

\* While a directory is listed for glibc and not for musl, update-ldcache goes on or fails.
LEMMA ListingSteps ==
  ASSUME [Next]_vars, ~UNCHANGED vars, pc \in Listing
  PROVE  CreateDropIn \/ MuslPathFile \/ Failing
<1> USE DEF Listing
<1>1. CASE UpgradeDriver
  BY <1>1 DEF UpgradeDriver, rootfs
<1>2. CASE Regenerate
  BY <1>2 DEF Regenerate, rootfs
<1>3. CASE Start
  BY <1>3 DEF Start, rootfs
<1>4. CASE Running
  BY <1>4 DEF Running, rootfs
<1>5. CASE Stop
  BY <1>5 DEF Stop, Unmount, rootfs
<1>6. CASE Unsupported
  BY <1>6 DEF Unsupported, At, Done, rootfs
<1>7. CASE Failing
  BY <1>7 DEF Failing, Fail, Unmount, rootfs
<1>8. CASE LinkKept
  BY <1>8 DEF LinkKept, At, rootfs
<1>9. CASE LinkRemoved
  BY <1>9 DEF LinkRemoved, At, rootfs
<1>10. CASE Symlink
  BY <1>10 DEF Symlink, rootfs
<1>11. CASE LinksDone
  BY <1>11 DEF LinksDone, At, Done, rootfs
<1>12. CASE CompatStart
  BY <1>12 DEF CompatStart, At, Done, CreateTemp, rootfs
<1>13. CASE CompatWrite
  BY <1>13 DEF CompatWrite, Done, WriteDirs, rootfs
<1>14. CASE UpdateLdcache
  BY <1>14 DEF UpdateLdcache, At, rootfs
<1>15. CASE NewFromArgs
  BY <1>15 DEF NewFromArgs, rootfs
<1>16. CASE PrepareRoot
  BY <1>16 DEF PrepareRoot, MountLdconfig, rootfs
<1>17. CASE PivotRoot
  BY <1>17 DEF PivotRoot, rootfs
<1>18. CASE EnsureLdsoconfFile
  BY <1>18 DEF EnsureLdsoconfFile, rootfs
<1>19. CASE WriteInclude
  BY <1>19 DEF WriteInclude, rootfs
<1>20. CASE FilterDirectories
  BY <1>20 DEF FilterDirectories, rootfs
<1>21. CASE CreateDropIn
  BY <1>21 DEF CreateDropIn, CreateTemp, WriteDirs, rootfs
<1>22. CASE MuslPathFile
  BY <1>22 DEF MuslPathFile, rootfs
<1>23. CASE ExecLdconfig
  BY <1>23 DEF ExecLdconfig, Done, rootfs
<1>24. CASE DisableDeviceNodeModification
  BY <1>24 DEF DisableDeviceNodeModification, At, Done, rootfs
<1>25. CASE CreateParamsFile
  BY <1>25 DEF CreateParamsFile, Done, rootfs
<1>26. CASE Chmodded
  BY <1>26 DEF Chmodded, At, Done, rootfs
<1>27. CASE UNCHANGED vars
  BY <1>27 DEF vars, rootfs
<1> QED
  BY <1>1, <1>2, <1>3, <1>4, <1>5, <1>6, <1>7, <1>8, <1>9, <1>10, <1>11, <1>12, <1>13,
     <1>14, <1>15, <1>16, <1>17, <1>18, <1>19, <1>20, <1>21, <1>22, <1>23, <1>24, <1>25, <1>26, <1>27, NextSplit

\* What musl finds: the .path file only grows, and so does what dead starts have listed.
LEMMA StepMusl ==
  ASSUME HooksInv, [Next]_vars
  PROVE  MuslInv'
<1> SUFFICES ASSUME site.musl
             PROVE  /\ Lists(confd'["00-nvcr"]) \subseteq path' \cup torn' \cup (IF pc' \in Listing THEN dirs' ELSE {})
                    /\ pc' \in Listing =>
                         LibDir[driver'] \in dirs' \cup SystemSearchPaths(site.debian) \cup path' \cup torn'
                    /\ pc' = "exec" \/ Did(LDCache)' => LibDir[driver'] \in path' \cup torn'
  BY Changes DEF MuslInv, Listed
<1>1. /\ Lists(confd["00-nvcr"]) \subseteq path \cup torn \cup (IF pc \in Listing THEN dirs ELSE {})
      /\ pc \in Listing => LibDir[driver] \in dirs \cup SystemSearchPaths(site.debian) \cup path \cup torn
      /\ pc = "exec" \/ Did(LDCache) => LibDir[driver] \in path \cup torn
  BY DEF HooksInv, MuslInv, Listed
<1>2. path \subseteq path' /\ torn \subseteq torn'
  BY Changes DEF MuslPathFile, Failing, Fail
<1>3. pc' \in Listing /\ pc # "nvcr-write" => Lists(confd'["00-nvcr"]) = Lists(confd["00-nvcr"])
  BY Changes, CompatSteps, DropInSteps DEF CompatStart, CompatWrite, Done, Listing
<1>4. Lists(confd'["00-nvcr"]) \subseteq path' \cup torn' \cup (IF pc' \in Listing THEN dirs' ELSE {})
  <2>1. CASE UNCHANGED vars
    BY <1>1, <2>1 DEF vars, rootfs
  <2>2. CASE CreateDropIn
    <3>1. dirs' = dirs /\ UNCHANGED <<path, torn>>
      BY <2>2 DEF CreateDropIn
    <3> QED
      BY <1>1, <2>2, <3>1, DropInSteps DEF Listing
  <2>3. CASE MuslPathFile
    BY <1>1, <2>3 DEF MuslPathFile, Listing
  <2>4. CASE Failing
    BY <1>1, <2>4 DEF Failing, Fail, rootfs, Listing
  <2>5. CASE pc \notin Listing /\ ~CreateDropIn
    BY <1>1, <1>2, <2>5, Changes, CompatSteps
  <2>6. CASE pc \in Listing /\ ~UNCHANGED vars
    <3>1. CreateDropIn \/ MuslPathFile \/ Failing
      BY <2>6, ListingSteps
    <3> QED
      BY <3>1, <2>2, <2>3, <2>4
  <2> QED
    BY <2>1, <2>2, <2>5, <2>6
<1>5. ASSUME pc' \in Listing
      PROVE  LibDir[driver'] \in dirs' \cup SystemSearchPaths(site.debian) \cup path' \cup torn'
  <2>1. CASE UNCHANGED vars
    BY <1>1, <1>5, <2>1 DEF vars, rootfs
  <2>2. CASE CreateDropIn
    <3>1. dirs' = dirs /\ driver' = driver
      BY <2>2 DEF CreateDropIn
    <3>2. pc = "nvcr-write" => dirs = {LibDir[driver]}
      BY DEF HooksInv, ListInv, LdSteps, Listing
    <3>3. pc \in Listing \cup {"nvcr-write"}
      BY <1>5, <2>2 DEF CreateDropIn, Listing
    <3> QED
      BY <1>1, <1>2, <3>1, <3>2, <3>3
  <2>3. CASE FilterDirectories
    <3>1. driver' = driver /\ pc = "filter" /\ pc' # "nvcr"
      BY <1>5, <2>3 DEF FilterDirectories, Listing
    <3>2. LibDir[driver] \in SystemSearchPaths(site.debian) \cup Lists(confd["00-nvcr"])
      BY <2>3, <3>1, FilterFacts
    <3> QED
      BY <1>1, <1>2, <3>1, <3>2 DEF Listing
  <2> QED
    BY <1>5, <2>1, <2>2, <2>3, Arrivals DEF Listing
<1>6. ASSUME pc' = "exec" \/ Did(LDCache)'
      PROVE  LibDir[driver'] \in path' \cup torn'
  <2>1. CASE Did(LDCache)'
    BY <1>1, <1>2, <2>1, LdcacheEnding
  <2>2. CASE UNCHANGED vars /\ pc' = "exec"
    BY <1>1, <2>2 DEF vars, rootfs
  <2>3. CASE MuslPathFile
    BY <1>1, <1>2, <2>3 DEF MuslPathFile, Listing
  <2> QED
    BY <1>6, <2>1, <2>2, <2>3, Arrivals
<1> QED
  BY <1>4, <1>5, <1>6

\* A directory that is written is in no other file: it was filtered, and in between no
\* file and no inclusion is added.
LEMMA StepListedOnce ==
  ASSUME HooksInv, [Next]_vars
  PROVE  DirectoriesListedOnce'
<1> DEFINE files == confd["00-nvcr"]
<1>1. site' = site /\ files \in Seq(SUBSET Dir)
  BY Changes DEF HooksInv, TypeOK, Prefix
<1>2. \A i, j \in DOMAIN files :
        /\ files[i] \cap SystemSearchPaths(site.debian) = {}
        /\ i # j /\ top = "include" => files[i] \cap files[j] = {}
  BY DEF HooksInv, DirectoriesListedOnce
<1>3. CASE files' = files
  <2>1. CASE top' = "include" => top = "include"
    BY <1>1, <1>2, <1>3, <2>1 DEF DirectoriesListedOnce
  <2>2. CASE WriteInclude
    <3>1. files = <<>>
      BY <2>2 DEF WriteInclude, HooksInv, ListInv
    <3> QED
      BY <1>3, <3>1 DEF DirectoriesListedOnce
  <2> QED
    BY <2>1, <2>2, Changes DEF EnsureLdsoconfFile
<1>4. CASE CreateDropIn /\ files' = Append(files, {})
  <2>1. top' = top
    BY <1>4 DEF CreateDropIn
  <2>2. /\ DOMAIN files' = 1 .. Len(files) + 1 /\ files'[Len(files) + 1] = {}
        /\ \A i \in 1 .. Len(files) : files'[i] = files[i] /\ i \in DOMAIN files
    BY <1>1, <1>4
  <2> HIDE DEF files
  <2>3. \A i, j \in DOMAIN files' :
          /\ files'[i] \cap SystemSearchPaths(site.debian) = {}
          /\ i # j /\ top = "include" => files'[i] \cap files'[j] = {}
    BY <1>2, <2>2
  <2> QED
    BY <1>1, <2>1, <2>3 DEF DirectoriesListedOnce, files
<1>5. CASE CreateDropIn /\ pc = "nvcr-write" /\ files' = [files EXCEPT ![Len(files)] = dirs]
  <2>1. top' = top
    BY <1>5 DEF CreateDropIn
  <2>2. /\ dirs \cap SystemSearchPaths(site.debian) = {}
        /\ top = "include" => dirs \cap Lists(files) = {}
    BY <1>5 DEF HooksInv, ListInv, Listed
  <2>3. \A i \in DOMAIN files : files[i] \subseteq Lists(files)
    BY <1>1, ListsFile
  <2>4. /\ DOMAIN files' = DOMAIN files
        /\ \A i \in DOMAIN files : files'[i] = IF i = Len(files) THEN dirs ELSE files[i]
    BY <1>1, <1>5
  <2> HIDE DEF files
  <2>5. \A i, j \in DOMAIN files' :
          /\ files'[i] \cap SystemSearchPaths(site.debian) = {}
          /\ i # j /\ top = "include" => files'[i] \cap files'[j] = {}
    BY <1>2, <2>2, <2>3, <2>4
  <2> QED
    BY <1>1, <2>1, <2>5 DEF DirectoriesListedOnce, files
<1> QED
  BY <1>3, <1>4, <1>5, Changes, CompatSteps, DropInSteps

\* Before the first start nothing has been done.
LEMMA InitInv ==
  ASSUME Init
  PROVE  HooksInv
<1>1. pc = "stopped" /\ hooks = {} /\ dirs = {} /\ started = <<>> /\ scratch = 0 /\ site \in Sites /\ driver \in Version
  BY DEF Init
<1>2. \A p \in Prefix : confd[p] = <<>>
  BY DEF Init
<1>3. confd["00-compat"] = <<>> /\ confd["00-nvcr"] = <<>> /\ confd["zz-nvcr"] = <<>>
  BY <1>2 DEF Prefix
<1>4. Listed("00-compat") = {} /\ Listed("00-nvcr") = {} /\ Listed("zz-nvcr") = {}
  BY <1>3, NoFileLists DEF Listed
<1>5. TypeOK
  <2>1. site \in Site
    BY <1>1, HooksAssumption
  <2>2. spec \in [version : Version, options : HookOptions]
    BY <1>1 DEF Init
  <2>3. links \in [LibDirs \X LinkName -> LinkValue]
    <3>1. site.so \in LinkValue /\ <<"absent">> \in LinkValue
      BY <2>1 DEF Site, LinkValue
    <3> QED
      BY <3>1 DEF Init
  <2>4. top \in {"absent", "empty", "include", "plain"} /\ params \in {"absent", "0", "1"}
    BY <2>1 DEF Init, Site
  <2>5. confd \in [Prefix -> Seq(SUBSET Dir)]
    BY DEF Init
  <2>6. modes \in [Folder -> FileMode]
    BY DEF Init, FileMode
  <2> QED
    BY <1>1, <2>2, <2>3, <2>4, <2>5, <2>6, HooksAssumption DEF Init, TypeOK, Step
<1>6. PhaseInv
  BY <1>1 DEF PhaseInv, LdSteps, Init
<1>7. ScratchInv
  BY <1>1 DEF ScratchInv
<1>8. DoneInv /\ LinksInv
  BY <1>1 DEF DoneInv, SymlinksDone, ParamsDone, CacheDone, CompatDone, ChmodDone, Did, LinksInv
<1>9. DropInInv
  BY <1>1, <1>4 DEF DropInInv
<1>10. ListInv
  BY <1>1, <1>3 DEF ListInv, LdSteps, Listing, Did
<1>11. MuslInv
  BY <1>1, <1>4 DEF MuslInv, Listing, Did
<1>12. DirectoriesListedOnce
  BY <1>3 DEF DirectoriesListedOnce
<1> QED
  BY <1>5, <1>6, <1>7, <1>8, <1>9, <1>10, <1>11, <1>12 DEF HooksInv

----------------------------------------------------------------------------
(* The theorems *)

\* Every state of a container, whatever starts have died in it at whatever step and under
\* whatever drivers, satisfies the inductive invariant.
THEOREM HooksInvariant == Spec => []HooksInv
<1>1. HooksInv /\ [Next]_vars => HooksInv'
  BY StepType, StepPhase, StepScratch, StepSymlinksDone, StepParamsDone, StepCacheDone, StepCompatDone,
     StepChmodDone, StepLinks, StepDropIn, StepList, StepMusl, StepListedOnce DEF HooksInv, DoneInv
<1> QED
  BY <1>1, InitInv, PTL DEF Spec

\* The files of the container, the hooks that are left and the history stay well-formed;
\* and a start makes at most two scratch folders in /run.
THEOREM TypeCorrect == Spec => []TypeOK
BY HooksInvariant, PTL DEF HooksInv

\* Once a container runs, every hook of its spec that the CLI implements has had its full
\* effect, whatever earlier starts left (create-symlinks.go, cudacompat.go, ldconfig.go,
\* params_linux.go, chmod.go).
THEOREM HooksAreEffective == Spec => []HooksTookEffect
<1>1. HooksInv => HooksTookEffect
  <2> SUFFICES ASSUME HooksInv, pc = "running"
               PROVE  HooksTookEffect
    BY DEF HooksTookEffect
  <2>1. \A h \in Ran : Did(h)
    BY DEF Did, HooksInv, PhaseInv
  <2> QED
    BY <2>1 DEF HooksTookEffect, HooksInv, DoneInv, SymlinksDone, ParamsDone, CacheDone, CompatDone, ChmodDone
<1> QED
  BY <1>1, HooksInvariant, PTL

\* A musl container has the directory of its driver in the .path file, unless a start has
\* died after it listed the directory for glibc (createMuslPathFileIfRequired).
THEOREM MuslFindsDriver == Spec => []MuslFindsLibrary
<1>1. HooksInv => MuslFindsLibrary
  BY DEF MuslFindsLibrary, HooksInv, MuslInv, Did, PhaseInv
<1> QED
  BY <1>1, HooksInvariant, PTL

\* However often a container is started, a directory is in one 00-nvcr file at most, and a
\* system directory in none (filterDirectories).
THEOREM ListedAtMostOnce == Spec => []DirectoriesListedOnce
BY HooksInvariant, PTL DEF HooksInv

\* The first of the five tiers of the cache that has a library in it is what is found.
LEMMA FirstTier ==
  ASSUME NEW k \in 1 .. 5, DOMAIN cache = 1 .. 5, cache[k] \cap HasLibrary # {},
         \A i \in 1 .. 5 : i < k => cache[i] \cap HasLibrary = {}
  PROVE  Found = cache[k] \cap HasLibrary
<1> DEFINE tiers == {i \in DOMAIN cache : cache[i] \cap HasLibrary # {}}
<1>1. k \in tiers /\ \A j \in tiers : j \in Nat /\ k <= j
  OBVIOUS
<1>2. Found = IF tiers = {} THEN {}
              ELSE cache[CHOOSE i \in tiers : \A j \in tiers : i <= j] \cap HasLibrary
  BY DEF Found
<1> HIDE DEF tiers
<1>3. \A i \in tiers : (\A j \in tiers : i <= j) => i = k
  BY <1>1
<1>4. (CHOOSE i \in tiers : \A j \in tiers : i <= j) = k
  BY <1>1, <1>3
<1> QED
  BY <1>1, <1>2, <1>4

\* The loader of a running glibc container finds a newer compat library if it is enabled,
\* and otherwise the library of the driver, or the image's own where that comes first; an
\* older compat library only after a start under a driver that was older than it.
THEOREM LoaderFinds == Spec => []LoaderFindsLibrary
<1>1. HooksInv => LoaderFindsLibrary
  <2> SUFFICES ASSUME HooksInv, pc = "running", LDCache \in Ran, top = "include"
               PROVE  /\ Compat \in Ran /\ CompatIsNewer(driver) => Found = {"compat"}
                      /\ Found = {"compat"} => \E i \in DOMAIN started : CompatIsNewer(started[i])
                      /\ Found # {"compat"} => \/ Found = {LibDir[driver]}
                                               \/ Found = site.own /\ LibDir[driver] \in SystemSearchPaths(site.debian)
    BY DEF LoaderFindsLibrary
  <2> DEFINE compat == Listed("00-compat")
             nvcr == Listed("00-nvcr")
             zz == Listed("zz-nvcr")
             dir == LibDir[driver]
  <2>1. Did(LDCache) /\ (Compat \in Ran => Did(Compat))
    BY DEF Did, HooksInv, PhaseInv
  <2>2. cache = ReadOrder
    BY <2>1 DEF HooksInv, DoneInv, CacheDone
  <2>3. /\ DOMAIN cache = 1 .. 5
        /\ cache[1] = compat /\ cache[2] = nvcr /\ cache[3] = site.own /\ cache[4] = zz
        /\ cache[5] = SystemSearchPaths(site.hostDebian)
    BY <2>2 DEF ReadOrder
  <2>4. /\ compat \subseteq {"compat"} /\ nvcr \subseteq LibDirs /\ zz = SystemSearchPaths(site.debian)
        /\ "compat" \in compat => \E i \in DOMAIN started : CompatIsNewer(started[i])
        /\ dir \in SystemSearchPaths(site.debian) \cup nvcr
    BY <2>1 DEF HooksInv, DropInInv, ListInv
  <2>5. /\ dir \in LibDirs /\ dir \notin site.own /\ dir # "compat" /\ "compat" \notin LibDirs
        /\ LibDirs \cap site.own = {} /\ "compat" \notin site.own
        /\ "compat" \notin SystemSearchPaths(site.debian) /\ site.own \cap SystemSearchPaths(site.debian) = {}
    BY DriverDir, HooksAssumption DEF HooksInv, TypeOK, Site, SystemSearchPaths
  <2>6. /\ dir \in HasLibrary /\ site.own \subseteq HasLibrary
        /\ HasLibrary \subseteq {dir, "compat"} \cup site.own
        /\ "compat" \in compat => "compat" \in HasLibrary
    BY <2>4 DEF HasLibrary, CompatIsNewer
  <2>7. \A k \in 1 .. 5 : cache[k] \cap HasLibrary # {} /\ (\A i \in 1 .. 5 : i < k => cache[i] \cap HasLibrary = {})
                            => Found = cache[k] \cap HasLibrary
    BY <2>3, FirstTier
  <2> HIDE DEF compat, nvcr, zz, dir
  <2>8. CASE "compat" \in compat
    <3>1. cache[1] \cap HasLibrary = {"compat"}
      BY <2>3, <2>4, <2>6, <2>8
    <3>2. Found = {"compat"}
      BY <2>7, <3>1
    <3> QED
      BY <2>4, <2>8, <3>2
  <2>9. CASE "compat" \notin compat
    <3>1. cache[1] \cap HasLibrary = {} /\ ~(Compat \in Ran /\ CompatIsNewer(driver))
      BY <2>1, <2>3, <2>4, <2>9 DEF HooksInv, DoneInv, CompatDone, compat
    <3>2. CASE dir \in nvcr
      <4>1. cache[2] \cap HasLibrary = {dir}
        BY <2>3, <2>4, <2>5, <2>6, <3>2
      <4>2. Found = {dir}
        BY <2>7, <3>1, <4>1
      <4> QED
        BY <2>5, <3>1, <4>2 DEF dir
    <3>3. CASE dir \notin nvcr
      <4>1. cache[2] \cap HasLibrary = {} /\ dir \in SystemSearchPaths(site.debian)
        BY <2>3, <2>4, <2>5, <2>6, <3>3
      <4>2. CASE site.own # {}
        <5>1. cache[3] \cap HasLibrary = site.own
          BY <2>3, <2>6
        <5>2. Found = site.own
          BY <2>7, <3>1, <4>1, <4>2, <5>1
        <5> QED
          BY <2>5, <3>1, <4>1, <5>2 DEF dir
      <4>3. CASE site.own = {}
        <5>1. cache[3] \cap HasLibrary = {} /\ cache[4] \cap HasLibrary = {dir}
          BY <2>3, <2>4, <2>5, <2>6, <4>1, <4>3
        <5>2. Found = {dir}
          BY <2>7, <3>1, <4>1, <5>1
        <5> QED
          BY <2>5, <3>1, <5>2 DEF dir
      <4> QED
        BY <4>2, <4>3
    <3> QED
      BY <3>2, <3>3
  <2> QED
    BY <2>8, <2>9
<1> QED
  BY <1>1, HooksInvariant, PTL

=============================================================================
