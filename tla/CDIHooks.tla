------------------------------ MODULE CDIHooks ------------------------------
(***************************************************************************)
(* The hooks of a CDI spec (cmd/nvidia-cdi-hook), run by the low-level     *)
(* runtime whenever a container is started.  The container's root file     *)
(* system outlives a start: a later start finds what an earlier one left   *)
(* in it, which may have died at any step, have been made from another CDI *)
(* spec, or have run under another driver.                                 *)
(***************************************************************************)
EXTENDS Naturals, Sequences, Functions

CONSTANTS
  GOARCH,       \* the architecture that the hooks are built for
  Version,      \* the (major) driver versions of the host, natural numbers
  LibDir,       \* the directory of the driver's libraries, by version
  Sites,        \* the images and hosts considered
  HookOptions,  \* the hooks that the generator of a CDI spec disables and enables
  MaxStarts     \* bound on the starts of the container

Symlinks == "create-symlinks"
Compat   == "enable-cuda-compat"
LDCache  == "update-ldcache"
Params   == "disable-device-node-modification"
Chmod    == "chmod"
HookName == {Symlinks, Compat, LDCache, Params, Chmod}

\* Directories in a container: multi-arch, lib64, libx32 and lib may be system search paths.
Dir == {"multi", "lib64", "libx32", "lib", "nvidia", "opt", "compat"}
LibDirs == {LibDir[v] : v \in Version}

\* What may be at the path of a link: nothing, a file, a directory with contents, or a
\* link to the SONAME (libcuda.so.1) or to the library of a version (libcuda.so.VERSION).
LinkName == {"so", "soname"}
LinkValue == {<<"absent">>, <<"file">>, <<"dir">>, <<"soname">>} \cup {<<"lib", v>> : v \in Version \cup {0}}

Folder == {"dri", "nvidia-caps"}

\* An image (its distribution, ld.so.conf, CUDA compat library and ELF header, own copy
\* of the library, and what is at the path of libcuda.so) on a host (its distribution,
\* ModifyDeviceFiles of the driver, SONAME links, and the hooks its CLI implements); its
\* specs tell enable-cuda-compat the version of the driver or that of CUDA.
Site == [debian : BOOLEAN, musl : BOOLEAN, top : {"absent", "include", "plain"},
         compat : Nat, header : Nat, by : {"driver", "cuda"}, own : SUBSET {"opt"}, so : LinkValue,
         hostDebian : BOOLEAN, params : {"absent", "0", "1"}, hostSoname : BOOLEAN,
         supported : SUBSET HookName]

ASSUME HooksAssumption ==
  /\ Version \subseteq Nat \ {0} /\ LibDir \in [Version -> Dir \ {"opt", "compat"}]
  /\ Sites \subseteq Site /\ MaxStarts \in Nat
  /\ HookOptions \subseteq [disabled : SUBSET (HookName \cup {"all"}), enabled : SUBSET HookName]

VARIABLES
  site,      \* the image and the host, which do not change
  driver,    \* the driver version of the host
  spec,      \* the CDI spec: the version and hook options it was generated with
  hooks,     \* the hooks of this start that are not done
  pc,        \* the next step of the current hook
  todo,      \* the links that create-symlinks has yet to make
  dirs,      \* the directories that update-ldcache has yet to list
  links,     \* the file system of the container: links in library directories,
  top,       \*   /etc/ld.so.conf,
  confd,     \*   /etc/ld.so.conf.d, by the prefix of its drop-in files,
  path,      \*   the directories in the .path file of musl,
  cache,     \*   /etc/ld.so.cache, as the directories in the order they were read,
  scratch,   \*   and the number of scratch folders in /run
  modes,     \* of a running container: the folders in /dev
  params,    \*   and the driver's params file
  started,   \* history: the driver version of every start
  torn       \* history: directories a dead start listed for glibc and not for musl

rootfs == <<links, top, confd, path, cache, scratch>>
vars == <<site, driver, spec, hooks, pc, todo, dirs, rootfs, modes, params, started, torn>>

Prefix == {"00-compat", "00-nvcr", "zz-nvcr"}
FileMode == {"755", "absent", "refused", "failed"}
Step == {"stopped", "running", "next", "symlink", "compat-write", "reexec", "root", "pivot", "ensure", "include",
         "filter", "nvcr", "nvcr-write", "zz", "zz-write", "musl", "exec", "params"}

TypeOK ==
  /\ site \in Sites /\ driver \in Version
  /\ spec \in [version : Version, options : HookOptions]
  /\ hooks \subseteq HookName /\ pc \in Step
  /\ todo \in Seq((LibDirs \X LinkName) \X LinkValue) /\ dirs \subseteq Dir
  /\ links \in [LibDirs \X LinkName -> LinkValue]
  /\ top \in {"absent", "empty", "include", "plain"}
  /\ confd \in [Prefix -> Seq(SUBSET Dir)]
  /\ path \subseteq Dir /\ cache \in Seq(SUBSET Dir) /\ scratch \in 0..(2 * Len(started))
  /\ modes \in [Folder -> FileMode] /\ params \in {"absent", "0", "1"}
  /\ started \in Seq(Version) /\ Len(started) <= MaxStarts /\ torn \subseteq Dir

----------------------------------------------------------------------------
(* The hooks of a CDI spec: internal/discover *)

\* NewHookCreator, Create and isDisabled, for a hook with or without arguments: chmod is
\* disabled by default, a hook that is enabled is created, and so are no others if all
\* are disabled.
Create(o, name, args) ==
  LET disabled == o.disabled \cup {Chmod}
  IN  CASE "all" \in disabled /\ o.enabled = {} -> FALSE
        [] OTHER -> \/ name \in o.enabled
                    \/ /\ name \notin disabled /\ "all" \notin disabled
                       /\ name \in {Symlinks, Chmod} => args

HooksOf(s) == {h \in HookName : Create(s.options, h, TRUE)}

\* The order of hooks in a spec: those of the driver, then those of a device.
Position(h) ==
  CASE h = Symlinks -> 1 [] h = Compat -> 2 [] h = LDCache -> 3 [] h = Params -> 4 [] h = Chmod -> 5

\* additionalSymlinks: libcuda.so to the SONAME; and the SONAME to the library if the
\* host has such a link.
LinksOf(v) ==
  LET so == <<<<LibDir[v], "so">>, <<"soname">>>>
      soname == <<<<LibDir[v], "soname">>, <<"lib", v>>>>
  IN  IF site.hostSoname THEN <<so, soname>> ELSE <<so>>

----------------------------------------------------------------------------
(* The life of the container *)

Init ==
  /\ site \in Sites /\ driver \in Version
  /\ spec \in [version : {driver}, options : HookOptions]
  /\ hooks = {} /\ pc = "stopped" /\ todo = <<>> /\ dirs = {}
  /\ links = [l \in LibDirs \X LinkName |-> IF l[2] = "so" THEN site.so ELSE <<"absent">>]
  /\ top = site.top
  /\ confd = [p \in Prefix |-> <<>>]
  /\ path = {} /\ cache = <<>> /\ scratch = 0
  /\ modes = [f \in Folder |-> "absent"] /\ params = site.params
  /\ started = <<>> /\ torn = {}

\* The driver of the host is replaced while the container is stopped.
UpgradeDriver ==
  /\ pc = "stopped"
  /\ driver' \in Version \ {driver}
  /\ UNCHANGED <<site, spec, hooks, pc, todo, dirs, rootfs, modes, params, started, torn>>

\* The CDI spec is generated again, for the installed driver and possibly other hooks.
Regenerate ==
  /\ pc = "stopped"
  /\ spec.version # driver
  /\ \E o \in HookOptions : spec' = [version |-> driver, options |-> o]
  /\ UNCHANGED <<site, driver, hooks, pc, todo, dirs, rootfs, modes, params, started, torn>>

\* The container is started: the low-level runtime mounts what the spec lists, which
\* exists for the installed driver alone, and runs the hooks.
Start ==
  /\ pc = "stopped" /\ spec.version = driver /\ Len(started) < MaxStarts
  /\ started' = Append(started, driver)
  /\ hooks' = HooksOf(spec)
  /\ todo' = LinksOf(driver)
  /\ pc' = "next"
  /\ UNCHANGED <<site, driver, spec, dirs, rootfs, modes, params, torn>>

\* The current hook is done.
Done(h) == hooks' = hooks \ {h} /\ pc' = "next"

\* The low-level runtime is about to run this hook, the first of those left.
At(h) == pc = "next" /\ h \in hooks /\ \A g \in hooks : Position(h) <= Position(g)

\* All hooks have succeeded and the container runs.
Running ==
  /\ pc = "next" /\ hooks = {}
  /\ pc' = "running"
  /\ todo' = <<>>
  /\ UNCHANGED <<site, driver, spec, hooks, dirs, rootfs, modes, params, started, torn>>

\* The mounts of a container are gone once it has stopped or its start has failed.
Unmount == modes' = [f \in Folder |-> "absent"] /\ params' = site.params

\* The container stops.
Stop ==
  /\ pc = "running"
  /\ pc' = "stopped"
  /\ Unmount
  /\ UNCHANGED <<site, driver, spec, hooks, todo, dirs, rootfs, started, torn>>

\* ConfigureCDIHookCommand: a hook that the CLI does not implement is a warning only.
Unsupported ==
  /\ \E h \in HookName \ site.supported : At(h) /\ Done(h)
  /\ UNCHANGED <<site, driver, spec, todo, dirs, rootfs, modes, params, started, torn>>

\* The start fails: a system call of the hook fails and it returns the error, or it dies.
Fail ==
  /\ hooks' = {} /\ pc' = "stopped"
  /\ torn' = IF pc \in {"zz", "zz-write", "musl"} THEN torn \cup dirs ELSE torn
  /\ todo' = <<>> /\ dirs' = {}
  /\ Unmount
  /\ UNCHANGED <<site, driver, spec, rootfs, started>>

Die == pc \notin {"stopped", "running"} /\ Fail

----------------------------------------------------------------------------
(* create-symlinks *)

\* (mutant) a link that exists is kept, whatever its target
CreateLinkKeepsAny ==
  /\ At(Symlinks) /\ Symlinks \in site.supported /\ todo # <<>>
  /\ LET link == todo[1][1] IN
     \/ /\ links[link] \notin {<<"absent">>, <<"file">>, <<"dir">>}
        /\ todo' = Tail(todo)
        /\ UNCHANGED <<links, hooks, pc, dirs, modes, params, torn>>
     \/ /\ links[link] \in {<<"absent">>, <<"file">>}
        /\ links' = [links EXCEPT ![link] = <<"absent">>]
        /\ pc' = "symlink"
        /\ UNCHANGED <<hooks, todo, dirs, modes, params, torn>>
     \/ links[link] = <<"dir">> /\ Fail
  /\ UNCHANGED <<site, driver, spec, top, confd, path, cache, scratch, started>>

\* createLink and ForceCreate, up to the removal: nothing is done for a link that exists
\* with this target; a directory that is not empty cannot be removed.
CreateLink ==
  /\ At(Symlinks) /\ Symlinks \in site.supported /\ todo # <<>>
  /\ LET link == todo[1][1]  target == todo[1][2] IN
     \/ /\ links[link] = target
        /\ todo' = Tail(todo)
        /\ UNCHANGED <<links, hooks, pc, dirs, modes, params, torn>>
     \/ /\ links[link] \notin {target, <<"dir">>}
        /\ links' = [links EXCEPT ![link] = <<"absent">>]
        /\ pc' = "symlink"
        /\ UNCHANGED <<hooks, todo, dirs, modes, params, torn>>
     \/ links[link] = <<"dir">> /\ Fail
  /\ UNCHANGED <<site, driver, spec, top, confd, path, cache, scratch, started>>

\* ForceCreate: the link is made.
Symlink ==
  /\ pc = "symlink"
  /\ links' = [links EXCEPT ![todo[1][1]] = todo[1][2]]
  /\ todo' = Tail(todo)
  /\ pc' = "next"
  /\ UNCHANGED <<site, driver, spec, hooks, dirs, top, confd, path, cache, scratch, modes, params, started, torn>>

LinksDone ==
  /\ At(Symlinks) /\ Symlinks \in site.supported /\ todo = <<>>
  /\ Done(Symlinks)
  /\ UNCHANGED <<site, driver, spec, todo, dirs, rootfs, modes, params, started, torn>>

----------------------------------------------------------------------------
(* Drop-in files: createLdsoconfdFile of both hooks *)

\* CreateTemp makes an empty file with a new name; then the directories are written.
\* (That others can read the file only after a chmod is left out: the hooks are root.)
CreateTemp(p) == confd' = [confd EXCEPT ![p] = Append(@, {})]

WriteDirs(p, d) == confd' = [confd EXCEPT ![p] = [@ EXCEPT ![Len(@)] = d]]

----------------------------------------------------------------------------
(* enable-cuda-compat *)

\* compatElfHeader.UseCompat: the library is for a newer CUDA, by its ELF header (0: none).
UseCompat(v) == v < site.header

\* (mutant) a library of the host's version is used as well
UseCompatLibrariesOfSameVersion(v) == IF site.by = "cuda" THEN UseCompat(v) ELSE v <= site.compat

\* useCompatLibraries: by the CUDA version if the spec has one, else by the major version.
UseCompatLibraries(v) == IF site.by = "cuda" THEN UseCompat(v) ELSE v < site.compat

\* hasPath and globFiles: the container has the folder and one library in it.
HasCompatLibrary == site.compat > 0

\* getContainerForwardCompatDir: the folder, if its library is to be used.
ContainerForwardCompatDir(v) == IF HasCompatLibrary /\ UseCompatLibraries(v) THEN {"compat"} ELSE {}

\* run: nothing is done unless the compat libraries are to be used.
CompatStart ==
  /\ At(Compat) /\ Compat \in site.supported
  /\ \/ /\ ContainerForwardCompatDir(spec.version) # {}
        /\ CreateTemp("00-compat")
        /\ pc' = "compat-write" /\ UNCHANGED hooks
     \/ /\ ContainerForwardCompatDir(spec.version) = {}
        /\ Done(Compat) /\ UNCHANGED confd
  /\ UNCHANGED <<site, driver, spec, todo, dirs, links, top, path, cache, scratch, modes, params, started, torn>>

CompatWrite ==
  /\ pc = "compat-write"
  /\ WriteDirs("00-compat", ContainerForwardCompatDir(spec.version))
  /\ Done(Compat)
  /\ UNCHANGED <<site, driver, spec, todo, dirs, links, top, path, cache, scratch, modes, params, started, torn>>

----------------------------------------------------------------------------
(* update-ldcache: internal/ldconfig *)

\* debianSystemSearchPaths and nonDebianSystemSearchPaths.
SystemSearchPaths(debian) ==
  {"lib"} \cup (CASE GOARCH \notin {"amd64", "arm64"} -> {}
                  [] debian                           -> {"multi"}
                  [] GOARCH = "amd64"                 -> {"lib64", "libx32"}
                  [] OTHER                            -> {"lib64"})

\* The directories that a sequence of drop-in files lists, and those with a prefix.
Lists(files) == UNION Range(files)
Listed(p) == Lists(confd[p])

\* getLdsoconfDirectories: the system search paths of the container, and what ld.so.conf
\* and the files it includes list.
LdsoconfDirectories ==
  SystemSearchPaths(site.debian) \cup
  (CASE top = "include" -> site.own \cup UNION {Listed(p) : p \in Prefix}
     [] top = "plain"   -> site.own
     [] OTHER           -> {})

\* run: the hook starts itself again in namespaces of its own.
UpdateLdcache ==
  /\ At(LDCache) /\ LDCache \in site.supported
  /\ pc' = "reexec"
  /\ UNCHANGED <<site, driver, spec, hooks, todo, dirs, rootfs, modes, params, started, torn>>

\* NewFromArgs: the folders of the spec are passed on.
NewFromArgs ==
  /\ pc = "reexec"
  /\ dirs' = {LibDir[spec.version]}
  /\ pc' = "root"
  /\ UNCHANGED <<site, driver, spec, hooks, todo, rootfs, modes, params, started, torn>>

\* (mutant) the tmpfs and the path of ldconfig each get a name of their own
MountLdconfigTwice == scratch' = scratch + 2

\* mountLdConfig and mountProc: mounts in the namespace of the process; but the folder for
\* ldconfig is made in the container.
MountLdconfig == scratch' = scratch + 1

PrepareRoot ==
  /\ pc = "root"
  /\ MountLdconfig
  /\ pc' = "pivot"
  /\ UNCHANGED <<site, driver, spec, hooks, todo, dirs, links, top, confd, path, cache, modes, params, started, torn>>

\* pivotRoot or msMoveRoot: from here on the process sees the container's files.
PivotRoot ==
  /\ pc = "pivot"
  /\ pc' = "ensure"
  /\ UNCHANGED <<site, driver, spec, hooks, todo, dirs, rootfs, modes, params, started, torn>>

\* ensureLdsoconfFile: O_EXCL, so that a file that exists is left as it is.
EnsureLdsoconfFile ==
  /\ pc = "ensure"
  /\ top' = IF top = "absent" THEN "empty" ELSE top
  /\ pc' = IF top = "absent" THEN "include" ELSE "filter"
  /\ UNCHANGED <<site, driver, spec, hooks, todo, dirs, links, confd, path, cache, scratch, modes, params, started, torn>>

WriteInclude ==
  /\ pc = "include"
  /\ top' = "include"
  /\ pc' = "filter"
  /\ UNCHANGED <<site, driver, spec, hooks, todo, dirs, links, confd, path, cache, scratch, modes, params, started, torn>>

\* (mutant) no directory is filtered
FilterNothing ==
  /\ pc = "filter"
  /\ pc' = "nvcr"
  /\ UNCHANGED <<site, driver, spec, hooks, todo, dirs, rootfs, modes, params, started, torn>>

\* filterDirectories; no drop-in file is created if no directory is left.
FilterDirectories ==
  /\ pc = "filter"
  /\ dirs' = dirs \ LdsoconfDirectories
  /\ pc' = IF dirs' = {} THEN "zz" ELSE "nvcr"
  /\ UNCHANGED <<site, driver, spec, hooks, todo, rootfs, modes, params, started, torn>>

\* createLdsoconfdFile for the directories (00-nvcr) and the search paths (zz-nvcr).
CreateDropIn ==
  /\ \/ pc = "nvcr" /\ CreateTemp("00-nvcr") /\ pc' = "nvcr-write"
     \/ pc = "nvcr-write" /\ WriteDirs("00-nvcr", dirs) /\ pc' = "zz"
     \/ pc = "zz" /\ CreateTemp("zz-nvcr") /\ pc' = "zz-write"
     \/ pc = "zz-write" /\ WriteDirs("zz-nvcr", SystemSearchPaths(site.debian)) /\ pc' = "musl"
  /\ UNCHANGED <<site, driver, spec, hooks, todo, dirs, links, top, path, cache, scratch, modes, params, started, torn>>

\* (mutant) the search paths alone are appended
MuslPathFileSystemOnly ==
  /\ pc = "musl"
  /\ path' = IF site.musl THEN path \cup SystemSearchPaths(site.debian) ELSE path
  /\ pc' = "exec"
  /\ UNCHANGED <<site, driver, spec, hooks, todo, dirs, links, top, confd, cache, scratch, modes, params, started, torn>>

\* createMuslPathFileIfRequired: the directories that were not filtered and the search
\* paths are appended.
MuslPathFile ==
  /\ pc = "musl"
  /\ path' = IF site.musl THEN path \cup dirs \cup SystemSearchPaths(site.debian) ELSE path
  /\ pc' = "exec"
  /\ UNCHANGED <<site, driver, spec, hooks, todo, dirs, links, top, confd, cache, scratch, modes, params, started, torn>>

\* The order in which ldconfig of the host reads directories: those of ld.so.conf, its
\* includes sorted by name, and then its own system search paths.
ReadOrder ==
  LET system == SystemSearchPaths(site.hostDebian)
  IN  CASE top = "include" -> <<Listed("00-compat"), Listed("00-nvcr"), site.own, Listed("zz-nvcr"), system>>
        [] top = "plain"   -> <<site.own, system>>
        [] OTHER           -> <<system>>

\* SafeExec of ldconfig, which writes the cache, and links the SONAME in a directory it
\* reads to the library there unless a file is in the way.
ExecLdconfig ==
  /\ pc = "exec"
  /\ cache' = ReadOrder
  /\ LET l == <<LibDir[driver], "soname">>
         read == LibDir[driver] \in UNION Range(ReadOrder)
     IN  links' = IF read /\ links[l] \notin {<<"file">>, <<"dir">>}
                  THEN [links EXCEPT ![l] = <<"lib", driver>>] ELSE links
  /\ dirs' = {}
  /\ Done(LDCache)
  /\ UNCHANGED <<site, driver, spec, todo, top, confd, path, scratch, modes, params, started, torn>>

----------------------------------------------------------------------------
(* disable-device-node-modification and chmod: on file systems made for this start *)

\* getModifiedNVIDIAParamsContents: nothing unless ModifyDeviceFiles has to be changed.
ModifiedParams == IF site.params = "1" THEN "0" ELSE "absent"

\* run: a folder for the file is made in the container, and stays there.
DisableDeviceNodeModification ==
  /\ At(Params) /\ Params \in site.supported
  /\ \/ ModifiedParams = "absent" /\ Done(Params) /\ UNCHANGED scratch
     \/ ModifiedParams # "absent" /\ scratch' = scratch + 1 /\ pc' = "params" /\ UNCHANGED hooks
  /\ UNCHANGED <<site, driver, spec, todo, dirs, links, top, confd, path, cache, modes, params, started, torn>>

\* createParamsFileInContainer: the file is mounted over the one in /proc.
CreateParamsFile ==
  /\ pc = "params"
  /\ params' = ModifiedParams
  /\ Done(Params)
  /\ UNCHANGED <<site, driver, spec, todo, dirs, rootfs, modes, started, torn>>

\* getPaths: the folders that exist with another mode.
GetPaths(dev) == {f \in Folder : dev[f] = "other"}

\* The folders are in the order in which the spec lists them.
LastOf(paths) == IF "nvidia-caps" \in paths THEN "nvidia-caps" ELSE "dri"

\* run: that a change is not permitted is ignored, and so is an error for any folder but
\* the last.
ChmodFolders ==
  /\ At(Chmod) /\ Chmod \in site.supported
  /\ \E dev \in [Folder -> {"755", "other", "absent"}] :
     LET paths == GetPaths(dev) IN
     \E result \in [paths -> {"755", "refused", "failed"}] :
       IF paths # {} /\ result[LastOf(paths)] = "failed"
       THEN Fail
       ELSE /\ modes' = [f \in Folder |-> IF f \in paths THEN result[f] ELSE dev[f]]
            /\ Done(Chmod)
            /\ UNCHANGED <<todo, dirs, params, torn>>
  /\ UNCHANGED <<site, driver, spec, rootfs, started>>

Next ==
  \/ UpgradeDriver \/ Regenerate \/ Start \/ Running \/ Stop \/ Unsupported \/ Die
  \/ CreateLink \/ Symlink \/ LinksDone
  \/ CompatStart \/ CompatWrite
  \/ UpdateLdcache \/ NewFromArgs \/ PrepareRoot \/ PivotRoot
  \/ EnsureLdsoconfFile \/ WriteInclude \/ FilterDirectories \/ CreateDropIn
  \/ MuslPathFile \/ ExecLdconfig
  \/ DisableDeviceNodeModification \/ CreateParamsFile \/ ChmodFolders

Spec == Init /\ [][Next]_vars

----------------------------------------------------------------------------
(* Properties *)

\* The hooks that have run in the running container.
Ran == HooksOf(spec) \cap site.supported

\* The container's compat library is newer than this driver.
CompatIsNewer(v) == site.compat > 0 /\ v < IF site.by = "cuda" THEN site.header ELSE site.compat

\* Once a container runs, every hook of the spec that the CLI implements has had its full
\* effect, whatever earlier starts left or died at: links have the targets of this driver
\* (not of one before), the params do not let device nodes be made, the cache is that of
\* the files in ld.so.conf.d, and a compat library that is needed is listed there; of the
\* folders in /dev, the last one that needed it has its mode or refused it.
HooksTookEffect ==
  pc = "running" =>
    /\ Symlinks \in Ran => \A i \in DOMAIN LinksOf(driver) :
         links[LinksOf(driver)[i][1]] = LinksOf(driver)[i][2]
    /\ Params \in Ran => params # "1"
    /\ LDCache \in Ran => cache = ReadOrder
    /\ Compat \in Ran /\ CompatIsNewer(driver) => "compat" \in Listed("00-compat")
    /\ Chmod \in Ran /\ "failed" \in Range(modes) => modes["nvidia-caps"] \in {"755", "refused"}

\* The first directory of the cache with a libcuda.so.1: that of the driver, the compat
\* directory, or the image's own.
HasLibrary == {LibDir[driver]} \cup site.own \cup (IF site.compat > 0 THEN {"compat"} ELSE {})
Found ==
  LET tiers == {i \in DOMAIN cache : cache[i] \cap HasLibrary # {}}
  IN  IF tiers = {} THEN {} ELSE cache[CHOOSE i \in tiers : \A j \in tiers : i <= j] \cap HasLibrary

\* A glibc container whose ld.so.conf includes ld.so.conf.d (the image's, or that of the
\* hook unless it died before it was written) finds a library: a newer compat library if
\* it is enabled; a compat library that is not newer only where a start under an older
\* driver has left its drop-in file; and otherwise that of the driver, unless the image
\* lists its own and the driver's is in a system directory, which comes last.
LoaderFindsLibrary ==
  pc = "running" /\ LDCache \in Ran /\ ~site.musl /\ top = "include" =>
    /\ Compat \in Ran /\ CompatIsNewer(driver) => Found = {"compat"}
    /\ Found = {"compat"} => \E i \in DOMAIN started : CompatIsNewer(started[i])
    /\ Found # {"compat"} => \/ Found = {LibDir[driver]}
                             \/ Found = site.own /\ LibDir[driver] \in SystemSearchPaths(site.debian)

\* A musl container has the driver's directory in its .path file, unless a start has died
\* after it listed the directory in ld.so.conf.d.
MuslFindsLibrary ==
  pc = "running" /\ LDCache \in Ran /\ site.musl =>
    LibDir[driver] \in path \cup torn

\* However often a container is started, ld.so.conf.d has at most one 00-nvcr file for a
\* directory if it is included, and none for a system directory.
DirectoriesListedOnce ==
  \A i, j \in DOMAIN confd["00-nvcr"] :
    /\ confd["00-nvcr"][i] \cap SystemSearchPaths(site.debian) = {}
    /\ i # j /\ top = "include" => confd["00-nvcr"][i] \cap confd["00-nvcr"][j] = {}
=============================================================================
