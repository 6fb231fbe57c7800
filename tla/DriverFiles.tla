---------------------------- MODULE DriverFiles ----------------------------
(***************************************************************************)
(* What is found of an installed driver: the locators of pkg/lookup and    *)
(* internal/lookup/root, and the discoverers of internal/discover and      *)
(* pkg/nvcdi for its libraries, sockets, firmware, binaries and graphics   *)
(* files.  A few names stand for the lists of names in the source.         *)
(***************************************************************************)
EXTENDS Naturals, Sequences, FiniteSets, SequencesExt

CONSTANTS
  Version,    \* the versions of the driver
  Installed,  \* the files when a version is installed, in the order of a listing:
              \*   directory, name, and the version in the name, 0 if there is none
  LinkOf      \* what a directory is a link to, or itself

LibraryDirs  == <<"/usr/lib", "/lib">>
SocketDirs   == <<"/run", "/var/run">>
FirmwareDirs == <<"/lib/firmware/updates", "/lib/firmware">>
BinaryDirs   == <<"/usr/bin", "/bin">>
ConfigDirs   == <<"/etc", "/usr/share">>
XorgDirs     == <<"/usr/lib/nvidia/xorg", "/usr/lib/xorg">>
Directory == {"/usr/lib/vdpau", "/tmp", "/"} \cup
  UNION {ToSet(ds) : ds \in {LibraryDirs, SocketDirs, FirmwareDirs, BinaryDirs, ConfigDirs, XorgDirs}}

ASSUME DriverFilesAssumption ==
  /\ Version \subseteq Nat \ {0} /\ LinkOf \in [Directory -> Directory]
  /\ \A v \in Version : \A i \in DOMAIN Installed[v] :
       LET f == Installed[v][i]
       IN  LinkOf[f[1]] = f[1] /\ f[3] \in Version \cup {0} /\ IsInjective(Installed[v])

----------------------------------------------------------------------------
(* Locators *)

\* The results of an operator for the elements of a sequence.
Each(Op(_), s) == <<>> \o [i \in 1..Len(s) |-> Op(s[i])]

\* The installed files that match a name, and in what follows any other pattern.
Named(v, name) == SelectSeq(Installed[v], LAMBDA f : f[2] = name)

\* file.Locate: of the files that match, those in the directories, one after the other,
\* through links; the first count of them, or all if that is 0.
Locate(matching, dirs, count) ==
  LET in(d)  == LET found == SelectSeq(matching, LAMBDA f : f[1] = LinkOf[d])
                IN  Each(LAMBDA f : <<d, f[2], f[3]>>, found)
      all    == FlattenSeq(Each(in, dirs))
  IN  IF count = 0 \/ Len(all) <= count THEN all ELSE SubSeq(all, 1, count)

EvalSymlinks(f) == <<LinkOf[f[1]], f[2], f[3]>>

\* The locator's AsUnique, and the same for the paths that one discoverer has seen.
Unique(s) ==
  LET first == SelectSeq([i \in 1..Len(s) |-> i], LAMBDA i : \A j \in 1..(i - 1) : s[j] # s[i])
  IN  Each(LAMBDA i : s[i], first)

\* NewSymlinkLocator: the files that are found, each once, by its real path.
LocateLibraries(matching, dirs) == Unique(Each(EvalSymlinks, Locate(matching, dirs, 0)))

\* First: what the first of the locators finds that finds something.
FirstFound(a, b) == IF a # <<>> THEN a ELSE b

\* mounts.Mounts: what is located is mounted at its own path.
Mount(f, at) == <<"mount", f, at>>
Mounts(found) == Each(LAMBDA f : Mount(f, f), Unique(found))

\* The files with each of the names: a name that is not found is only a warning.
LocateEach(v, dirs, names, count) ==
  FlattenSeq(Each(LAMBDA n : Locate(Named(v, n), dirs, count), names))

----------------------------------------------------------------------------
(* The driver root: internal/lookup/root *)

\* inferVersion: libcuda or else libnvidia-ml, of the version that is known or, if none
\* is (0), of any; the first that is found.
InferVersion(v, asked) ==
  LET of(lib) == LocateLibraries(
                   SelectSeq(Named(v, lib), LAMBDA f : f[3] # 0 /\ asked \in {0, f[3]}), LibraryDirs)
  IN  FirstFound(of("libcuda"), of("libnvidia-ml"))

\* updateInfo: the driver's version and library directory, a set with one pair or none.
UpdateInfo(v, asked) ==
  LET found == InferVersion(v, asked)
  IN  IF found = <<>> THEN {} ELSE {<<Head(found)[3], Head(found)[1]>>}

----------------------------------------------------------------------------
(* Discoverers for the files of the driver *)

\* getVersionLibs: *.so.VERSION in the directory of the libraries and in its vdpau.
VersionLibs(v, version, dir) ==
  LocateLibraries(SelectSeq(Installed[v], LAMBDA f : f[3] = version), <<dir, "/usr/lib/vdpau">>)

Hook(name, arg) == <<"hook", name, arg>>

\* HookCreator.Create: nothing for a hook that is among the disabled ones.
CreateHook(name, arg, disabled) ==
  IF disabled \cap {name, "all"} = {} THEN <<Hook(name, arg)>> ELSE <<>>

\* getDotSoSymlinks: the links of libcuda, if it is among the libraries.
DotSoSymlinks(libs, disabled) ==
  LET cuda == {f \in ToSet(libs) : f[2] = "libcuda"}
  IN  IF cuda = {} THEN <<>> ELSE CreateHook("create-symlinks", cuda, disabled)

\* uniqueFolders of the libraries.
LDCacheUpdateHook(libs, disabled) ==
  CreateHook("update-ldcache", {libs[i][1] : i \in DOMAIN libs}, disabled)

CUDACompatHook(version, disabled) == CreateHook("enable-cuda-compat", version, disabled)

\* NewDriverLibraryDiscoverer: the libraries, the hooks for them and the variable.
DriverLibraries(v, version, dir, disabled) ==
  LET libs == VersionLibs(v, version, dir)
  IN  Mounts(libs) \o DotSoSymlinks(libs, disabled) \o
      CUDACompatHook(version, disabled) \o LDCacheUpdateHook(libs, disabled) \o
      CreateHook("disable-device-node-modification", 0, disabled) \o
      <<<<"env", "NVIDIA_CTK_LIBCUDA_DIR", dir>>>>

\* NewIPCDiscoverer: each socket in the first directory that has it, and the MPS folder.
IPCs(v) ==
  Mounts(LocateEach(v, SocketDirs, <<"persistenced-socket", "fabricmanager-socket">>, 1)) \o
  Mounts(LocateEach(v, <<"/tmp">>, <<"nvidia-mps">>, 1))

\* newDriverFirmwareDiscoverer: in all of the search paths.
Firmwares(v, version) ==
  Mounts(Locate(SelectSeq(Named(v, "gsp"), LAMBDA f : f[3] = version), FirmwareDirs, 0))

\* The executable locator: the first in the path.
LocateExecutables(v, names) == LocateEach(v, BinaryDirs, names, 1)

\* newDriverBinariesDiscoverer.
Binaries(v) == Mounts(LocateExecutables(v, <<"nvidia-smi", "nvidia-persistenced">>))

DriverFilesOf(v, version, dir, disabled) ==
  DriverLibraries(v, version, dir, disabled) \o IPCs(v) \o Firmwares(v, version) \o Binaries(v)

----------------------------------------------------------------------------
(* Discoverers for graphics and storage *)

\* newGraphicsLibrariesDiscoverer: EGL libraries have versions of their own.
GraphicsLibraries(v, version) ==
  LET matching == SelectSeq(Installed[v],
                    LAMBDA f : \/ f[2] = "libnvidia-egl-gbm"
                               \/ /\ f[2] \in {"libnvidia-allocator", "libnvidia-vulkan-producer"}
                                  /\ f[3] = version)
      glx  == SelectSeq(Named(v, "libglxserver_nvidia"), LAMBDA f : f[3] = version)
      xorg == LocateEach(v, XorgDirs, <<"nvidia_drv">>, 1) \o Locate(glx, XorgDirs, 1)
  IN  LocateLibraries(matching, LibraryDirs) \o xorg

\* The mounts of graphicsDriverLibraries, without the allocator, which is mounted with
\* the driver's libraries; and the hook for the links that some of the libraries need.
Linked == {"libnvidia-allocator", "libnvidia-vulkan-producer", "libglxserver_nvidia"}
GraphicsEdits(v, version, disabled) ==
  LET libs  == GraphicsLibraries(v, version)
      links == {f \in ToSet(libs) : f[2] \in Linked}
  IN  Mounts(SelectSeq(libs, LAMBDA f : f[2] # "libnvidia-allocator")) \o
      (IF links = {} THEN <<>> ELSE CreateHook("create-symlinks", links, disabled))

\* mountsToContainerPath: the first that is found of each name is mounted in a directory.
MountsToContainerPath(found, dir, names) ==
  Each(LAMBDA n : Mount(Head(found[n]), <<dir, n, 0>>), SelectSeq(names, LAMBDA n : found[n] # <<>>))

\* newVulkanConfigsDiscover: among the configs or in the root itself.
VulkanConfigs(v) ==
  LET names == <<"nvidia_icd", "nvidia_layers">>
      found == [n \in ToSet(names) |->
                  FirstFound(Locate(Named(v, n), ConfigDirs, 0), Locate(Named(v, n), <<"/">>, 0))]
  IN  MountsToContainerPath(found, "/etc", names)

\* NewGraphicsMountsDiscoverer.
GraphicsMounts(v, version, disabled) ==
  GraphicsEdits(v, version, disabled) \o
  Mounts(LocateEach(v, ConfigDirs, <<"10_nvidia.json", "nvoptix.bin">>, 0)) \o VulkanConfigs(v)

\* The mounts of NewGDSDiscoverer.
GDSMounts(v) == Mounts(LocateEach(v, <<"/run">>, <<"udev">>, 0)) \o
                Mounts(LocateEach(v, <<"/etc">>, <<"cufile.json">>, 0))

----------------------------------------------------------------------------
(* What has to be found, without the order in which it is looked for *)

\* A file of which one is enough is hidden by one with its name in an earlier directory.
Hidden(v, f) ==
  \E ds \in {SocketDirs, BinaryDirs, XorgDirs} : \E i, j \in DOMAIN ds :
    /\ i < j /\ ds[j] = f[1] /\ LinkOf[ds[i]] # f[1]
    /\ \E k \in DOMAIN Installed[v] : LET g == Installed[v][k] IN
         g[1] = LinkOf[ds[i]] /\ g[2] = f[2] /\ g[3] = f[3]

Vulkan  == {"nvidia_icd", "nvidia_layers"}
Storage == {"udev", "cufile.json"}
Graphic == {"libnvidia-egl-gbm", "nvidia_drv", "libglxserver_nvidia", "10_nvidia.json", "nvoptix.bin"}

\* Every file of a driver that is not of another version, not hidden, and not for graphics
\* or storage alone, is mounted at its path; with graphics also those for it, and one
\* Vulkan file of each name under /etc.
WantFiles(v, graphics) ==
  LET files == {f \in ToSet(Installed[v]) : f[3] \in {0, v} /\ ~Hidden(v, f)}
      own   == {f \in files : f[2] \notin Vulkan \cup Storage \cup (IF graphics THEN {} ELSE Graphic)}
      best(n) == CHOOSE f \in files : f[2] = n /\ \A g \in files : g[2] = n =>
                   \/ f[1] = "/etc"
                   \/ f[1] = "/usr/share" /\ g[1] # "/etc"
                   \/ f[1] = g[1]
  IN  {Mount(f, f) : f \in own} \cup
      (IF graphics THEN {Mount(best(f[2]), <<"/etc", f[2], 0>>) : f \in {g \in files : g[2] \in Vulkan}} ELSE {})
============================================================================
