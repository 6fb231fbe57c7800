# TLA+ models of the NVIDIA Container Toolkit

The NVIDIA Container Toolkit makes GPUs usable from containers.  It consists of
a daemon that installs the toolkit on a host and configures the container engine
(`nvidia-ctk-installer`), of an OCI runtime wrapper and hooks that run for every
container, of a command line tool (`nvidia-ctk`) and of the libraries below them.
This directory holds TLA+ modules that model parts of it, TLC configurations that
check them on small instances, and proofs that TLAPS checks.  `PROJECT.json`
maps every definition to the source lines it stands for.

## 1. Inventory

### Parts that keep state, or whose steps interleave

| Component | State | Operations | What makes it hard | What makes it correct |
|---|---|---|---|---|
| Installer application `cmd/nvidia-ctk-installer/main.go` | pidfile and its flock, three channels | initialize, Install, Setup, wait for a signal, Cleanup, shutdown | several processes on a host, a signal goroutine beside `Run`, crashes | one instance at a time, no lost signal, the pidfile goes, Cleanup follows Setup |
| Toolkit installation `cmd/nvidia-ctk-installer/toolkit` | the toolkit directory with `config.toml` | remove, install, write config, device nodes, CDI spec | crashes and ignored errors between its steps | the user's low-level runtime survives a reinstallation |
| Engine configurers `cmd/nvidia-ctk-installer/container` | config of docker, containerd, cri-o, on disk and in memory | Setup, Cleanup, restart | abandoned runs, user edits, engine restarts, files saved one after the other | Setup takes effect, Cleanup reverts it, the user's settings survive both |
| Engine config library `pkg/config/engine`, `pkg/config/toml`, `pkg/config/raw.go` | source, destination and top-level config | AddRuntime, RemoveRuntime, EnableCDI, Save, ensureImports, simplify | source and destination may share a tree, map order, removal of an empty file | as above |
| `nvidia-ctk runtime configure` | the same files | one Setup without Cleanup | runs beside the installer | as above |
| NRI plugin `container/runtime/nri/plugin.go` and the vendored stub | `stopped`, `reconnectInProgress`, the stub's connection | Start, Stop, scheduleReconnect, callbacks | callbacks without identity, a mutex held over the network, a retry loop | reconnects, stops, no leaked connection, one reconnect goroutine |
| Container runtime wrapper `internal/runtime`, `internal/oci` | the container's `config.json`, in memory and on disk | load, modify, flush, exec | every container goes through it, in a mode that is resolved from the container itself | a container that asks for GPUs gets them, once; a failed modification runs nothing |
| Runtime hook `cmd/nvidia-container-runtime-hook` | none of its own | prestart | reads the same requests as the wrapper, with other inputs | agrees with the wrapper |
| CDI spec generation `pkg/nvcdi`, `cmd/nvidia-ctk/cdi/generate` | device specs and common edits in memory, the spec files | New, enumerate, generate per device, common edits, transform, save | the host changes between its steps, libraries fail, several files | a file is complete, injects nothing twice and describes the host |
| Discovery and lookup `internal/discover`, `pkg/lookup`, `internal/platform-support` | none; they read the host | locators, discoverers, first-valid, caching | directories that are links, files of another version, one file of many | every file of the driver is found, once |
| nvsandboxutils wrapper `internal/nvsandboxutils` | reference count, loaded library | Init, Shutdown | failed Init or Shutdown, use after the last Shutdown | loaded while it is used |
| CDI hooks `cmd/nvidia-cdi-hook`, `internal/ldconfig` | files in the container's root, which outlives a start | symlinks, ldcache, compat libraries, params, chmod | run again at every start, die half way, under another driver | a running container has the effect of all of its hooks |
| Device nodes `pkg/system`, `internal/system`, `create-dev-char-symlinks` | `/dev` nodes, `/dev/char` links, loaded modules | load, mknod, link | majors change when a module is loaded again; nodes and links stay | nodes and links have the number of their driver |


### Pure functions

Device requests of an image (`internal/config/image`), mode resolution
(`internal/info`), requirements (`internal/requirements`), the toolkit's config
file (`api/config/v1`), CDI modifiers (`internal/modifier`), transforms of CDI
specs (`pkg/nvcdi/transform`), locators (`pkg/lookup`).

### Interactions

The installer writes the engine's config, which makes the engine call the wrapper;
the toolkit's `config.toml`, written by the installer from what it found in the
engine's config, names the low-level runtime the wrapper executes and selects its
mode.  The wrapper adds CDI edits or the legacy hook to the container's spec; the
legacy hook reads that spec again.  The NRI plugin and the installer's `Run` share
a process, and the deferred `Stop` of the one is a step of the other.  The
device-node commands (also called by the installer) make the nodes whose numbers
spec generation records; the generated spec is what the CDI modifiers of the
wrapper inject, and its hooks run in the container at every start.

The hazards these interactions bring are listed in `PROJECT.json`, each at its
line, with the properties that cover it.

## 2. Plan

The modules, in the order of importance, and what is on disk.

1. `Installer`, `MCInstaller`, `InstallerProofs` (done): processes, pidfile,
   signals, crash points of the installation.
2. `NRIPlugin` (done): connection, reconnect, stop.
3. `EngineConfig`, `MCEngineConfig` (done): content of the engines' config files.
4. `DeviceRequests`, `ContainerRuntime`, `MCContainerRuntime` (done): requests of a
   container, mode, modifiers, the legacy hook.
5. `CDIHooks`, `MCCDIHooks` (done): the hooks of a CDI spec in a container that is
   started again.
6. `DeviceNodes`, `DriverFiles`, `CDIGenerate`, `CDIRegistry`, `MCCDIGenerate`
   (done): device nodes, lookup, spec generation, and its refinement of an atomic
   registry.
7. `InstallerProofs`, `NRIPluginProofs`, `ContainerRuntimeProofs`,
   `EngineConfigProofs`, `CDIHooksProofs`, `DeviceNodesProofs`, `CDIGenerateProofs`
   (done): every invariant that the runs check, and the steps of the registry.
8. Proofs, left: the contents of a spec in the refinement of `CDIRegistry`, as far as
   they can be stated without induction over the data.

`CDIRegistry` is the abstract specification of spec generation.  Others worth
stating: a lock service that `Installer`
implements when nothing is collected and nothing unlinked; the engine's
configuration as a set of runtimes, which `EngineConfig` implements.

## 3. The modules

### Installer

One instance of `pc` and `handler` per process: the goroutine of `Run` and the
signal goroutine that `initialize` starts.

| Model | Code |
|---|---|
| `path`, `lock`, `fd` | the pidfile path, the flock of each inode, the descriptor `f` of `initialize` |
| `sigs`, `waitingForSignal`, `signalReceived` | the channels of `app`, buffer one |
| `CreatePidFile`, `FlockPidFile`, `WritePidFile` | `initialize`, one step per system call |
| `HandlerReceive` .. `HandlerExit` | the goroutine of `initialize` |
| `GetLowlevelRuntimePaths` .. `InstallExtras`, `InstallStepFails` | `Run` up to `Install`, `Installer.Install`, with `--ignore-errors` |
| `LoadConfig`, `TruncateConfig`, `WriteConfig`, `Reload`, `RetryReload`, `ConfigStepFails` | `Setup` and `Cleanup` of a configurer; `Raw.Write` is two steps because a crash may come in between |
| `AnnounceWaiting`, `AwaitSignal` | `waitForSignal` |
| `StartNRI`, `StopNRI`, `Shutdown` | the NRI plugin and the deferred functions |
| `CollectPidFile` | the finalizer of `f` |
| `Kill`, `Signal` | the environment |

The config file is the set of things in it that the properties tell apart: the
user's settings and the nvidia runtimes.  `damage` is a history variable: it
records overlaps of processes and deaths at points where the code offers no
protection, and the invariants say what holds without them.

### NRIPlugin

`Start` of the plugin and of the stub (`StartLock` to `Configured`) run in `Run`
or in the reconnect goroutine; `ConnClosed` and `OnClose` are the two halves of
the callback, under the stub's mutex and after it.  Callbacks have no argument
and are counted.  The stub is vendored code (`vendor/github.com/containerd/nri`),
and the model reads its source; `PROJECT.json` calls those entries external because
they are no code of the toolkit.  `CreateContainer`, which keeps no state, is left
out, and so are the errors of `Listen` and `Open` on the multiplexed connection, which
they return for the reserved id only (`mux.go:186-206`).

### EngineConfig

The files of one host: docker's `daemon.json`, containerd's `config.toml` with its
drop-in, a version 1 containerd config with or without one, cri-o's `crio.conf` with
its drop-in.  A version 1 config has no imports, and the engine does not read its
drop-in (`DropInUnread`).  A config is a record: runtimes, default, CDI, the user's
other settings, imports and version.  A process is `Begin`, `GetLowlevelRuntimePaths`,
`Load`, one `UpdateOne` or `RevertOne` per runtime in any order (the code ranges over
a map), `Save`, `SaveTopLevel`, `RemoveDropIn`, `Restart`; it may `End` anywhere.
`aliased` says that source and destination are one tree.  The user edits, the engine
restarts. A save is one step; `Installer` splits it.  Restart mode `none`, which
leaves the restart to somebody else, is left out: until then nothing can be said of
what the engine runs with (`Installer` has every mode).  A top-level file that does
not parse, whose error the code drops, is not among the inputs.

### DeviceRequests and ContainerRuntime

`DeviceRequests` holds pure functions: the devices of a spec (`VisibleDevices` of
`internal/config/image`), the mode that follows (`ResolveRuntimeMode` of
`internal/info`), and `RequestedGPUs`, what a request means according to the
documentation of `NVIDIA_VISIBLE_DEVICES`.  A list of devices is a sequence of
names; a name is unqualified, of the vendor's kind or of the automatic kind.

`ContainerRuntime` is the creation of one container, from the call of the wrapper
to the end of the prestart hooks.

| Model | Code |
|---|---|
| `spec`, `mem`, `todo` | `config.json`, `fileSpec.Spec`, the list of modifiers |
| `config`, `cfg` | `config.toml`, the wrapper's copy with the mode it has resolved |
| `Start`, `InitRuntimeModeAndImage` | `rt.Run`, `initRuntimeModeAndImage` |
| `CreateModifiers`, `NewModifiers` | `Load`, `Factory.create` and the constructors of each mode |
| `ApplyModifier`, `Apply` | `list.Modify`, the `Modify` of each modifier |
| `TruncateSpec`, `WriteSpec` | `Flush`: `os.Create`, then the encoder |
| `ExecLowLevelRuntime` | `modifyingRuntimeWrapper.Exec`, the low-level runtime up to the hooks |
| `Prestart`, `RunCLI` | `doPrestart` of the legacy hook, `nvidia-container-cli` |
| `Fail` | an error, a panic or a kill at any step |
| `Reconfigure` | a new `config.toml` between wrapper and hook |

`CSVSpec` has both CSV generators: a host says for which GPUs the mixed ones work
(`mixed`; none where NVML is missing, there is one GPU, or a feature flag disables them),
and what the code falls back to knows `all` and `0` only, and gives GPU 0 for both.
`OnlyFirstOfAll` names that case.

Edits are abstracted to the GPUs they inject and the features they enable.  One swarm
variable stands for the list of them in `config.toml`.  The
CDI registry is as `nvidia-ctk cdi generate` leaves it.  Only `create` is
modelled: other subcommands are passed on.  Requirements, the CUDA compat hook,
IMEX channels and MIG add edits or fail, and `Fail` covers the latter.

### CDIHooks

One container, its image and its host (`site`), from its first start on.  The root
file system stays over starts; mounts and `/dev` do not.  Between starts the driver
is replaced (`UpgradeDriver`) and the CDI spec generated again (`Regenerate`).

| Model | Code |
|---|---|
| `links`, `top`, `confd`, `path`, `cache`, `scratch` | library links, `/etc/ld.so.conf`, the drop-in files by prefix, the directories in musl's `.path` file, `ld.so.cache`, folders left in `/run` |
| `hooks`, `todo`, `dirs` | the hooks of this start that are not done, the links that `create-symlinks` and the directories that `update-ldcache` have left to do |
| `HooksOf`, `Position`, `Create`, `LinksOf` | `hooks.go`, `symlinks.go` of `internal/discover`, and the order of the hooks in `driver-nvml.go` |
| `CreateLink`, `Symlink` | `create-symlinks`, `ForceCreate`: removal and creation are two steps |
| `CompatStart`, `CompatWrite` | `enable-cuda-compat`: `CreateTemp`, then the write |
| `UpdateLdcache`, `NewFromArgs`, `PrepareRoot`, `PivotRoot` | `update-ldcache`, the re-executed process and its root |
| `EnsureLdsoconfFile` .. `MuslPathFile` | `Ldconfig.UpdateLDCache`, one step per file and per create or write |
| `ExecLdconfig` | ldconfig of the host (external): which directories it reads in which order |
| `DisableDeviceNodeModification`, `CreateParamsFile`, `ChmodFolders` | the hooks of these names |
| `Die` | an error or a kill at any step |

`started` (the driver of every start) and `torn` (directories a dead start listed
for glibc only) are history.  Left out: the time in which a drop-in file has mode
0600 (the readers are root), the parent directories of a link, and how versions are
read from an ELF header or `os-release`, which are values of `site`.  `GOARCH` is the
architecture, which decides about the system directories; the run has amd64, with
`/libx32`.  The image's own drop-in file is read after `00-nvcr` and before `zz-nvcr`;
one with a name like `00-cuda-compat` would come first.  `Position` is the order of a
spec that was generated and saved; in a spec that the wrapper makes in memory the hooks
of the devices come before the common ones.

### DeviceNodes

A host and the commands `create-device-nodes` and `create-dev-char-symlinks`, one
command at a time, one step per module, node and link.  A node is named by kind and
minor number; its major is a number of `/proc/devices`, of which the one of
nvidia-uvm changes when the module is loaded again.  `Unload`, `ChangeGpus` and
`MakeNodes` are the environment.  `leftNodes`, `leftLinks` and `raced` are history:
what was there before a driver was registered with another number, and that modules
went while a command used numbers it had read.  `budget` bounds a behaviour.  A node
that a lister leaves out has the number 0 in its list, and is passed over.  A node is
looked for and made in one step, with its mode, of which no property speaks; the numbers
and the GPUs of `create-dev-char-symlinks` are read in one step.

### DriverFiles

Pure operators, without state: the locators and the discoverers of the driver's
libraries, sockets, firmware, binaries, graphics and storage files, over the list of
files of an installed version.  `WantFiles` is the reference: which files have to be
mounted, stated without search paths and orders.

### CDIGenerate and CDIRegistry

`CDIGenerate` extends `DeviceNodes` and `DriverFiles`: a generation runs on a host
that changes, and beside the commands.

| Model | Code |
|---|---|
| `Begin`, `Finish` | `validateFlags`; an error, the end or the death of the process |
| `New` | `nvcdi.New`: the test of nvsandboxutils, the driver's version |
| `DeviceSpecGenerators` | enumeration by id, all or none, in each mode |
| `GetDeviceSpecs`, `GetDeviceSpec`, `ShutdownAfterSpecs` | the libraries, and the specs of one device after the other |
| `GetCommonEdits` | driver root, graphics, control nodes, the wrapper's variable |
| `Build`, `Simplify`, `Dedupe`, `MergedDevice`, `SplitOnAnnotation` | `pkg/nvcdi/spec`, `pkg/nvcdi/transform`, `generateSpecs` |
| `Save` | one spec file: validation, temporary file, rename |
| `SandboxInit`, `SandboxShutdown`, `refs` | the wrapper's reference count |

Edits are sequences of entities: a mount, a hook, a variable, or a node with the
number it had when it was looked at.  The sorting of entities is left out, because
the properties are about sets and counts; the by-path links of a GPU are one hook with
a set of links, of which nvsandboxutils may give some and then fail.  A request may
disable hooks (`--disable-hook`), and `DisabledHooks` adds the two that management mode
disables; `NeededHook` says the same for the registry, from the comment at
`options.go:117`, and the mutant of this run forgets them in the code.  `--enable-hook`
is modelled in `CDIHooks`.

`CDIRegistry` is what generation promises: a file is only replaced by a complete
spec (nothing twice, `all` is the union of the devices), and, as long as nothing
has changed or failed since the request (`exact`), by what `Want` says for this host
and request.  The refinement mapping sends `host` to the record `Host` and the other
variables to those of the same name; every step but `Begin`, `Save` and those that
disturb is a stutter.

## 4. Runs

| Run | Question | Result |
|---|---|---|
| `installer` | Do the flock, the user's settings, the carried-over runtime, Cleanup, the pidfile and the signal handshake survive every interleaving of two processes with crashes? | pass |
| `installer_live` | Does a signal always end the daemon, and does an installation always end? | pass |
| `installer_finalizer` | Is there ever only one instance, as the flag says? | violated |
| `installer_early_exit` | Does a daemon that ends always unconfigure, as the comment of `Run` says? | violated |
| `nri` | Are losses of the connection reported, retried and survived, and does Stop return? | pass |
| `nri_lost_reconnect` | Is a reconnect under way whenever the connection is lost? | violated |
| `engine` | Do Setup and Cleanup do their work, and leave the user's settings alone, on every kind of host? | pass; a version 1 containerd with a drop-in path is configured without effect (section 6) |
| `engine_aliasing` | Are all runtimes derived from the source's default runtime? | violated |
| `container` | Does a container get the GPUs it requests, once, only if it may, in every mode and whatever else is in its spec, and is nothing run after a failed modification? | pass, with four exceptions (section 6) |
| `hooks` | Does a running container have the effect of all of its hooks, does the loader find the right library, and is no directory in two `00-nvcr` files, over starts that die, under changing drivers? | pass; the other drop-in files do grow (section 5) |
| `cdi` | Does generation implement the atomic registry while the host changes and libraries fail, and do nodes and links agree with `/proc/devices`? | pass |
| `container_gated` | Does a container in legacy mode get the GPUs it requests when it also requests GPUDirect Storage? | violated |

### Bounds

- Two processes and two inodes: the races about the pidfile are between a process
  that has opened and one that unlinks, and a new inode appears once the old one
  is unlinked.  `MaxReloadAttempts = 2` has a first, a middle and a last attempt.
- `OptionSet` has a daemon that signals, a one-shot installation that ignores
  errors and a daemon with NRI; the liveness run has every restart mode.
- `installer` has a TOML config, which an empty config removes, and
  `installer_live` a JSON one, which does not load when empty.
- `MaxDrops = 3` and `MaxRegisterTimeouts = 2` allow a loss during a reconnect
  and again after it.  `MaxCallbacks` only keeps ready callbacks from piling up.
- `engine` has docker, containerd with a drop-in, a version 1 containerd with and without
  one, and cri-o with one.  Two user runtimes (one of them `runc`), one mode runtime, one
  other setting:
  the order in which runtimes are added, a default that is not `runc`, and a
  runtime name that is taken all occur.  After an edit that raced with a save
  (`raced`) only the process at hand goes on, because nothing is claimed then.
- Two GPUs tell one from all.  `MCSpecs` has the environment variable in every
  form the code tells apart (unset, empty, `all`, `none`, `void`, an index, a
  repeated index, qualified, mixed and automatic names), with and without
  privileges, legacy image, gated features and a hook that is there already; and,
  beside an index in the environment, every mix of annotations, mounts and swarm
  variable.  `MCConfigs` has every mode, and every switch on and off; `MCHosts`
  both platforms, CSV hosts where the mixed generators work for no GPU, for the first
  and for both, an executable that fixes the mode, and a container that reaches
  the hook without the wrapper.  `Reconfigure` happens right before the hook reads
  the config: the wrapper reads it once, so that an earlier one is the same.
- `hooks` has three driver versions, two of them in one directory: a link to the
  library of an older version, and a directory of an older version, both occur.
  `MaxStarts = 2` has a start that finds what another one left; three starts (15
  million states) have been checked once, with the same result.  `MCSites` has every
  combination of distribution, host and `ld.so.conf`, and each other trait of an
  image once.
- `cdi` has two GPUs, whose order on the bus may change, with and without MIG mode,
  and two versions, the second with a library of the first left behind.
  `MCRequests` has every mode, both kinds of names, ids, none and all, and no, one or all
  hooks disabled.  `MCBudgets`
  is what a behaviour may have: two changes and two commands; a generation with two
  changes; a generation beside a command; two generations, where the second
  replaces the files of the first.  All at once is out of TLC's reach, and a
  generation with one change and one command (more than five minutes) is left out.

### Fairness

`Installer`: weak fairness of the two goroutines, which the Go scheduler gives; no
step of `Run` blocks except the wait for a signal.  `NRIPlugin`: weak fairness of
the goroutines, strong fairness where a step needs the mutex (`sync.Mutex` is
handed to a goroutine that has waited for a millisecond), and an engine that
comes back and answers on a live connection.  Signals, crashes, collections and
lost connections are never fair.

Deadlock is checked except for `Installer` and `NRIPlugin`, whose processes exit,
for `ContainerRuntime`, where a creation ends, for `CDIHooks`, whose container may
stay stopped, and for `CDIGenerate`, whose budget runs out.  The last two state
safety only and assume no fairness.

## 5. Proofs

Seven modules prove, for every value of the constants, the safety properties that the
runs check on small instances.  None of the properties is inductive; each module has
one inductive invariant, a conjunction of named parts, that TLC was given first.  A
part is shown to be preserved from the whole invariant, in one step per action, and
the properties follow from the parts.

### InstallerProofs

For any number of processes and inodes, any set of command lines, any bound on the
reload attempts, JSON or TOML.  The assumption is `ConstantsAssumption` of
`Installer`.  `InstallerInv` is the conjunction of

- `TypeOK`;
- `LockInv`: who holds the flock is who has the descriptor open;
- `PidInv`: a linked pidfile has a process that will remove it;
- `ExclusionInv`: without an overlap so far there is one admitted process;
- `SignalInv`, `NoLostSignal`: which combinations of the two goroutines and the
  channels occur;
- `UserInv`: where the user's settings are, on disk or in the memory of the one
  process that has truncated the file;
- `RuntimesInv`: where the low-level runtime is recorded;
- `CleanInv`: what a process in Cleanup has in memory.

`UserInv`, `RuntimesInv` and `CleanInv` need `ExclusionInv`, and `PidInv` needs
`LockInv` and `SignalInv`.

### NRIPluginProofs

For any number of lost connections, registration timeouts and pending callbacks.
`NRIInv` adds to `TypeOK` and `ReconnectAccounted`

- `MutexInv`: which goroutine holds the stub's mutex at which step;
- `ConnInv`: what is open while a `Start` is under way;
- `MainInv`: the first `Start` has no reconnect goroutine beside it;
- `CallbackInv`: how many callbacks are on their way.  A started stub has one exactly
  if its client is gone; one that is not has none when a goroutine is about to
  connect afresh, so that a new client never meets the callback of an old one.  A dead
  connection that the stub kept is the exception, and it is never connected again.

### ContainerRuntimeProofs

For any set of GPUs, any specs, configs and hosts, with lists of devices of any length.
The assumptions are `ConstantsAssumption` and `GPUAssumption`: there is a GPU, and
`all`, `none`, `void` and the empty string are no GPUs.  `RuntimeInv` is

- `TypeOK`;
- `PhaseInv`: which parts of the spec are still the request's, in memory and on disk;
- `ModifierInv`: from the construction of the modifiers on, the spec in memory is the
  request with some of them applied, and the others are to come;
- `HookInv`: what the hook has read and injected.

The properties about the running container follow from what the whole list of
modifiers does to a request (`Applying`), and lemmas say what `NewModifiers` gives in
each mode: it removes the hook and injects what is requested, or it keeps the hook and
injects no GPU.  `RequestsAreHonoured` needs what `VisibleDevices` gives for a list of
any length against `RequestedGPUs`, where the first special name of a list, which is the
least element of a set of positions, exists by well-founded induction over the naturals.
The proof showed that the property was false for lists with `none` beside other names,
an input that the run did not have then; it is now the fourth exception, and among
the inputs.

### EngineConfigProofs

For any number of user runtimes, settings, names and command lines.  The
assumption `ConstantsAssumption` says of the names what the code's constants are:
`runc` is a name a user's config may have, and the mode runtimes are none of the names
with a meaning of their own.  The theorems have the hypothesis `DefaultPaths`: containerd
and cri-o have a drop-in path.  The installer (`runtime.go:181-197`) and `nvidia-ctk`
(`configure.go:257-266`) set one unless they are told otherwise; section 6 says what
happens without it.  They set it for a version 1 containerd as well, which the theorems
cover with a drop-in path and without: `SetupTakesEffect` says that with one nothing is
configured.  `EngineInv` is

- `TypeOK`, and `PhaseInv`: which steps and which work left belong to which phase;
- `SeparateInv`: the runtimes of the toolkit are in the drop-in, never in the
  top-level file, if there is a drop-in;
- `VersionInv`, `ExistsInv`: files and configs in memory with contents have a version, but
  for the drop-in of a Cleanup, and the files that Cleanup will save over exist;
- `AddedInv`, `GoneInv`: how far the runtimes have come, from the destination over the
  files to the running engine, and how far they have gone;
- `UserInv`, `CurrentInv`: the user's part of the file, of the copies in memory and of
  the drop-in;
- `LowLevelInv`: no entry that counts as a low-level runtime is the toolkit's binary.

The operations on a config (`AddRuntime`, `RemoveRuntime`, `Save`) are treated once, in
lemmas about what each adds, removes and keeps.

### CDIHooksProofs

For any set of driver versions with any library directories, any images and hosts, any
hook options, and any bound on the starts.  The assumption `HooksAssumption` gives the
constants their types, and says that neither the compat directory nor the image's own
is that of a driver.  `HooksInv` is

- `TypeOK`, and `PhaseInv`: a start is one of the spec's driver, and its hooks are done
  in their order, compat before the cache;
- `ScratchInv`: the folders that this start may still make, within two per start;
- `DoneInv`: what every hook that is done has left, and no later one undoes;
- `LinksInv`: the links that `create-symlinks` has not left to make are made;
- `DropInInv`: what the drop-in files of each prefix can list, over all starts: the
  compat directory only after a start under an older driver;
- `ListInv`: from the filter on, the driver's directory is a system directory, listed, or
  about to be; a new file lists nothing that is listed;
- `MuslInv`: what is listed for glibc is in the `.path` file, in hand, or torn;
- `DirectoriesListedOnce`.

`LinksInv` is the hard part: a start may die between the removal and the creation of a
link, and ldconfig makes the link of the SONAME too, so that the invariant speaks of the
links that are left to make rather than of the step.  The drop-in
files grow over starts; lemmas say what a created and a written file add to what is
listed.  `LoaderFinds` takes the first of the five tiers of the cache that has a library.

### DeviceNodesProofs and CDIGenerateProofs

For any number of GPUs, any drivers, command lines, requests and budgets, from the
assumptions that give the constants their types.  `NodesInv` is about the host and its
commands:

- `NodesTypeOK`, and `TodoInv`: what kind of work is left in which step;
- `NumbersInv`: the numbers that a command has read are still those of the drivers,
  unless modules were unloaded since;
- `CreatedInv`: a control node exists once it is not left to make;
- `NodesFit`, `LinksFit`, `ListedFit`: the number of a node, of a link, and of a link
  that is left to make, is its driver's, or the node or link is one that was left behind.

That only nodes of GPUs are linked needs that a bus without repetition is no longer than
there are GPUs, which is the pigeonhole principle of the library.  `GenerateInv` adds the
phases of a generation, the device specs so far and the reference count.
The proof showed that the count says nothing of modes that do not initialise
nvsandboxutils, which the requests of the run do not combine with it; `TypeOK` now says
so.  `TakesRegistrySteps` is what is proved of the refinement: every step
is a step of `CDIRegistry` without what it demands of the contents of a spec.

### Model-checked only

- Liveness (`SignalTerminates`, `InstallTerminates`, `Reconnects`, `StopReturns`): the
  prover has no fairness.
- The contents of specs in the refinement of `CDIRegistry` by `CDIGenerate` with
  `DriverFiles`: lookup, removal of duplicates and merging select from and concatenate
  sequences, whose definitions are recursive and of which the prover knows nothing.

## 6. Where code and comments differ

The five violation runs are described under `findings` in `PROJECT.json`.  The
models show more of the kind, for which there is no run of their own:

- `main.go:397`: a process unlinks the pidfile that a second one has opened and
  not locked; a third one creates and locks a new one.  `SingleInstance` with
  `Collectable = {}` shows it.
- `plugin.go:163-173`: `stopped` is read before the backoff and not after it, so
  that a reconnect may succeed after `Stop` has returned; the comment at line 54
  says otherwise.  The process exits right after.
- `plugin.go:173` with `stub.go:549`: a registration that times out leaves the
  closed connection in the stub, which the next `Start` uses again; it never
  recovers.  `Reconnects` without `OneLossAtMost` shows it.
- `plugin.go:193` with `stub.go:444-449`: a connection lost between registration
  and `Configure` leaves `Start` waiting with the mutex that `Stop` needs.
  `StopReturns` without `OneLossAtMost` shows it.
- `runtime.go:181` with `containerd.go:122-125`: the drop-in path has a default for every
  containerd.  A version 1 config is saved to it as a whole, nothing imports it, and
  Setup completes while the engine runs without the nvidia runtimes.  The tests have
  "TODO: Add test case for v1 and DropInConfig. This should fail."
  (`containerd/config_test.go:38`).  `SetupTakesEffect` states what the code does for
  `DropInUnread`; without that case the run violates it.
- `containerd.go:218-225`: the drop-in starts as a copy of one section, and only
  `AddRuntime` gives it a version.  What Cleanup saves has none, and stays imported when
  the process dies before it is removed.  `VersionKept` says that no other step does it.
- `lib-csv.go:60-106`: if the mixed CSV generators fail, the pure one is used, and a
  request for all GPUs gives the first only.  `InjectedAsRequested` allows it as
  `OnlyFirstOfAll`.
- `config_drop_in.go:68-84`: containerd without a drop-in path saves destination
  and top-level config to the same file; `SetupTakesEffect` with a host
  `[engine |-> "containerd", dropIn |-> FALSE]` shows it.
- `docker.go:113`: a loaded `features` map is never a `map[string]bool`, so that
  enabling CDI replaces the user's features.
- `devices.go:92-117`: a device named twice (`0,0`) keeps the empty string at its
  first position.  In `jit-cdi` mode that is the device `none`, and the container
  gets no GPU.  `RequestHonoured` with `NVIDIA_VISIBLE_DEVICES=0,0` shows it;
  `InjectedAsRequested` excepts it as `NamedTwice`.
- `csv.go:80-87`, `cdi.go:232-265` and `wrapper.go:53`: `none` is the empty id, which
  is dropped, and without ids a spec is generated for all GPUs.  The README of
  `nvidia-container-runtime` says at line 100 that no GPU will be accessible.
  `RequestHonoured` with `none` in CSV mode shows it; `InjectedAsRequested` excepts
  it as `NoneInCSVMode`.
- `cuda_image.go:255-275` with `devices.go:35-50`: in the environment the first special
  name of a list decides; lists from mounts and annotations, and qualified names, are
  passed on as they are, and the consumers differ.  For `1,none` in mounts the legacy
  hook injects GPU 1, a spec generated with NVML nothing (`lib-nvml.go:66-73`).
  `RequestHonoured` with such mounts shows it; `InjectedAsRequested` excepts it as
  `NoneBesidesOthers`.
- `pkg/config/engine/crio/crio.go:77`: without a drop-in path the destination of
  cri-o, which starts empty, is saved over the user's `crio.conf`.
  `UserFilePreserved` with a host `[engine |-> "crio", dropIn |-> FALSE]` shows it.
- `crio.go:182-209`: Cleanup of cri-o only unsets the default runtime; the entries
  stay.
- `internal/ldconfig/ldconfig.go:287`: an `ld.so.conf` that was created by a start
  that died before it was written stays empty, because it is created with `O_EXCL`;
  the drop-in files are never included.  `LoaderFindsLibrary` without
  `top = "include"` shows it.
- `ldconfig.go` with the `.path` file of musl: the directories are filtered by what
  a dead start has listed in `ld.so.conf.d`, which musl does not read.
  `MuslFindsLibrary` without `torn` shows it.
- `cmd/nvidia-cdi-hook/cudacompat/cudacompat.go:235`: the drop-in of an earlier start
  stays when the driver is upgraded, and the older compat library is used.
  `LoaderFindsLibrary` excepts it with `started`.
- `internal/ldconfig/ldconfig_linux.go:184-222` and
  `disable-device-node-modification/params_linux.go:32`: every start leaves folders
  `nvidia-ctk-hook...` in the container's `/run` if that is part of its root file
  system (`scratch`).
- `cmd/nvidia-cdi-hook/chmod/chmod.go:131`: only the error of the last folder is
  returned.  `HooksTookEffect` says so.
- `cmd/nvidia-cdi-hook/commands/commands.go:106`: a hook that the CLI does not
  implement succeeds.
- `pkg/nvcdi/lib.go:153-164`: the versioner calls nvsandboxutils after `New` has shut
  it down, and NVML answers instead; without either, the version is that of the first
  `libcuda` that is found (`internal/lookup/root/root.go:160`), which may be one left
  behind: `New` ends `exact` there.
- `internal/nvsandboxutils/impl.go:21`: an `Init` that fails after the library was
  loaded leaves the reference count raised.
- `internal/discover/first-valid.go:61`: `Devices` of nvsandboxutils fails and NVML's
  are used, but its hooks are valid and those for the links it had found so far
  (`nvsandboxutils.go:92-101`): the other by-path links are lost.
  `GetDeviceSpec` ends `exact` there.
- `pkg/system/nvdevices/mknod.go`: a node that exists with another major number
  is left as it is.  `NodesAndLinksAgree` without `leftNodes` shows it.
- `create-dev-char-symlinks/all.go`: GPUs are counted from 0 to their number, whatever
  their minor numbers are.
- `cmd/nvidia-ctk/cdi/generate/generate.go`: a `.coherent` or `.noncoherent` file of
  an earlier run stays when there are no such devices any more; without devices the
  spec is invalid, and the old file stays.

## 7. Not modelled

Of the installer: an error in the creation of the pidfile's directory or of the pidfile
itself (`main.go:336-345`), after which nothing was done, and a list of low-level runtimes
on the command line (`main.go:287`), with which none are looked for.  Of spec generation:
the CSV and WSL modes, which list files of other platforms, the
feature flag for explicit driver libraries, and how the mode is chosen.  Of lookup:
the parser of `ld.so.cache`.  Tegra support reads lists of mounts for the CSV mode.
Requirements are a pure evaluation of constraints, and the toolkit's config file has
getters and defaults only.  The bindings (`internal/cuda`, `internal/dxcore`, the
generated part of `internal/nvsandboxutils`) are thin.  Which files are installed,
the text of the wrappers, and logging have no bearing on the properties.  cri-o's OCI
hook mode writes and removes one file.
What the plan has left is in section 2; every component is in `PROJECT.json` with
its status.
