-------------------------- MODULE ContainerRuntime --------------------------
(***************************************************************************)
(* The creation of one container.  The engine calls the NVIDIA Container   *)
(* Runtime (internal/runtime), which modifies the container's config.json  *)
(* (internal/oci, internal/modifier) and executes the low-level runtime;   *)
(* that runs the prestart hooks, the NVIDIA Container Runtime Hook         *)
(* (cmd/nvidia-container-runtime-hook) among them.  Both read the toolkit's*)
(* config.toml, which may change between the two.  With docker --gpus the  *)
(* hook is in the spec already, and the wrapper may not be used at all.    *)
(***************************************************************************)
EXTENDS DeviceRequests

CONSTANTS
  Specs,       \* the container specs considered
  Configs,     \* the contents of config.toml considered
  Hosts        \* the hosts considered, a subset of Host

\* What an image enables with NVIDIA_GDS and NVIDIA_DRIVER_CAPABILITIES.
Feature == {"gds", "graphics"}

\* The platform, whether the engine calls the wrapper, the mode that is fixed by the
\* wrapper's executable (nvidia-container-runtime.cdi, .legacy), and the GPUs for which
\* the mixed CSV generators work: none without NVML, for one GPU, or with the feature
\* flag disable-multiple-csv-devices, else an integrated GPU 0 and a discrete GPU 1,
\* as far as NVML answers.
Platform == {"nvml", "tegra"}
Host == [platform : Platform, wrapped : BOOLEAN, modeOverride : {"", "cdi", "legacy"},
         mixed : SUBSET GPU]

\* config.json: the request, and what has been added to it.  A mount whose device
\* name would be empty is no request (cuda_image.go:387-391).
OCISpec ==
  [complete : BOOLEAN, env : Variable, swarm : Variable,
   annotations : Seq(DeviceName), mounts : Seq(DeviceName \ {Plain("")}),
   privileged : BOOLEAN, legacyImage : BOOLEAN, features : SUBSET Feature,
   nvidiaHooks : 0 .. 1, gpus : SUBSET GPU, edits : SUBSET Feature]

Config == [mode : Mode \cup {"auto"}, annotationPrefixes : BOOLEAN, acceptMounts : BOOLEAN,
           acceptEnv : BOOLEAN, swarmResource : BOOLEAN, skipModeDetection : BOOLEAN]

ASSUME ConstantsAssumption ==
  /\ \A s \in Specs : s \in OCISpec /\ s.complete /\ s.gpus = {} /\ s.edits = {}
  /\ Configs \subseteq Config
  /\ Hosts \subseteq Host

VARIABLES
  host,      \* the host, which does not change
  config,    \* config.toml
  spec,      \* config.json of the container
  pc,        \* the next step
  cfg,       \* the wrapper's copy of the config, with the mode it has resolved
  mem,       \* the spec in the wrapper's memory
  todo,      \* the modifiers it has yet to apply
  cli,       \* the GPUs injected by nvidia-container-cli
  request,   \* history: the spec as the engine wrote it
  asked,     \* history: the config the wrapper has read
  hookcfg    \* history: the config the hook has read

history == <<request, asked, hookcfg>>
vars == <<host, config, spec, pc, cfg, mem, todo, cli, history>>

Ended == {"running", "failed", "refused"}

\* A modifier: it removes or adds the hook, or applies edits; those of a CDI spec
\* set NVIDIA_VISIBLE_DEVICES to void as well.
Modifier ==
  [type : {"cdi", "edits"}, gpus : SUBSET GPU, edits : SUBSET Feature]
    \cup [type : {"remover", "hook"}, gpus : {{}}, edits : {{}}]

TypeOK ==
  /\ host \in Hosts /\ config \in Configs
  /\ spec \in OCISpec /\ mem \in OCISpec /\ request \in Specs
  /\ pc \in {"start", "init", "modify", "apply", "write", "exec", "hook", "cli"} \cup Ended
  /\ cfg \in Config /\ asked \in Config /\ hookcfg \in Configs
  /\ todo \in Seq(Modifier)
  /\ cli \subseteq GPU

Init ==
  /\ host \in Hosts /\ config \in Configs /\ spec \in Specs
  /\ pc = IF host.wrapped THEN "start" ELSE "exec"
  /\ cfg = config /\ asked = config /\ hookcfg = config
  /\ mem = spec /\ request = spec
  /\ todo = <<>> /\ cli = {}

----------------------------------------------------------------------------
(* internal/runtime *)

WithMode(c, mode) == [c EXCEPT !.mode = mode]

\* Run: the config is read, and the executable's mode replaces the configured one.
Start ==
  /\ pc = "start"
  /\ cfg' = IF host.modeOverride = "" THEN config ELSE WithMode(config, host.modeOverride)
  /\ asked' = cfg'
  /\ hookcfg' = config
  /\ pc' = "init"
  /\ UNCHANGED <<host, config, spec, mem, todo, cli, request>>

\* (mutant) the annotations are not dropped in modes other than cdi
InitRuntimeModeAndImageKeepsAnnotations ==
  /\ pc = "init"
  /\ cfg' = WithMode(cfg, ResolveRuntimeMode(cfg.mode,
                            VisibleDevices(spec, cfg, cfg.annotationPrefixes), host.platform, "jit-cdi"))
  /\ pc' = "modify"
  /\ UNCHANGED <<host, config, spec, mem, todo, cli, history>>

\* initRuntimeModeAndImage: the mode follows from the devices; in modes other than
\* cdi annotations are not considered, and the image is constructed without them.
InitRuntimeModeAndImage ==
  /\ pc = "init"
  /\ LET mode == ResolveRuntimeMode(cfg.mode, VisibleDevices(spec, cfg, cfg.annotationPrefixes),
                                    host.platform, "jit-cdi")
     IN  cfg' = [WithMode(cfg, mode) EXCEPT !.annotationPrefixes = @ /\ mode = "cdi"]
  /\ pc' = "modify"
  /\ UNCHANGED <<host, config, spec, mem, todo, cli, history>>

----------------------------------------------------------------------------
(* internal/modifier: a constructor returns the modifiers, or fails *)

Made(modifiers) == [ok |-> TRUE, modifiers |-> modifiers]
Failed == [ok |-> FALSE, modifiers |-> <<>>]

HookRemover == [type |-> "remover", gpus |-> {}, edits |-> {}]
StableRuntimeModifier == [type |-> "hook", gpus |-> {}, edits |-> {}]
CDIModifier(gpus, features) == [type |-> "cdi", gpus |-> gpus, edits |-> features]
DiscoverModifier(features) == [type |-> "edits", gpus |-> {}, edits |-> features]

\* A spec generated with NVML: the first none or all decides, whatever precedes it.
NVMLSpec(ids) ==
  LET deciding == {i \in DOMAIN ids : ids[i].id \in {"all", "none"}}
  IN  IF deciding # {} THEN Made(<<CDIModifier(NamedGPUs(ids[First(deciding)]), {})>>)
      ELSE IF \E d \in Range(ids) : d.id \notin GPU THEN Failed
      ELSE Made(<<CDIModifier(GPUsNamed(Range(ids)), {})>>)

\* A spec generated from CSV files, for all GPUs if it is for none or if all is among
\* the names.  When the mixed generators are not used, or fail for one of the devices,
\* there is the pure CSV generator: it knows all and 0, and generates device 0 for both.
CSVSpec(names, mixed) ==
  LET all == names = {} \/ Plain("all") \in names
      wanted == IF all THEN GPU ELSE GPUsNamed(names)
      known == all \/ \A d \in names : d.kind = "plain" /\ d.id \in GPU
  IN  IF known /\ wanted \subseteq mixed THEN Made(<<CDIModifier(wanted, {})>>)
      ELSE IF names \subseteq {Plain("all"), Plain("0")} THEN Made(<<CDIModifier({"0"}, {})>>)
      ELSE Failed

\* newAutomaticCDISpecModifier: the platform decides how the spec is generated.
AutomaticCDISpec(ids, h) ==
  IF h.platform = "tegra" THEN CSVSpec(Range(ids), h.mixed) ELSE NVMLSpec(ids)

\* gatedDevices, each with a CDI spec of its own.
GatedDevices(s) == IF "gds" \in s.features THEN <<CDIModifier({}, {"gds"})>> ELSE <<>>

\* (mutant) the gated devices are added to containers without GPUs, too
FeatureGatedModifierAlways(s, devices) == GatedDevices(s)

FeatureGatedModifier(s, devices) == IF devices = <<>> THEN <<>> ELSE GatedDevices(s)

GraphicsModifier(s, devices) ==
  IF devices # <<>> /\ "graphics" \in s.features THEN <<DiscoverModifier({"graphics"})>> ELSE <<>>

\* newCSVModifier: cdiModeIdentfiersFromDevices drops the empty id.
CSVModifier(devices, h) ==
  IF devices = <<>> THEN Made(<<>>) ELSE CSVSpec(Range(devices) \ {Plain("")}, h.mixed)

\* DeviceRequests: the empty string is none, and unqualified names get the default
\* kind.  (Repeated names, which are dropped, make no difference to what follows.)
DeviceRequest(d, defaultKind) ==
  IF IsQualifiedName(d) THEN d
  ELSE [kind |-> defaultKind, id |-> IF d.id = "" THEN "none" ELSE d.id]

DeviceRequestsOf(devices, defaultKind) ==
  [i \in DOMAIN devices |-> DeviceRequest(devices[i], defaultKind)]

Unqualified(names) == [i \in DOMAIN names |-> Plain(names[i].id)]

\* The registry knows the GPUs and all of them together (nvidia-ctk cdi generate).
\* A name it does not know is an error of Modify, before anything is written.
RegistryModifier(names) ==
  IF \E d \in names : d.id \notin GPU \cup {"all"} THEN Failed
  ELSE Made(<<CDIModifier(GPUsNamed(names), {})>>)

\* newCDIModifier: the devices of the registry, or a spec that is generated, with
\* the gated devices, but not both.
NewCDIModifier(s, devices, isJitCDI, h) ==
  LET names == DeviceRequestsOf(devices, IF isJitCDI THEN "automatic" ELSE "vendor")
      automatic == {d \in Range(names) : d.kind = "automatic"}
  IN  IF names = <<>> THEN Made(<<>>)
      ELSE IF automatic \notin {{}, Range(names)} THEN Failed
      ELSE IF automatic = {} THEN RegistryModifier(Range(names))
      ELSE LET generated == AutomaticCDISpec(Unqualified(names), h)
           IN  [generated EXCEPT !.modifiers = @ \o GatedDevices(s)]

Prepend(first, made) == [made EXCEPT !.modifiers = first \o @]

\* Factory.create: the modifiers of each mode, in their order.
NewModifiers(s, c, h) ==
  LET devices == VisibleDevices(s, c, c.annotationPrefixes)
  IN  CASE c.mode = "cdi"     -> Prepend(<<HookRemover>>, NewCDIModifier(s, devices, FALSE, h))
        [] c.mode = "jit-cdi" -> Prepend(<<HookRemover>>, NewCDIModifier(s, devices, TRUE, h))
        [] c.mode = "csv"     -> Prepend(<<HookRemover>> \o FeatureGatedModifier(s, devices),
                                         CSVModifier(devices, h))
        [] c.mode = "legacy"  -> Made(FeatureGatedModifier(s, devices) \o GraphicsModifier(s, devices)
                                        \o <<StableRuntimeModifier>>)

\* The spec is loaded again and the modifiers are constructed.  Without a modifier
\* for the mode the others are still applied.
CreateModifiers ==
  /\ pc = "modify"
  /\ NewModifiers(spec, cfg, host).ok
  /\ mem' = spec
  /\ todo' = NewModifiers(spec, cfg, host).modifiers
  /\ pc' = "apply"
  /\ UNCHANGED <<host, config, spec, cfg, cli, history>>

\* (mutant) an nvidia hook in the spec is not recognised
RemoveHookIgnored(s) == s

RemoveHook(s) == [s EXCEPT !.nvidiaHooks = 0]

\* (mutant) a hook is added to those that are there
AddHookAgain(s) == [s EXCEPT !.nvidiaHooks = @ + 1]

\* An existing nvidia hook is left alone.
AddHook(s) == [s EXCEPT !.nvidiaHooks = IF @ > 0 THEN @ ELSE 1]

Void == [set |-> TRUE, list |-> <<Plain("void")>>]

ApplyEdits(s, m) ==
  [s EXCEPT !.gpus = @ \cup m.gpus, !.edits = @ \cup m.edits,
            !.env = IF m.type = "cdi" THEN Void ELSE @]

Apply(m, s) ==
  CASE m.type = "remover" -> RemoveHook(s)
    [] m.type = "hook"    -> AddHook(s)
    [] OTHER              -> ApplyEdits(s, m)

\* list.Modify, one modifier after the other, in memory.
ApplyModifier ==
  /\ pc = "apply"
  /\ todo # <<>>
  /\ mem' = Apply(Head(todo), mem)
  /\ todo' = Tail(todo)
  /\ UNCHANGED <<host, config, spec, pc, cfg, cli, history>>

----------------------------------------------------------------------------
(* internal/oci *)

\* Flush: config.json is truncated ...
TruncateSpec ==
  /\ pc = "apply"
  /\ todo = <<>>
  /\ spec' = [spec EXCEPT !.complete = FALSE]
  /\ pc' = "write"
  /\ UNCHANGED <<host, config, cfg, mem, todo, cli, history>>

\* (mutant) the error of the encoder is ignored
WriteSpecUnchecked ==
  /\ pc = "write"
  /\ spec' \in {spec, mem}
  /\ pc' = "exec"
  /\ UNCHANGED <<host, config, cfg, mem, todo, cli, history>>

\* ... and encoded.
WriteSpec ==
  /\ pc = "write"
  /\ spec' = mem
  /\ pc' = "exec"
  /\ UNCHANGED <<host, config, cfg, mem, todo, cli, history>>

\* The low-level runtime is executed and runs the prestart hooks.
ExecLowLevelRuntime ==
  /\ pc = "exec"
  /\ pc' = IF spec.nvidiaHooks > 0 THEN "hook" ELSE "running"
  /\ UNCHANGED <<host, config, spec, cfg, mem, todo, cli, history>>

----------------------------------------------------------------------------
(* cmd/nvidia-container-runtime-hook *)

\* (mutant) the hook trusts the environment of every container
HookDevicesUnchecked(s, c) == VisibleDevices(s, [c EXCEPT !.acceptEnv = TRUE], FALSE)

\* getContainerConfig: the devices as the wrapper sees them, without annotations.
HookDevices(s, c) == VisibleDevices(s, c, FALSE)

\* (mutant) the mode is detected even when it is configured
ModeIsLegacyByDetection(s, c) ==
  c.skipModeDetection \/ ResolveRuntimeMode("auto", HookDevices(s, c), host.platform, "legacy") = "legacy"

\* assertModeIsLegacy: for the hook, auto means legacy by default.
ModeIsLegacy(s, c) ==
  c.skipModeDetection \/ ResolveRuntimeMode(c.mode, HookDevices(s, c), host.platform, "legacy") = "legacy"

\* doPrestart: the config and the spec are read.  A container without devices is
\* left alone, and one that the wrapper should have handled is refused.
Prestart ==
  /\ pc = "hook"
  /\ hookcfg' = config
  /\ \/ /\ HookDevices(spec, config) = <<>>
        /\ pc' = "running"
     \/ /\ HookDevices(spec, config) # <<>>
        /\ pc' = IF ModeIsLegacy(spec, config) THEN "cli" ELSE "refused"
  /\ UNCHANGED <<host, config, spec, cfg, mem, todo, cli, request, asked>>

\* nvidia-container-cli configure: it knows unqualified names only.
RunCLI ==
  /\ pc = "cli"
  /\ \A d \in Range(HookDevices(spec, hookcfg)) : ~IsQualifiedName(d)
  /\ cli' = GPUsNamed(Range(HookDevices(spec, hookcfg)))
  /\ pc' = "running"
  /\ UNCHANGED <<host, config, spec, cfg, mem, todo, history>>

----------------------------------------------------------------------------
\* Any step fails, or its process is killed, and the container is not created: no
\* low-level runtime, a spec that does not parse, a modifier, a full disk.
Fail ==
  /\ pc \notin Ended
  /\ pc' = "failed"
  /\ UNCHANGED <<host, config, spec, cfg, mem, todo, cli, history>>

\* The installer or an administrator replaces config.toml.  Only the hook reads it
\* again: a replacement at any earlier time is the same as one right before that.
Reconfigure(c) ==
  /\ pc = "hook"
  /\ config' = c
  /\ UNCHANGED <<host, spec, pc, cfg, mem, todo, cli, history>>

Next ==
  \/ Start \/ InitRuntimeModeAndImage \/ CreateModifiers \/ ApplyModifier
  \/ TruncateSpec \/ WriteSpec \/ ExecLowLevelRuntime
  \/ Prestart \/ RunCLI
  \/ Fail
  \/ \E c \in Configs : Reconfigure(c)

Spec == Init /\ [][Next]_vars

----------------------------------------------------------------------------
(* Properties *)

\* The GPUs the container has.
Injected == spec.gpus \cup cli

\* Wrapper and hook have read the same policy on requests.
SamePolicy ==
  /\ hookcfg.acceptMounts = asked.acceptMounts /\ hookcfg.acceptEnv = asked.acceptEnv
  /\ hookcfg.swarmResource = asked.swarmResource

\* The documentation of the runtime (cmd/nvidia-container-runtime/README.md:44-46,
\* 94-101): a container gets the GPUs that it requests, whatever the mode.  In legacy
\* mode it does not get them when it also requests a gated device: the CDI spec of
\* that device sets NVIDIA_VISIBLE_DEVICES to void, which the hook reads.
RequestHonoured ==
  pc = "running" /\ host.wrapped /\ SamePolicy => Injected = RequestedGPUs(request, asked)

\* The environment variable the request comes from, if it does.
FromEnv == ~(asked.acceptMounts /\ request.mounts # <<>>)
Requesting == VisibleEnvVar(request, asked)

\* The four requests that are not honoured: a gated device in legacy mode; a device
\* named twice, whose first position becomes none (devices.go:92-117); none in CSV
\* mode, whose empty id stands for all (csv.go:80-87, cdi.go:257-265); and none or void
\* besides other names, in mounts, annotations or qualified names, where the first
\* special name does not decide (cuda_image.go:255-275, nvcdi/lib-nvml.go:66-73).
GatedInLegacyMode ==
  cfg.mode = "legacy" /\ "gds" \in request.features /\ FromEnv /\ Requesting = request.env
NamedTwice ==
  \E i, j \in DOMAIN Requesting.list : i # j /\ Requesting.list[i] = Requesting.list[j]
NoneInCSVMode == cfg.mode = "csv" /\ Plain("none") \in Range(Requesting.list)
NoneBesidesOthers ==
  LET devices == VisibleDevices(request, asked, cfg.annotationPrefixes)
  IN  Len(devices) > 1 /\ \E d \in Range(devices) : d.id \in {"none", "void"}

\* One that is honoured in part: all GPUs, where the CSV generators are the pure ones,
\* which inject the first and no more (nvcdi/lib-csv.go:60-106).
OnlyFirstOfAll ==
  /\ cfg.mode = "csv" \/ (cfg.mode # "legacy" /\ host.platform = "tegra")
  /\ ~(GPU \subseteq host.mixed)
  /\ RequestedGPUs(request, asked) = GPU
  /\ Injected = {"0"}

\* A container that runs has the GPUs it requests, with the four exceptions, or the
\* first of them where it requests all and no more can be had: by whatever source, in whatever mode, with a hook in the spec or not, and with a
\* config that changes while it is created (cuda_image.go:253-292, cdi.go:40-124,
\* runtime_factory.go:87-130, container_config.go:177-265).
InjectedAsRequested ==
  ~GatedInLegacyMode /\ ~NamedTwice /\ ~NoneInCSVMode /\ ~NoneBesidesOthers
    => RequestHonoured \/ OnlyFirstOfAll

\* GPUs are injected once: by CDI edits or by the hook, which is in the spec once
\* (hook_remover.go:38-69, stable.go:43-72, wrapper.go:95-103).
InjectedOnce == pc = "running" => spec.gpus = {} \/ cli = {}

\* The environment of an unprivileged container is not trusted unless the config
\* says so, by the wrapper or by the hook, whoever injects (cuda_image.go:277-291): it
\* has no GPU that none of its annotations and mounts names.
EnvNeedsPrivilege ==
  ~request.privileged /\ ~asked.acceptEnv /\ ~hookcfg.acceptEnv =>
    Injected \subseteq GPUsNamed(Range(request.annotations) \cup Range(request.mounts))

\* The low-level runtime is executed with the spec as the modifiers left it, all of
\* it, and never after a failed or partial modification (runtime_modifier.go:51-84,
\* spec_file.go:97-126).
RunsWhatWasModified ==
  host.wrapped /\ pc \in {"exec", "hook", "cli", "running"} => spec.complete /\ spec = mem /\ todo = <<>>

\* Gated devices go with GPUs: a container that requests devices gets them, except
\* with devices from the CDI registry, and one that does not gets nothing
\* (gated.go:27-53, cdi.go:56-87).
GatedWithDevices ==
  pc = "running" /\ host.wrapped =>
    LET devices == VisibleDevices(request, asked, cfg.annotationPrefixes)
    IN  /\ devices = <<>> => spec.edits = {}
        /\ /\ devices # <<>> /\ cfg.mode # "cdi"
           /\ cfg.mode = "jit-cdi" => \A d \in Range(devices) : d.kind # "vendor"
           => ("gds" \in spec.edits <=> "gds" \in request.features)

\* The hook does not refuse a container that the wrapper has prepared for it, unless
\* it reads another mode in its config than the wrapper used (hook_config.go:115-131).
HookAgrees ==
  pc = "refused" /\ host.wrapped => hookcfg.mode # asked.mode
=============================================================================
