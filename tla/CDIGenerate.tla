---------------------------- MODULE CDIGenerate ----------------------------
(***************************************************************************)
(* The generation of CDI specs (nvidia-ctk cdi generate and pkg/nvcdi) on  *)
(* the host of DeviceNodes.  The devices are enumerated, their edits made  *)
(* and the edits they share: the host may change between any two of these  *)
(* steps, libraries fail, and the process is killed.  The specs are then   *)
(* simplified, merged, and written one file after another.                 *)
(***************************************************************************)
EXTENDS DeviceNodes, DriverFiles

CONSTANTS
  CoherentOf,      \* of a GPU: whether it is coherent, as NVML says
  Requests         \* the command lines

Gated == {"gds", "gdrcopy", "mofed", "nvswitch"}
Mode == {"nvml", "management", "imex"} \cup Gated
All  == <<"all", 0>>
None == <<"none", 0>>

\* Names and ids of devices: full GPUs and MIG devices by index and by UUID (here the
\* minor number of the GPU), and channels.
Id == ({"gpu", "mig"} \X {"index", "uuid"} \X Nat) \cup {Channel}

\* The hooks in specs, of which a command line may disable some, or "all".
CompatHook == "enable-cuda-compat"
NodesHook  == "disable-device-node-modification"
HookName   == {"create-symlinks", "update-ldcache", CompatHook, NodesHook}

\* A command line, and whether libnvidia-sandboxutils is installed.
Request == [mode : Mode, ids : Seq(Id \cup {All, None}), namers : SUBSET {"index", "uuid"},
            noAll : BOOLEAN, coherent : BOOLEAN, sandbox : BOOLEAN,
            disabledHooks : SUBSET (HookName \cup {"all"})]

NoRequest == [mode |-> "nvml", ids |-> <<>>, namers |-> {}, noAll |-> FALSE,
              coherent |-> FALSE, sandbox |-> FALSE, disabledHooks |-> {}]

\* The files: that of all devices and those of the coherent and of the other GPUs.
File == {"", ".coherent", ".noncoherent"}
NoFile == <<>>

ASSUME GenerateAssumption ==
  /\ CoherentOf \in [Gpu -> {"true", "false", "error"}]
  /\ \A q \in Requests : q \in Request /\ q.namers # {} /\ q.ids # <<>>

VARIABLES
  version,   \* the driver that is installed
  request,   \* the options of the generation
  gpc,       \* its next step
  lib,       \* nvsandboxutils is to be used
  refs,      \* the reference count of its shared object
  asked,     \* the driver version that New got, 0 if it got none
  gens,      \* the device spec generators that are left: <<kind, index, GPU>>
  devs,      \* the device specs: name, edits and annotation
  common,    \* the edits that all devices share
  pending,   \* the files that are to be written
  files,     \* the CDI spec files
  exact      \* history: nothing has changed or failed since the request

genVars == <<request, gpc, lib, refs, asked, gens, devs, common, pending, files>>
vars == <<nodesVars, version, genVars, exact>>

Host == [bus |-> bus, mig |-> mig, version |-> version, nodes |-> nodes]

----------------------------------------------------------------------------
(* Edits: a sequence of entities, each a mount, a hook, an environment variable, or a
   device node with the number it had when it was looked at *)

Void      == <<"env", "NVIDIA_VISIBLE_DEVICES", "void">>
Empty     == <<"env", "NVCT_EMPTY_DEVICE", "">>
NodeEntity(ns, n) == <<"node", n, ns[n]>>

\* NewCharDeviceDiscoverer and device.toEdits: of the nodes asked for, those that exist.
CharDevices(ns) ==
  Each(LAMBDA n : NodeEntity(nodes, n), SelectSeq(ns, LAMBDA n : n \in Present))

\* (mutant) only the hooks of the command line are disabled
DisabledHooksAsAsked(o) == o.disabledHooks

\* populateOptions: in management mode two hooks are disabled besides.
DisabledHooks(o) ==
  o.disabledHooks \cup (IF o.mode = "management" THEN {CompatHook, NodesHook} ELSE {})

\* The by-path links of the two DRM nodes of a GPU, and the hook for those that are found.
DriLink(g) == << <<"card", g>>, <<"render", g>> >>
ByPath(found) ==
  IF found = {} THEN <<>> ELSE CreateHook("create-symlinks", found, DisabledHooks(request))

\* The NVML discoverer of a full GPU, with the hook for the by-path links of its DRM
\* nodes, and that of a MIG device.
NvmlDevices(kind, g) ==
  CharDevices(IF kind = "gpu" THEN <<GpuNode(g), DriNode(g)>> ELSE <<GpuNode(g), CapNode(g)>>)
DriLinks(kind, g) == IF kind = "gpu" /\ DriNode(g) \in Present THEN ToSet(DriLink(g)) ELSE {}
NvmlHooks(kind, g) == ByPath(DriLinks(kind, g))

\* nvsandboxutils: its hooks are for the links it found before Devices succeeded or failed,
\* and are valid all the same.
SandboxHooks(kind, g, found) == ByPath(DriLinks(kind, g) \cap found)

\* FirstValid: what the first discoverer gives if that is no error.
FirstValid(valid, a, b) == IF valid THEN a ELSE b

\* NewForDevice and NewForMigDevice: nvsandboxutils, if it is to be used, and NVML.
NewForDevice(kind, g, use, found) ==
  NvmlDevices(kind, g) \o FirstValid(use, SandboxHooks(kind, g, found), NvmlHooks(kind, g))

\* The nodes of managementlib: those for storage and switches match nvidia* as well, but
\* are blocked.
NodeIsBlocked(n) == n \in {FsNode, SwitchNode}
ManagementNodes ==
  SelectSeq(ControlNodes \o <<FsNode, SwitchNode>> \o GpuNodes(NumGpus) \o <<Channel>>,
            LAMBDA n : ~NodeIsBlocked(n))

\* getModeDiscoverer of gatedlib: nodes, and for GDS mounts if there are any.
ModeDiscoverer(mode, v) ==
  CASE mode = "gds"      -> CharDevices(<<FsNode>>) \o (IF FsNode \in Present THEN GDSMounts(v) ELSE <<>>)
    [] mode = "gdrcopy"  -> CharDevices(<<GdrNode>>)
    [] mode = "mofed"    -> CharDevices(<<VerbsNode>>)
    [] mode = "nvswitch" -> CharDevices(<<SwitchNode>>)

----------------------------------------------------------------------------
(* The transformation of a spec: pkg/nvcdi/spec and pkg/nvcdi/transform *)

EntityIds(s) == ToSet(s)
RemoveEntities(s, ids) == SelectSeq(s, LAMBDA e : e \notin ids)
Dedupe(s) == Unique(s)

\* Edits that all devices share are removed from those of a device, unless none are left.
Simplify(spec) ==
  LET shared == Dedupe(spec.common)
      own(d) == LET rest == RemoveEntities(Dedupe(d.edits), EntityIds(shared))
                IN  [d EXCEPT !.edits = IF rest = <<>> THEN Dedupe(d.edits) ELSE rest]
  IN  [common |-> shared, devices |-> Each(own, spec.devices)]

\* mergeDeviceSpecs: the device "all", unless there is one.
MergedDevice(spec) ==
  IF \E i \in DOMAIN spec.devices : spec.devices[i].name = All THEN spec
  ELSE LET edits == FlattenSeq(Each(LAMBDA d : d.edits, spec.devices))
       IN  Simplify([spec EXCEPT !.devices = Append(@, [name |-> All, edits |-> edits, coherent |-> ""])])

Build(o, edits, ds) ==
  LET spec == Simplify([common |-> edits, devices |-> ds])
  IN  IF o.noAll THEN spec ELSE MergedDevice(spec)

\* splitOnAnnotation: the devices of a file.
SplitOnAnnotation(ds, f) ==
  CASE f = "" -> ds
    [] f = ".coherent" -> SelectSeq(ds, LAMBDA d : d.coherent = "true")
    [] OTHER -> SelectSeq(ds, LAMBDA d : d.coherent = "false")

\* generateSpecs: one for all devices, and for each annotation one if there are any.
FilesOf(ds) ==
  LET some(f) == IF SplitOnAnnotation(ds, f) # <<>> THEN <<f>> ELSE <<>>
  IN  <<"">> \o some(".coherent") \o some(".noncoherent")

\* The validation of a spec by the CDI library when it is written.
ValidSpec(spec) ==
  /\ spec.devices # <<>>
  /\ \A i, j \in DOMAIN spec.devices : i # j => spec.devices[i].name # spec.devices[j].name
  /\ \A i \in DOMAIN spec.devices : spec.devices[i].edits # <<>>

----------------------------------------------------------------------------
(* The generation *)

Init ==
  /\ NodesInit /\ version \in Version
  /\ request = NoRequest /\ gpc = "idle" /\ lib = FALSE /\ refs = 0
  /\ asked = 0 /\ gens = <<>> /\ devs = <<>> /\ common = <<>> /\ pending = <<>>
  /\ files = [f \in File |-> NoFile] /\ exact = FALSE

UNCHANGED_host == UNCHANGED <<nodesVars, version>>

\* validateFlags: none disables the device "all".
ValidateRequest(o) == [o EXCEPT !.noAll = @ \/ None \in ToSet(o.ids)]

Begin ==
  /\ gpc = "idle" /\ Spend("generations")
  /\ \E o \in Requests : request' = ValidateRequest(o)
  /\ gpc' = "new" /\ exact' = TRUE
  /\ UNCHANGED <<lib, refs, asked, gens, devs, common, pending, files>>
  /\ UNCHANGED <<bus, mig, loaded, major, nodes, links, setupVars, history, version>>

\* An error, the end, or the death of the process, of which the files are left.
Finish ==
  /\ gpc # "idle" /\ gpc' = "idle" /\ exact' = FALSE
  /\ request' = NoRequest /\ lib' = FALSE /\ refs' = 0 /\ asked' = 0
  /\ gens' = <<>> /\ devs' = <<>> /\ common' = <<>> /\ pending' = <<>>
  /\ UNCHANGED files /\ UNCHANGED_host

\* (mutant) the shared object is loaded but not counted
SandboxInitUncounted ==
  \/ lib /\ lib' \in BOOLEAN /\ UNCHANGED refs
  \/ ~lib /\ UNCHANGED <<lib, refs>>

\* Init of nvsandboxutils, if it is to be used: the shared object is loaded, which is
\* counted even if the initialisation fails; then the library is not used any more.
SandboxInit ==
  \/ lib /\ lib' \in BOOLEAN /\ refs' = refs + 1
  \/ lib /\ lib' = FALSE /\ UNCHANGED refs
  \/ ~lib /\ UNCHANGED <<lib, refs>>

\* Its Shutdown, which may fail and then leaves it as it is; it closes the shared object
\* with the last reference.
SandboxShutdown == refs' \in {refs, IF lib THEN refs - 1 ELSE refs}

\* The index of a GPU and the GPU at an index, as NVML counts from 0.
IndexOf(g) == (CHOOSE i \in DOMAIN bus : bus[i] = g) - 1
GpuAt(i) == {bus[j] : j \in {i + 1} \cap DOMAIN bus}

\* getNvsandboxUtilsLib: it is initialised and shut down to see whether it works.
GetNvsandboxUtilsLib ==
  /\ lib' \in {request.sandbox, FALSE}
  /\ refs' \in {0, IF request.sandbox THEN 1 ELSE 0}

\* The versioners: nvsandboxutils, closed as it is, and NVML, if the call returns (Finish
\* if it does not); no version if both fail.
DriverVersions == {version, 0}

\* nvcdi.New.
New ==
  /\ gpc = "new" /\ gpc' = "ids"
  /\ GetNvsandboxUtilsLib
  /\ asked' \in DriverVersions
  /\ exact' = (exact /\ asked' # 0)
  /\ UNCHANGED <<request, gens, devs, common, pending, files>> /\ UNCHANGED_host

\* getDeviceSpecGeneratorsForAllDevices: the full GPUs, then the MIG devices.
AllGenerators ==
  LET of(kind, gs) == Each(LAMBDA g : <<kind, IndexOf(g), g>>, gs)
  IN  of("gpu", SelectSeq(bus, LAMBDA g : g \notin mig)) \o of("mig", SelectSeq(bus, LAMBDA g : g \in mig))

\* normalizeDeviceID and the generator of the device: those it may be, one at most.
GeneratorsOf(id) ==
  LET found == IF id[2] = "index" THEN GpuAt(id[3]) ELSE {id[3]} \cap ToSet(bus)
  IN  {<<id[1], IndexOf(g), g>> : g \in {x \in found : id[1] = "mig" => x \in mig}}

\* getChannelIDs of imexlib: the channels that exist, or those that are asked for.
ChannelIDs(ids) ==
  IF All \in ToSet(ids) THEN SelectSeq(<<Channel>>, LAMBDA n : n \in Present) ELSE ids

\* DeviceSpecGenerators of the mode, a set with one sequence, or none if that is an error:
\* the first of none and all decides; else every id has to be known.
Generators ==
  LET o       == request
      decides == SelectSeq(o.ids, LAMBDA id : id \in {All, None})
      each    == Each(GeneratorsOf, o.ids)
  IN  CASE o.mode \in Gated \cup {"management"} -> {<<<<o.mode, 0, 0>>>>}
        [] o.mode = "imex" -> {ChannelIDs(o.ids)}
        [] decides # <<>>  -> {IF Head(decides) = None THEN <<None>> ELSE AllGenerators}
        [] \A i \in DOMAIN each : each[i] # {} ->
             {Each(LAMBDA gs : CHOOSE x \in gs : TRUE, each)}
        [] OTHER -> {}

\* The enumeration.  In NVML mode it is framed by the initialisation and the shutdown of
\* the libraries, which may fail (an error of NVML is Finish).
DeviceSpecGenerators ==
  /\ gpc = "ids" /\ gpc' = "specs"
  /\ gens' \in Generators
  /\ IF request.mode = "nvml"
     THEN UNCHANGED <<lib, refs>> \/ SandboxInit
     ELSE UNCHANGED <<lib, refs>>
  /\ UNCHANGED <<request, asked, devs, common, pending, files, exact>> /\ UNCHANGED_host

\* GetDeviceSpecs of NVML initialises the libraries again, for all generators.
GetDeviceSpecs ==
  /\ gpc = "specs" /\ gpc' = "device"
  /\ IF request.mode = "nvml" THEN SandboxInit ELSE UNCHANGED <<lib, refs>>
  /\ UNCHANGED <<request, asked, gens, devs, common, pending, files, exact>> /\ UNCHANGED_host

\* GetDeviceNames and GetMigDeviceNames, by the index that was enumerated.
Names(kind, i, g) ==
  (IF "index" \in request.namers THEN <<<<kind, "index", i>>>> ELSE <<>>) \o
  (IF "uuid" \in request.namers THEN <<<<kind, "uuid", g>>>> ELSE <<>>)

\* A device spec, and those of a GPU or MIG device under each of its names.
Device(name, edits, annotation) == [name |-> name, edits |-> edits, coherent |-> annotation]
NamedDevices(gen, edits, annotation) ==
  Each(LAMBDA n : Device(n, edits, annotation), Names(gen[1], gen[2], gen[3]))

\* getDeviceAnnotations: whether a GPU is coherent, if that is asked for and known.
DeviceAnnotation(g) ==
  IF request.coherent /\ CoherentOf[g] # "error" THEN CoherentOf[g] ELSE ""

\* The device specs of a generator, a set with one sequence or none if that is an error.
\* A GPU and a MIG device are looked up by their UUID again.
FullGPUDeviceSpecs(gen, found) ==
  {NamedDevices(gen, NewForDevice("gpu", g, lib, found), DeviceAnnotation(g)) :
     g \in {gen[3]} \cap ToSet(bus)}

MigDeviceSpecs(gen, found) ==
  {NamedDevices(gen, NewForDevice("mig", g, lib, found), "") : g \in {gen[3]} \cap ToSet(bus) \cap mig}

\* A management container needs some node.
ManagementSpecs ==
  {<<Device(All, edits, "")>> : edits \in {CharDevices(ManagementNodes)} \ {<<>>}}

GatedSpecs(mode) == {<<Device(All, ModeDiscoverer(mode, version), "")>>}

\* The node of a channel is not looked at.
ChannelSpecs(id) == {<<Device(id, <<<<"node", id, 0>>>>, "")>>}

DeviceSpecs(gen, found) ==
  CASE gen = None             -> {<<Device(None, <<Empty>>, "")>>}
    [] gen[1] = "channel"     -> ChannelSpecs(gen)
    [] gen[1] = "management"  -> ManagementSpecs
    [] gen[1] \in Gated       -> GatedSpecs(gen[1])
    [] gen[1] = "gpu"         -> FullGPUDeviceSpecs(gen, found)
    [] OTHER                  -> MigDeviceSpecs(gen, found)

\* GetDeviceSpecs of the next generator.  nvsandboxutils, if it is used, finds the links one
\* after the other, or fails at any of them.
GetDeviceSpec ==
  /\ gpc = "device" /\ gens # <<>>
  /\ LET linked == IF Head(gens)[1] = "gpu" /\ lib THEN DriLink(Head(gens)[3]) ELSE <<>>
     IN  \E found \in {ToSet(SubSeq(linked, 1, n)) : n \in 0..Len(linked)} :
           /\ \E ds \in DeviceSpecs(Head(gens), found) : devs' = devs \o ds
           /\ exact' = (exact /\ found = ToSet(linked))
  /\ gens' = Tail(gens)
  /\ UNCHANGED <<request, gpc, lib, refs, asked, common, pending, files>> /\ UNCHANGED_host

\* All generators are done, and the libraries are shut down.
ShutdownAfterSpecs ==
  /\ gpc = "device" /\ gens = <<>> /\ gpc' = "common"
  /\ IF request.mode = "nvml" THEN SandboxShutdown ELSE UNCHANGED refs
  /\ UNCHANGED <<request, lib, asked, gens, devs, common, pending, files, exact>> /\ UNCHANGED_host

\* The edits that all devices share, of a driver with this version and library directory.
CommonEdits(info) ==
  LET disabled == DisabledHooks(request)
      driver   == DriverFilesOf(version, info[1], info[2], disabled)
  IN  CASE request.mode = "nvml" ->
             CharDevices(ControlNodes) \o GraphicsMounts(version, info[1], disabled) \o driver
        [] request.mode = "management" -> driver
        [] OTHER -> <<>>

\* GetCommonEdits: of the installed driver, which has to be the one that New was told of,
\* if it was.  The wrapper adds an environment variable; then the specs are built.  (What
\* management mode does with nvsandboxutils here has no effect.)
GetCommonEdits ==
  /\ gpc = "common" /\ gpc' = "save"
  /\ \E info \in IF request.mode \in {"nvml", "management"} THEN UpdateInfo(version, asked) ELSE {<<>>} :
       common' = CommonEdits(info) \o <<Void>>
  /\ pending' = FilesOf(devs)
  /\ UNCHANGED <<request, lib, refs, asked, gens, devs, files, exact>> /\ UNCHANGED_host

\* Save of the next spec: written to a temporary file that replaces the old one, unless
\* it is not valid or an error occurs; the specs that follow are saved all the same.
Save ==
  /\ gpc = "save" /\ pending # <<>>
  /\ LET f    == Head(pending)
         spec == Build(request, common, SplitOnAnnotation(devs, f))
     IN  \/ ValidSpec(spec) /\ files' = [files EXCEPT ![f] = spec]
         \/ UNCHANGED files
  /\ pending' = Tail(pending)
  /\ UNCHANGED <<request, gpc, lib, refs, asked, gens, devs, common, exact>> /\ UNCHANGED_host

\* The driver is replaced by another version.
Upgrade ==
  /\ Spend("changes") /\ version' \in Version \ {version} /\ exact' = FALSE
  /\ UNCHANGED <<bus, mig, loaded, major, nodes, links, setupVars, history, genVars>>

\* The host changes or is prepared by the commands of DeviceNodes.
NodesStep ==
  /\ NodesNext
  /\ exact' = (exact /\ <<bus, mig, nodes>>' = <<bus, mig, nodes>>)
  /\ UNCHANGED <<version, genVars>>

Next ==
  \/ Begin \/ New \/ DeviceSpecGenerators \/ GetDeviceSpecs \/ GetDeviceSpec
  \/ ShutdownAfterSpecs \/ GetCommonEdits \/ Save \/ Finish \/ Upgrade \/ NodesStep

Spec == Init /\ [][Next]_vars

----------------------------------------------------------------------------
(* Properties *)

TypeOK ==
  /\ NodesTypeOK
  /\ version \in Version /\ asked \in Version \cup {0}
  /\ gpc \in {"idle", "new", "ids", "specs", "device", "common", "save"}
  /\ {lib, exact} \subseteq BOOLEAN /\ refs \in 0..3
  /\ lib /\ gpc = "device" /\ request.mode = "nvml" => refs > 0
  /\ \A i \in DOMAIN devs : devs[i].coherent \in {"", "true", "false"}
  /\ \A i \in DOMAIN pending : pending[i] \in File

\* What a name of a spec injects into a container: the edits of the device and those that
\* all devices share, with the number of those that are for the same path or variable.
Target(e) ==
  CASE e[1] = "mount" -> <<"mount", e[3]>>
    [] e[1] \in {"node", "env"} -> <<e[1], e[2]>>
    [] OTHER -> e
Injected(spec, i) ==
  LET edits   == spec.common \o spec.devices[i].edits
      targets == Each(Target, edits)
  IN  [e \in ToSet(edits) |-> Cardinality({j \in DOMAIN edits : targets[j] = Target(e)})]
Gives(spec) ==
  [n \in {spec.devices[i].name : i \in DOMAIN spec.devices} |->
    Injected(spec, CHOOSE i \in DOMAIN spec.devices : spec.devices[i].name = n)]

\* What a container needs of a driver: its files, the variable with the directory of its
\* libraries, and, of the hooks that the command line does not disable, those for links and
\* the cache; for one that is not for management also those for CUDA compatibility and
\* against changes of device nodes (options.go:116-120).
NeededHook(o, name) ==
  /\ o.disabledHooks \cap {name, "all"} = {}
  /\ o.mode = "management" => name \in {"create-symlinks", "update-ldcache"}
WantDriver(v, o) ==
  LET graphics == o.mode = "nvml"
      dirs     == {i[2] : i \in UpdateInfo(v, v)}
      libs     == {f \in ToSet(Installed[v]) : f[3] = v /\ f[1] \in dirs \cup {"/usr/lib/vdpau"}}
      cuda     == {f \in libs : f[2] = "libcuda"}
      linked   == {f \in ToSet(GraphicsLibraries(v, v)) : graphics /\ f[2] \in Linked}
      hooks    == {Hook("create-symlinks", fs) : fs \in {cuda, linked} \ {{}}} \cup
                  {Hook("update-ldcache", {f[1] : f \in libs}), Hook(CompatHook, v), Hook(NodesHook, 0)}
  IN  WantFiles(v, graphics) \cup {h \in hooks : NeededHook(o, h[2])} \cup
      {<<"env", "NVIDIA_CTK_LIBCUDA_DIR", d>> : d \in dirs}

\* What a file has to give for a host and a request, by name of a device: every device
\* that is asked for, under each of its names, with its nodes and the links to them, and
\* what all containers get; the devices of the other files are those with the annotation.
Want(h, o, f) ==
  LET nodesIn(S)  == {NodeEntity(h.nodes, n) : n \in {m \in S : h.nodes[m] # 0}}
      shared      == {Void} \cup
                     (IF o.mode \in {"nvml", "management"} THEN WantDriver(h.version, o) ELSE {}) \cup
                     (IF o.mode = "nvml" THEN nodesIn(ToSet(ControlNodes)) ELSE {})
      possible    == {<<"gpu", i - 1, h.bus[i]>> : i \in DOMAIN h.bus} \cup
                     {<<"mig", i - 1, h.bus[i]>> : i \in {j \in DOMAIN h.bus : h.bus[j] \in h.mig}}
      names(d)    == {<<d[1], "index", d[2]>>, <<d[1], "uuid", d[3]>>}
      none        == \E i \in DOMAIN o.ids : o.ids[i] = None /\ All \notin ToSet(SubSeq(o.ids, 1, i))
      everything  == All \in ToSet(o.ids)
      asksFor(d)  == IF everything THEN d[1] = "gpu" => d[3] \notin h.mig
                     ELSE names(d) \cap ToSet(o.ids) # {}
      inFile(d)   == f # "" => /\ d[1] = "gpu" /\ o.coherent
                                 /\ CoherentOf[d[3]] = (IF f = ".coherent" THEN "true" ELSE "false")
      chosen      == {d \in possible : asksFor(d) /\ inFile(d)}
      own(d)      == IF d[1] = "mig" THEN nodesIn({GpuNode(d[3]), CapNode(d[3])})
                     ELSE nodesIn({GpuNode(d[3]), DriNode(d[3])}) \cup
                          {Hook("create-symlinks", ToSet(DriLink(g))) :
                             g \in {x \in {d[3]} : h.nodes[DriNode(x)] # 0 /\ NeededHook(o, "create-symlinks")}}
      used(d)     == {n \in names(d) : n[2] \in o.namers}
      gate        == CASE o.mode = "gds" -> FsNode [] o.mode = "gdrcopy" -> GdrNode
                       [] o.mode = "mofed" -> VerbsNode [] OTHER -> SwitchNode
      storage     == {x \in ToSet(Installed[h.version]) : o.mode = "gds" /\ x[2] \in Storage}
      table       == CASE o.mode = "management" ->
                            {<<All, nodesIn(Node \ ({FsNode, GdrNode, VerbsNode, SwitchNode} \cup {DriNode(g) : g \in Gpu}))>>}
                       [] o.mode \in Gated -> {<<All, nodesIn({gate}) \cup {Mount(x, x) : x \in storage}>>}
                       [] o.mode = "imex" -> {<<Channel, {<<"node", Channel, 0>>}>>}
                       [] none -> {<<None, {Empty}>>}
                       [] OTHER -> UNION {{<<n, own(d)>> : n \in used(d)} : d \in chosen}
      full        == IF o.noAll THEN table ELSE table \cup {<<All, UNION {t[2] : t \in table}>>}
  IN  [n \in {t[1] : t \in full} |->
        [e \in shared \cup UNION {t[2] : t \in {u \in full : u[1] = n}} |-> 1]]

Registry == INSTANCE CDIRegistry WITH host <- Host

\* Generation implements the atomic registry: whatever fails, changes or dies, a file is
\* only replaced by a complete spec, whose names inject nothing twice and whose "all" is
\* the union of its devices; if nothing changed and nvsandboxutils did not fail for a GPU
\* while it ran, every file it writes gives for every name what the host has for it.
ImplementsRegistry == Registry!Spec
============================================================================
