--------------------------- MODULE DeviceRequests ---------------------------
(***************************************************************************)
(* Which devices a container requests (internal/config/image): from its    *)
(* annotations, from mounts of /dev/null below a special directory, and    *)
(* from environment variables, in that order; and the mode the NVIDIA      *)
(* Container Runtime and its hook derive from the request (internal/info). *)
(*                                                                         *)
(* The environment, the annotations and the mounts of a container are the  *)
(* lists of device names in them.                                          *)
(***************************************************************************)
EXTENDS Naturals, Sequences, Functions

CONSTANT GPU   \* the indices of the GPUs of the host, "0" among them

\* A device name: unqualified, or qualified with the kind of nvidia.com/gpu or of
\* runtime.nvidia.com/gpu, for which a CDI spec is generated on the fly.
Kind == {"plain", "vendor", "automatic"}
Special == {"", "all", "none", "void"}
DeviceName == [kind : Kind, id : GPU \cup Special]

ASSUME GPUAssumption == "0" \in GPU /\ GPU \cap Special = {}

Plain(id) == [kind |-> "plain", id |-> id]

\* parser.IsQualifiedName
IsQualifiedName(name) == name.kind # "plain"

\* An environment variable with a list of devices.
Unset == [set |-> FALSE, list |-> <<>>]
Variable == {v \in [set : BOOLEAN, list : Seq(DeviceName)] : v.set \/ v = Unset}

\* The least of a set of positions.
First(positions) == CHOOSE i \in positions : \A j \in positions : i <= j

----------------------------------------------------------------------------
(* devices.go *)

\* Names that stand for all, none, or the absence of a request.
SpecialPositions(list) == {i \in DOMAIN list : list[i].kind = "plain" /\ list[i].id \in Special}

\* newDevices and List: the position of an id is that of its last occurrence, and
\* the positions of the earlier ones keep the empty string.
DevicesList(list) ==
  [i \in DOMAIN list |-> IF \E j \in DOMAIN list : j > i /\ list[j] = list[i] THEN Plain("") ELSE list[i]]

\* NewVisibleDevices(list...).List(): the first special name decides.
VisibleDevicesList(list) ==
  IF SpecialPositions(list) = {} THEN DevicesList(list)
  ELSE LET first == First(SpecialPositions(list))
       IN  IF list[first].id = "all" THEN <<Plain("all")>>
           ELSE IF list[first].id = "none" THEN <<Plain("")>>
           ELSE <<>>

----------------------------------------------------------------------------
(* cuda_image.go: s is the container's spec, c the toolkit's config *)

\* The configured variable of a swarm, when it is set, else NVIDIA_VISIBLE_DEVICES.
VisibleEnvVar(s, c) == IF c.swarmResource /\ s.swarm.set THEN s.swarm ELSE s.env

\* A legacy CUDA image that does not set the variable requests all devices; void
\* anywhere, or an empty list, requests nothing.
DevicesFromEnvvars(s, v) ==
  LET devices == IF ~v.set /\ s.legacyImage THEN <<Plain("all")>> ELSE v.list
  IN  IF devices = <<>> \/ Plain("void") \in Range(devices) THEN <<>> ELSE VisibleDevicesList(devices)

\* With annotation prefixes the annotations come first, then the mounts if they are
\* accepted, then the environment if the container may use it.
VisibleDevices(s, c, annotationPrefixes) ==
  IF annotationPrefixes /\ s.annotations # <<>> THEN s.annotations
  ELSE IF c.acceptMounts /\ s.mounts # <<>> THEN s.mounts
  ELSE IF s.privileged \/ c.acceptEnv THEN DevicesFromEnvvars(s, VisibleEnvVar(s, c))
  ELSE <<>>

OnlyFullyQualifiedCDIDevices(devices) ==
  devices # <<>> /\ \A d \in Range(devices) : IsQualifiedName(d)

----------------------------------------------------------------------------
(* internal/info/auto.go *)

Mode == {"legacy", "csv", "cdi", "jit-cdi"}

\* The requested mode, unless it is auto.
ResolveRuntimeMode(requested, devices, platform, defaultMode) ==
  IF requested # "auto" THEN requested
  ELSE IF OnlyFullyQualifiedCDIDevices(devices) THEN "cdi"
  ELSE IF platform = "tegra" THEN "csv"
  ELSE defaultMode

----------------------------------------------------------------------------
(* The meaning of a request, as the documentation of NVIDIA_VISIBLE_DEVICES has *)
(* it (cmd/nvidia-container-runtime/README.md:94-101).                          *)

NamedGPUs(name) == IF name.id = "all" THEN GPU ELSE {name.id} \cap GPU
GPUsNamed(names) == UNION {NamedGPUs(d) : d \in names}

GPUs(list) ==
  IF SpecialPositions(list) = {} THEN GPUsNamed(Range(list))
  ELSE IF list[First(SpecialPositions(list))].id = "all" THEN GPU ELSE {}

\* A variable that is unset, empty or has void in it requests nothing, except that
\* in a legacy image unset means all.
GPUsOfVar(s, v) ==
  IF ~v.set THEN IF s.legacyImage THEN GPU ELSE {}
  ELSE IF Plain("void") \in Range(v.list) THEN {} ELSE GPUs(v.list)

\* Annotations count when they lead to CDI mode: when it is configured, or when the
\* mode is auto and all their names are qualified.
RequestedGPUs(s, c) ==
  IF /\ c.annotationPrefixes /\ s.annotations # <<>>
     /\ c.mode = "cdi" \/ (c.mode = "auto" /\ \A d \in Range(s.annotations) : IsQualifiedName(d))
    THEN GPUs(s.annotations)
  ELSE IF c.acceptMounts /\ s.mounts # <<>> THEN GPUs(s.mounts)
  ELSE IF s.privileged \/ c.acceptEnv THEN GPUsOfVar(s, VisibleEnvVar(s, c))
  ELSE {}
=============================================================================
