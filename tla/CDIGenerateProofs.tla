------------------------- MODULE CDIGenerateProofs -------------------------
(***************************************************************************)
(* Proofs about CDIGenerate, for any number of GPUs, any drivers, command  *)
(* lines, requests and budgets: its type invariant, that of DeviceNodes in *)
(* the composed system, and the steps of the registry that it implements,  *)
(* but for the contents of a spec.                                         *)
(***************************************************************************)
EXTENDS CDIGenerate, DeviceNodesProofs

\* The device specs so far, each with an annotation.
Annotation == {"", "true", "false"}
DevsInv ==
  /\ devs \in Seq(ToSet(devs)) /\ \A i \in DOMAIN devs : devs[i].coherent \in Annotation
  /\ pending \in Seq(File)

\* The shared object is loaded at most once for each step that loads it.
RefsInv ==
  /\ refs \in Nat /\ lib \in BOOLEAN
  /\ gpc \in {"idle", "new"} => refs = 0
  /\ gpc = "ids" => refs <= 1
  /\ gpc = "specs" => refs <= 2
  /\ refs <= 3
  /\ lib /\ gpc = "device" /\ request.mode = "nvml" => refs > 0

\* Between generations nothing is promised of the host.
PhaseInv ==
  /\ version \in Version /\ asked \in Version \cup {0} /\ exact \in BOOLEAN
  /\ gpc \in {"idle", "new", "ids", "specs", "device", "common", "save"}
  /\ gpc = "idle" => ~exact
  /\ request \in Request
  /\ DOMAIN files = File

GenerateInv == NodesInv /\ DevsInv /\ RefsInv /\ PhaseInv

----------------------------------------------------------------------------
(* Facts about the model's operators *)

\* A sequence has the elements that it has.
LEMMA SeqOfItsRange == ASSUME NEW S, NEW s \in Seq(S) PROVE s \in Seq(ToSet(s))
<1>1. Len(s) \in Nat /\ DOMAIN s = 1 .. Len(s) /\ s = [i \in 1 .. Len(s) |-> s[i]]
  OBVIOUS
<1>2. \A i \in 1 .. Len(s) : s[i] \in ToSet(s)
  BY <1>1 DEF ToSet
<1> HIDE DEF ToSet
<1> QED
  BY <1>1, <1>2

\* A sequence with one element or none.
LEMMA OneOrNone ==
  ASSUME NEW S, NEW x \in S
  PROVE  <<x>> \in Seq(S) /\ <<>> \in Seq(S) /\ DOMAIN <<x>> = {1} /\ <<x>>[1] = x
  OBVIOUS

\* Each gives a sequence with what the operator gives for each element: here, devices.
LEMMA NamedDevicesType ==
  ASSUME NEW gen, NEW edits, NEW annotation \in Annotation
  PROVE  /\ NamedDevices(gen, edits, annotation) \in Seq(ToSet(NamedDevices(gen, edits, annotation)))
         /\ \A i \in DOMAIN NamedDevices(gen, edits, annotation) :
              NamedDevices(gen, edits, annotation)[i].coherent = annotation
<1> DEFINE ns == Names(gen[1], gen[2], gen[3])
           ds == [i \in 1 .. Len(ns) |-> Device(ns[i], edits, annotation)]
<1>1. Len(ns) \in Nat
  <2> DEFINE a == <<gen[1], "index", gen[2]>>
             b == <<gen[1], "uuid", gen[3]>>
             p == IF "index" \in request.namers THEN <<a>> ELSE <<>>
             q == IF "uuid" \in request.namers THEN <<b>> ELSE <<>>
  <2> HIDE DEF a, b
  <2>1. p \in Seq({a, b}) /\ q \in Seq({a, b})
    BY OneOrNone
  <2> HIDE DEF p, q
  <2>2. p \o q \in Seq({a, b})
    BY <2>1
  <2>3. ns = p \o q
    BY DEF Names, p, q, a, b
  <2> QED
    BY <2>2, <2>3
<1>2. NamedDevices(gen, edits, annotation) = <<>> \o ds
  BY DEF NamedDevices, Each
<1> HIDE DEF ns
<1>3. ds \in Seq(ToSet(ds))
  BY <1>1 DEF ToSet
<1>4. \A i \in DOMAIN ds : ds[i].coherent = annotation
  BY DEF Device
<1> HIDE DEF ds
<1>5. <<>> \o ds = ds
  BY <1>3
<1> QED
  BY <1>2, <1>3, <1>4, <1>5

\* A device spec has an annotation.
LEMMA DeviceSpecsType ==
  ASSUME bus \in Seq(Gpu), NEW gen, NEW found, NEW ds \in DeviceSpecs(gen, found)
  PROVE  ds \in Seq(ToSet(ds)) /\ \A i \in DOMAIN ds : ds[i].coherent \in Annotation
<1>1. ASSUME NEW name, NEW edits, ds = <<Device(name, edits, "")>>
      PROVE  ds \in Seq(ToSet(ds)) /\ \A i \in DOMAIN ds : ds[i].coherent \in Annotation
  <2> DEFINE d == Device(name, edits, "")
  <2>1. d.coherent \in Annotation
    BY DEF Device, Annotation
  <2> HIDE DEF d
  <2>2. ds \in Seq({d}) /\ DOMAIN ds = {1} /\ ds[1] = d
    BY <1>1, OneOrNone DEF d
  <2> QED
    BY <2>1, <2>2, SeqOfItsRange
<1>2. CASE gen = None
  <2>1. ds = <<Device(None, <<Empty>>, "")>>
    BY <1>2 DEF DeviceSpecs, None, Gated
  <2> QED
    BY <1>1, <2>1
<1>3. CASE gen # None /\ gen[1] = "channel"
  <2>1. ds = <<Device(gen, <<<<"node", gen, 0>>>>, "")>>
    BY <1>3 DEF DeviceSpecs, ChannelSpecs, Gated
  <2> QED
    BY <1>1, <2>1
<1>4. CASE gen # None /\ gen[1] = "management"
  <2>1. ds = <<Device(All, CharDevices(ManagementNodes), "")>>
    BY <1>4 DEF DeviceSpecs, ManagementSpecs, Gated
  <2> QED
    BY <1>1, <2>1
<1>5. CASE gen # None /\ gen[1] \in Gated
  BY <1>1, <1>5 DEF DeviceSpecs, GatedSpecs, Gated
<1>6. CASE gen # None /\ gen[1] = "gpu"
  <2>1. PICK g \in {gen[3]} \cap ToSet(bus) :
           ds = NamedDevices(gen, NewForDevice("gpu", g, lib, found), DeviceAnnotation(g))
    BY <1>6 DEF DeviceSpecs, FullGPUDeviceSpecs, Gated
  <2>2. g \in Gpu
    BY <2>1 DEF ToSet
  <2>3. DeviceAnnotation(g) \in Annotation
    BY <2>2, GenerateAssumption DEF DeviceAnnotation, Annotation
  <2> QED
    BY <2>1, <2>3, NamedDevicesType
<1>7. CASE gen # None /\ gen[1] \notin {"channel", "management", "gpu"} \cup Gated
  <2>1. PICK g \in {gen[3]} \cap ToSet(bus) \cap mig : ds = NamedDevices(gen, NewForDevice("mig", g, lib, found), "")
    BY <1>7 DEF DeviceSpecs, MigDeviceSpecs
  <2> QED
    BY <2>1, NamedDevicesType DEF Annotation
<1> QED
  BY <1>2, <1>3, <1>4, <1>5, <1>6, <1>7

\* The devices of another generator are added.
LEMMA MoreDevices ==
  ASSUME NEW s, NEW t, s \in Seq(ToSet(s)), t \in Seq(ToSet(t)),
         \A i \in DOMAIN s : s[i].coherent \in Annotation, \A i \in DOMAIN t : t[i].coherent \in Annotation
  PROVE  s \o t \in Seq(ToSet(s \o t)) /\ \A i \in DOMAIN (s \o t) : (s \o t)[i].coherent \in Annotation
<1> DEFINE A == ToSet(s) \cup ToSet(t)
           r == s \o t
<1>1. s \in Seq(A) /\ t \in Seq(A)
  OBVIOUS
<1> HIDE DEF A
<1>2. /\ r \in Seq(A) /\ Len(r) = Len(s) + Len(t)
      /\ \A i \in 1 .. Len(s) + Len(t) : r[i] = IF i <= Len(s) THEN s[i] ELSE t[i - Len(s)]
  BY <1>1, ConcatProperties
<1> HIDE DEF r
<1>3. r \in Seq(ToSet(r))
  BY <1>2, SeqOfItsRange
<1>4. ASSUME NEW i \in DOMAIN r PROVE r[i].coherent \in Annotation
  <2>1. i \in 1 .. Len(s) + Len(t) /\ Len(s) \in Nat /\ Len(t) \in Nat
    BY <1>1, <1>2
  <2>2. CASE i <= Len(s)
    BY <1>1, <1>2, <2>1, <2>2
  <2>3. CASE i > Len(s)
    <3>1. i - Len(s) \in DOMAIN t
      BY <1>1, <2>1, <2>3
    <3> QED
      BY <1>2, <2>1, <2>3, <3>1
  <2> QED
    BY <2>1, <2>2, <2>3
<1> QED
  BY <1>3, <1>4 DEF r

\* The files of a generation.
LEMMA FilesOfType == ASSUME NEW ds PROVE FilesOf(ds) \in Seq(File)
<1> DEFINE p == IF SplitOnAnnotation(ds, ".coherent") # <<>> THEN <<".coherent">> ELSE <<>>
           q == IF SplitOnAnnotation(ds, ".noncoherent") # <<>> THEN <<".noncoherent">> ELSE <<>>
<1>1. <<"">> \in Seq(File) /\ p \in Seq(File) /\ q \in Seq(File)
  <2>1. {"", ".coherent", ".noncoherent"} \subseteq File
    BY DEF File
  <2> QED
    BY <2>1, OneOrNone
<1>2. FilesOf(ds) = <<"">> \o p \o q
  BY DEF FilesOf
<1> HIDE DEF p, q
<1>3. <<"">> \o p \in Seq(File)
  BY <1>1, ConcatProperties
<1>4. (<<"">> \o p) \o q \in Seq(File)
  BY <1>1, <1>3, ConcatProperties
<1> QED
  BY <1>2, <1>4

\* The request of no generation.
LEMMA NoRequestType == NoRequest \in Request
<1>1. <<>> \in Seq(Id \cup {All, None})
  OBVIOUS
<1> QED
  BY <1>1 DEF NoRequest, Request, Mode

----------------------------------------------------------------------------
(* The invariant *)

\* The host and its commands, whatever the generation does.
LEMMA StepNodes == ASSUME GenerateInv, [Next]_vars PROVE NodesInv'
<1>1. ASSUME UNCHANGED <<bus, mig, loaded, major, nodes, links, setupVars, history>>,
             budget' \in [{"changes", "commands", "generations"} -> Nat]
      PROVE  NodesInv'
  BY <1>1, GpusAndBudget DEF GenerateInv, NodesInv, NodesTypeOK
<1>2. budget \in [{"changes", "commands", "generations"} -> Nat]
  BY DEF GenerateInv, NodesInv, NodesTypeOK
<1>3. ASSUME UNCHANGED nodesVars PROVE NodesInv'
  BY <1>1, <1>2, <1>3 DEF nodesVars
<1>4. CASE Begin
  BY <1>1, <1>2, <1>4, Spending DEF Begin
<1>5. CASE Upgrade
  BY <1>1, <1>2, <1>5, Spending DEF Upgrade
<1>6. CASE NodesStep
  BY <1>6, NodesStepInv DEF NodesStep, GenerateInv
<1>7. CASE New \/ DeviceSpecGenerators \/ GetDeviceSpecs \/ GetDeviceSpec \/ ShutdownAfterSpecs
           \/ GetCommonEdits \/ Save \/ Finish \/ UNCHANGED vars
  BY <1>3, <1>7 DEF New, DeviceSpecGenerators, GetDeviceSpecs, GetDeviceSpec, ShutdownAfterSpecs,
       GetCommonEdits, Save, Finish, UNCHANGED_host, vars
<1> QED
  BY <1>4, <1>5, <1>6, <1>7 DEF Next

\* The device specs and the files that are left to write.
LEMMA StepDevs == ASSUME GenerateInv, [Next]_vars PROVE DevsInv'
<1> USE DEF GenerateInv
<1>1. ASSUME UNCHANGED <<devs, pending>> PROVE DevsInv'
  BY <1>1 DEF DevsInv
<1>2. CASE Begin \/ New \/ DeviceSpecGenerators \/ GetDeviceSpecs \/ ShutdownAfterSpecs \/ Upgrade \/ NodesStep
           \/ UNCHANGED vars
  BY <1>1, <1>2 DEF Begin, New, DeviceSpecGenerators, GetDeviceSpecs, ShutdownAfterSpecs, Upgrade, NodesStep, genVars, vars
<1>3. CASE Finish
  BY <1>3 DEF DevsInv, Finish, ToSet
<1>4. CASE GetDeviceSpec
  <2>1. PICK found : \E ds \in DeviceSpecs(Head(gens), found) : devs' = devs \o ds
    BY <1>4 DEF GetDeviceSpec
  <2>2. PICK ds \in DeviceSpecs(Head(gens), found) : devs' = devs \o ds
    BY <2>1
  <2>3. ds \in Seq(ToSet(ds)) /\ \A i \in DOMAIN ds : ds[i].coherent \in Annotation
    BY <2>2, DeviceSpecsType DEF NodesInv, NodesTypeOK
  <2>4. devs' \in Seq(ToSet(devs')) /\ \A i \in DOMAIN devs' : devs'[i].coherent \in Annotation
    BY <2>2, <2>3, MoreDevices DEF DevsInv
  <2>5. pending' = pending
    BY <1>4 DEF GetDeviceSpec
  <2> QED
    BY <2>4, <2>5 DEF DevsInv
<1>5. CASE GetCommonEdits
  BY <1>5, FilesOfType DEF GetCommonEdits, DevsInv
<1>6. CASE Save
  <2>1. devs' = devs /\ pending # <<>> /\ pending' = Tail(pending)
    BY <1>6 DEF Save
  <2> QED
    BY <2>1 DEF DevsInv
<1> QED
  BY <1>2, <1>3, <1>4, <1>5, <1>6 DEF Next

\* The shared object of nvsandboxutils is not closed more often than it was loaded.
LEMMA StepRefs == ASSUME GenerateInv, [Next]_vars PROVE RefsInv'
<1> USE DEF GenerateInv, RefsInv, PhaseInv
<1>1. CASE Begin
  BY <1>1 DEF Begin
<1>2. CASE New
  <2>1. lib' \in BOOLEAN /\ refs' \in {0, 1} /\ gpc' = "ids"
    BY <1>2 DEF New, GetNvsandboxUtilsLib, Request
  <2> QED
    BY <2>1
<1>3. CASE DeviceSpecGenerators
  <2>1. lib' \in BOOLEAN /\ gpc = "ids" /\ gpc' = "specs" /\ refs' \in {refs, refs + 1}
    BY <1>3 DEF DeviceSpecGenerators, SandboxInit
  <2> QED
    BY <2>1
<1>4. CASE GetDeviceSpecs
  <2>1. lib' \in BOOLEAN /\ gpc = "specs" /\ gpc' = "device" /\ request' = request
    BY <1>4 DEF GetDeviceSpecs, SandboxInit
  <2>2. refs' \in {refs, refs + 1} /\ (lib' /\ request.mode = "nvml" => refs' = refs + 1)
    BY <1>4 DEF GetDeviceSpecs, SandboxInit
  <2> QED
    BY <2>1, <2>2
<1>5. CASE GetDeviceSpec
  BY <1>5 DEF GetDeviceSpec
<1>6. CASE ShutdownAfterSpecs
  BY <1>6 DEF ShutdownAfterSpecs, SandboxShutdown
<1>7. CASE GetCommonEdits
  BY <1>7 DEF GetCommonEdits
<1>8. CASE Save
  BY <1>8 DEF Save
<1>9. CASE Finish
  <2>1. lib' \in BOOLEAN /\ refs' = 0 /\ gpc' = "idle"
    BY <1>9 DEF Finish
  <2> QED
    BY <2>1
<1>10. CASE Upgrade
  BY <1>10 DEF Upgrade, genVars
<1>11. CASE NodesStep
  BY <1>11 DEF NodesStep, genVars
<1>12. CASE UNCHANGED vars
  BY <1>12 DEF vars, genVars
<1> QED
  BY <1>1, <1>2, <1>3, <1>4, <1>5, <1>6, <1>7, <1>8, <1>9, <1>10, <1>11, <1>12 DEF Next

\* The phases of a generation.
LEMMA StepPhase == ASSUME GenerateInv, [Next]_vars PROVE PhaseInv'
<1> USE DEF GenerateInv, PhaseInv
<1>1. CASE Begin
  <2>1. PICK o \in Requests : request' = ValidateRequest(o)
    BY <1>1 DEF Begin
  <2>2. request' \in Request
    BY <2>1, GenerateAssumption DEF ValidateRequest, Request
  <2> QED
    BY <1>1, <2>2 DEF Begin
<1>2. CASE New
  BY <1>2 DEF New, DriverVersions, UNCHANGED_host
<1>3. CASE DeviceSpecGenerators
  BY <1>3 DEF DeviceSpecGenerators, UNCHANGED_host
<1>4. CASE GetDeviceSpecs
  BY <1>4 DEF GetDeviceSpecs, UNCHANGED_host
<1>5. CASE GetDeviceSpec
  <2>1. exact' \in BOOLEAN
    BY <1>5 DEF GetDeviceSpec
  <2> QED
    BY <1>5, <2>1 DEF GetDeviceSpec, UNCHANGED_host
<1>6. CASE ShutdownAfterSpecs
  BY <1>6 DEF ShutdownAfterSpecs, UNCHANGED_host
<1>7. CASE GetCommonEdits
  BY <1>7 DEF GetCommonEdits, UNCHANGED_host
<1>8. CASE Save
  BY <1>8 DEF Save, UNCHANGED_host
<1>9. CASE Finish
  BY <1>9, NoRequestType DEF Finish, UNCHANGED_host
<1>10. CASE Upgrade
  BY <1>10 DEF Upgrade, genVars
<1>11. CASE NodesStep
  BY <1>11 DEF NodesStep, genVars
<1>12. CASE UNCHANGED vars
  BY <1>12 DEF vars, genVars
<1> QED
  BY <1>1, <1>2, <1>3, <1>4, <1>5, <1>6, <1>7, <1>8, <1>9, <1>10, <1>11, <1>12 DEF Next

\* Every reachable state has the invariant.
THEOREM GenerateInvariant == Spec => []GenerateInv
<1>1. Init => GenerateInv
  <2> SUFFICES ASSUME Init PROVE GenerateInv
    OBVIOUS
  <2>1. NodesInv
    BY NodesInitInv DEF Init
  <2>2. DevsInv
    BY DEF Init, DevsInv, ToSet
  <2>3. RefsInv
    <3>1. lib \in BOOLEAN /\ refs = 0 /\ gpc = "idle"
      BY DEF Init
    <3> QED
      BY <3>1 DEF RefsInv
  <2>4. PhaseInv
    BY NoRequestType DEF Init, PhaseInv
  <2> QED
    BY <2>1, <2>2, <2>3, <2>4 DEF GenerateInv
<1>2. GenerateInv /\ [Next]_vars => GenerateInv'
  BY StepNodes, StepDevs, StepRefs, StepPhase DEF GenerateInv
<1> QED
  BY <1>1, <1>2, PTL DEF Spec

\* The state of the host, of its commands and of a generation has its type; in particular
\* the shared object of nvsandboxutils is open while devices are looked up with it, and no
\* link in /dev/char is to a node with a number that no driver has.
THEOREM TypeCorrect == Spec => []TypeOK
<1>1. GenerateInv => TypeOK
  <2> SUFFICES ASSUME GenerateInv PROVE TypeOK
    OBVIOUS
  <2>1. NodesTypeOK
    BY DEF GenerateInv, NodesInv
  <2>2. refs \in 0 .. 3
    BY DEF GenerateInv, RefsInv
  <2>3. \A i \in DOMAIN pending : pending[i] \in File
    BY DEF GenerateInv, DevsInv
  <2> QED
    BY <2>1, <2>2, <2>3 DEF TypeOK, GenerateInv, RefsInv, PhaseInv, DevsInv, Annotation
<1> QED
  BY <1>1, GenerateInvariant, PTL

\* Whatever the commands are interrupted by and whatever a generation does meanwhile: the
\* control nodes exist when links are made, and a node or link with a wrong number was
\* there before its driver was registered again, or the modules were unloaded in between.
THEOREM NodesAgree == Spec => []NodesAndLinksAgree
<1>1. GenerateInv => NodesAndLinksAgree
  BY NodesInvAgree DEF GenerateInv
<1> QED
  BY <1>1, GenerateInvariant, PTL

----------------------------------------------------------------------------
(* The steps of the registry *)

\* One file is replaced by a spec that is valid, and nothing else that the registry knows
\* of changes.
Replace(f) ==
  /\ UNCHANGED <<Host, request, exact>>
  /\ files' = [files EXCEPT ![f] = files'[f]]
  /\ ValidSpec(files'[f])

\* A generation takes the steps of the registry, but for what is in a spec: it begins, it
\* is disturbed by every change of the host, failure and end, and it replaces files one by
\* one and while neither the request nor the host changes, each with a valid spec.
THEOREM TakesRegistrySteps ==
  Spec => [][Registry!Begin \/ Registry!Disturb \/ \E f \in File : Replace(f)]_(Registry!registryVars)
<1> DEFINE A == Registry!Begin \/ Registry!Disturb \/ \E f \in File : Replace(f)
<1>1. GenerateInv /\ [Next]_vars => A \/ UNCHANGED <<Host, request, exact, files>>
  <2> SUFFICES ASSUME GenerateInv, [Next]_vars PROVE A \/ UNCHANGED <<Host, request, exact, files>>
    OBVIOUS
  <2>1. ASSUME UNCHANGED_host PROVE UNCHANGED Host
    BY <2>1 DEF UNCHANGED_host, Host, nodesVars
  <2>2. exact \in BOOLEAN
    BY DEF GenerateInv, PhaseInv
  <2>3. CASE Begin
    BY <2>3 DEF Begin, Registry!Begin, Host, GenerateInv, PhaseInv
  <2>4. CASE New
    BY <2>1, <2>2, <2>4 DEF New, Registry!Disturb
  <2>5. CASE DeviceSpecGenerators \/ GetDeviceSpecs \/ ShutdownAfterSpecs \/ GetCommonEdits
    BY <2>1, <2>5 DEF DeviceSpecGenerators, GetDeviceSpecs, ShutdownAfterSpecs, GetCommonEdits
  <2>6. CASE GetDeviceSpec
    <3>1. UNCHANGED <<request, files>> /\ UNCHANGED Host /\ (exact' = exact \/ ~exact')
      BY <2>1, <2>2, <2>6 DEF GetDeviceSpec
    <3> QED
      BY <3>1 DEF Registry!Disturb
  <2>7. CASE Save
    <3> DEFINE f == Head(pending)
               spec == Build(request, common, SplitOnAnnotation(devs, f))
    <3>1. UNCHANGED Host /\ UNCHANGED <<request, exact>>
      BY <2>1, <2>7 DEF Save
    <3>2. f \in File
      BY <2>7 DEF Save, GenerateInv, DevsInv
    <3>3. UNCHANGED files \/ (ValidSpec(spec) /\ files' = [files EXCEPT ![f] = spec])
      BY <2>7 DEF Save
    <3> HIDE DEF f, spec
    <3>4. CASE ValidSpec(spec) /\ files' = [files EXCEPT ![f] = spec]
      <4>1. files'[f] = spec
        BY <3>2, <3>4 DEF GenerateInv, PhaseInv
      <4>2. Replace(f)
        BY <3>1, <3>4, <4>1 DEF Replace
      <4> QED
        BY <3>2, <4>2
    <3> QED
      BY <3>1, <3>3, <3>4
  <2>8. CASE Finish
    BY <2>8 DEF Finish, Registry!Disturb
  <2>9. CASE Upgrade
    BY <2>9 DEF Upgrade, genVars, Registry!Disturb
  <2>10. CASE NodesStep
    <3>1. UNCHANGED <<request, files, version>>
      BY <2>10 DEF NodesStep, genVars
    <3>2. CASE <<bus, mig, nodes>>' = <<bus, mig, nodes>>
      BY <2>2, <2>10, <3>1, <3>2 DEF NodesStep, Host
    <3>3. CASE <<bus, mig, nodes>>' # <<bus, mig, nodes>>
      BY <2>10, <3>1, <3>3 DEF NodesStep, Registry!Disturb
    <3> QED
      BY <3>2, <3>3
  <2>11. CASE UNCHANGED vars
    BY <2>11 DEF vars, nodesVars, genVars, Host
  <2> QED
    BY <2>3, <2>4, <2>5, <2>6, <2>7, <2>8, <2>9, <2>10, <2>11 DEF Next
<1>2. GenerateInv /\ [Next]_vars => [A]_(Registry!registryVars)
  BY <1>1 DEF Registry!registryVars
<1> QED
  BY <1>2, GenerateInvariant, PTL DEF Spec
=============================================================================
