----------------------- MODULE ContainerRuntimeProofs -----------------------
(***************************************************************************)
(* The safety properties of ContainerRuntime, for all containers, configs, *)
(* hosts and numbers of GPUs.                                              *)
(***************************************************************************)
EXTENDS ContainerRuntime, SequenceTheorems, WellFoundedInduction, TLAPS

----------------------------------------------------------------------------
(* Sequences and positions *)

\* The least position of a set that is not empty is in it.
LEMMA FirstPosition ==
  ASSUME NEW S, NEW list \in Seq(S), NEW P \in SUBSET DOMAIN list, P # {}
  PROVE  First(P) \in P
<1>1. P \in SUBSET Nat
  BY LenProperties
<1>2. \E i \in P : \A j \in P : i <= j
  <2>1. PICK i \in P : \A j \in P : <<j, i>> \notin OpToRel(<, Nat)
    BY <1>1, NatLessThanWellFounded, WFMin
  <2>2. \A j \in P : ~(j < i)
    BY <2>1, <1>1 DEF OpToRel
  <2> QED
    BY <2>2, <1>1
<1> QED
  BY <1>2 DEF First

LEMMA OnePosition ==
  ASSUME NEW n \in Nat, n <= 1, NEW i \in 1 .. n, NEW j \in 1 .. n
  PROVE  i = j
  OBVIOUS

LEMMA OneElement ==
  ASSUME NEW S, NEW e \in S
  PROVE  <<e>> \in Seq(S)
  OBVIOUS

LEMMA RangeOne == \A e : Range(<<e>>) = {e}
  BY DEF Range

LEMMA RangeEmpty == \A S : \A s \in Seq(S) : Range(s) = {} <=> s = <<>>
  BY DEF Range

LEMMA RangeElements ==
  ASSUME NEW S, NEW s \in Seq(S)
  PROVE  Range(s) \subseteq S
  BY LenProperties DEF Range

LEMMA RangeConcat ==
  ASSUME NEW S, NEW s \in Seq(S), NEW t \in Seq(S)
  PROVE  Range(s \o t) = Range(s) \cup Range(t)
<1>1. s \o t \in Seq(S) /\ DOMAIN (s \o t) = 1 .. Len(s) + Len(t)
  BY ConcatProperties, LenProperties
<1>2. /\ DOMAIN s = 1 .. Len(s) /\ Len(s) \in Nat
      /\ DOMAIN t = 1 .. Len(t) /\ Len(t) \in Nat
  BY LenProperties
<1>3. Range(s \o t) \subseteq Range(s) \cup Range(t)
  <2> SUFFICES ASSUME NEW i \in 1 .. Len(s) + Len(t)
               PROVE  (s \o t)[i] \in Range(s) \cup Range(t)
    BY <1>1 DEF Range
  <2>1. CASE i <= Len(s)
    BY <2>1, <1>2, ConcatProperties DEF Range
  <2>2. CASE i > Len(s)
    <3>1. i - Len(s) \in DOMAIN t /\ (s \o t)[i] = t[i - Len(s)]
      BY <2>2, <1>2, ConcatProperties
    <3> QED
      BY <3>1 DEF Range
  <2> QED
    BY <2>1, <2>2, <1>2
<1>4. Range(s) \subseteq Range(s \o t)
  <2> SUFFICES ASSUME NEW i \in 1 .. Len(s)
               PROVE  s[i] \in Range(s \o t)
    BY <1>2 DEF Range
  <2>1. i \in DOMAIN (s \o t) /\ (s \o t)[i] = s[i]
    BY <1>1, <1>2, ConcatProperties
  <2> QED
    BY <2>1 DEF Range
<1>5. Range(t) \subseteq Range(s \o t)
  <2> SUFFICES ASSUME NEW i \in 1 .. Len(t)
               PROVE  t[i] \in Range(s \o t)
    BY <1>2 DEF Range
  <2>1. i + Len(s) \in DOMAIN (s \o t) /\ (s \o t)[i + Len(s)] = t[i]
    BY <1>1, <1>2, ConcatProperties
  <2> QED
    BY <2>1 DEF Range
<1> QED
  BY <1>3, <1>4, <1>5

LEMMA RangeHeadTail ==
  ASSUME NEW S, NEW s \in Seq(S), s # <<>>
  PROVE  /\ Head(s) \in S /\ Tail(s) \in Seq(S)
         /\ Range(s) = {Head(s)} \cup Range(Tail(s))
<1>1. /\ Head(s) \in S /\ Tail(s) \in Seq(S)
      /\ s = <<Head(s)>> \o Tail(s)
  BY HeadTailProperties
<1>2. <<Head(s)>> \in Seq(S)
  BY <1>1
<1>3. Range(s) = Range(<<Head(s)>>) \cup Range(Tail(s))
  BY <1>1, <1>2, RangeConcat
<1> QED
  BY <1>1, <1>3, RangeOne

\* A list of device names that is mapped name by name.
LEMMA MappedList ==
  ASSUME NEW S, NEW T, NEW list \in Seq(S), NEW f \in [DOMAIN list -> T]
  PROVE  f \in Seq(T) /\ Len(f) = Len(list) /\ Range(f) = {f[i] : i \in DOMAIN list}
<1>1. DOMAIN list = 1 .. Len(list) /\ Len(list) \in Nat
  BY LenProperties
<1>2. f \in Seq(T)
  BY <1>1, SeqDef
<1>3. DOMAIN f = 1 .. Len(f) /\ Len(f) \in Nat
  BY <1>2, LenProperties
<1> QED
  BY <1>1, <1>2, <1>3 DEF Range

----------------------------------------------------------------------------
(* Requests *)

\* The lists of device names a container can request are lists of device names.
LEMMA VisibleDevicesType ==
  ASSUME NEW s \in OCISpec, NEW c \in Config, NEW b \in BOOLEAN
  PROVE  VisibleDevices(s, c, b) \in Seq(DeviceName)
<1>1. s.annotations \in Seq(DeviceName)
  BY DEF OCISpec
<1>2. s.mounts \in Seq(DeviceName)
  <2>1. s.mounts \in Seq(DeviceName \ {Plain("")})
    BY DEF OCISpec
  <2> QED
    BY <2>1, SeqMonotonic
<1>3. \A id \in Special : Plain(id) \in DeviceName
  BY DEF Plain, DeviceName, Kind
<1>4. \A list \in Seq(DeviceName) : VisibleDevicesList(list) \in Seq(DeviceName)
  <2> TAKE list \in Seq(DeviceName)
  <2>1. DevicesList(list) \in [DOMAIN list -> DeviceName]
    BY <1>3, LenProperties DEF DevicesList, Special
  <2>2. DevicesList(list) \in Seq(DeviceName)
    BY <2>1, MappedList
  <2>3. Plain("all") \in DeviceName /\ Plain("") \in DeviceName
    BY <1>3 DEF Special
  <2>4. <<Plain("all")>> \in Seq(DeviceName) /\ <<Plain("")>> \in Seq(DeviceName) /\ <<>> \in Seq(DeviceName)
    BY <2>3, OneElement, EmptySeq
  <2> QED
    BY <2>2, <2>4 DEF VisibleDevicesList
<1>5. DevicesFromEnvvars(s, VisibleEnvVar(s, c)) \in Seq(DeviceName)
  <2>1. VisibleEnvVar(s, c).list \in Seq(DeviceName)
    BY DEF OCISpec, Variable, VisibleEnvVar
  <2>2. <<Plain("all")>> \in Seq(DeviceName) /\ <<>> \in Seq(DeviceName)
    BY <1>3, OneElement, EmptySeq DEF Special
  <2> QED
    BY <1>4, <2>1, <2>2 DEF DevicesFromEnvvars
<1> QED
  BY <1>1, <1>2, <1>5, EmptySeq DEF VisibleDevices

\* The policy, and not the mode, decides which devices are visible.
LEMMA PolicyDecides ==
  ASSUME NEW s, NEW c, NEW d, NEW b,
         c.acceptMounts = d.acceptMounts, c.acceptEnv = d.acceptEnv, c.swarmResource = d.swarmResource
  PROVE  VisibleDevices(s, c, b) = VisibleDevices(s, d, b)
  BY DEF VisibleDevices, VisibleEnvVar

\* To replace the empty string by none, or to qualify a name, does not change the
\* GPUs it names.
LEMMA SameGPUs ==
  ASSUME NEW d \in DeviceName, NEW kind \in Kind
  PROVE  /\ DeviceRequest(d, kind) \in DeviceName
         /\ NamedGPUs(DeviceRequest(d, kind)) = NamedGPUs(d)
         /\ Plain(d.id) \in DeviceName
         /\ NamedGPUs(Plain(d.id)) = NamedGPUs(d)
<1> USE GPUAssumption DEF DeviceName, Special, Plain, Kind
<1>1. DeviceRequest(d, kind) \in DeviceName /\ Plain(d.id) \in DeviceName
  BY DEF DeviceRequest
<1>2. DeviceRequest(d, kind).id = d.id \/ (d.id = "" /\ DeviceRequest(d, kind).id = "none")
  BY DEF DeviceRequest
<1>3. NamedGPUs(DeviceRequest(d, kind)) = NamedGPUs(d)
  BY <1>2 DEF NamedGPUs
<1>4. NamedGPUs(Plain(d.id)) = NamedGPUs(d)
  BY DEF NamedGPUs
<1> QED
  BY <1>1, <1>3, <1>4

\* The same of a list of names.
LEMMA SameGPUsOfList ==
  ASSUME NEW devices \in Seq(DeviceName), NEW kind \in Kind
  PROVE  LET names == DeviceRequestsOf(devices, kind)
             ids   == Unqualified(names)
         IN  /\ names \in Seq(DeviceName) /\ Len(names) = Len(devices)
             /\ Range(names) = {DeviceRequest(d, kind) : d \in Range(devices)}
             /\ ids \in Seq(DeviceName) /\ Len(ids) = Len(devices)
             /\ Range(ids) = {Plain(d.id) : d \in Range(names)}
             /\ GPUsNamed(Range(names)) = GPUsNamed(Range(devices))
             /\ GPUsNamed(Range(ids)) = GPUsNamed(Range(devices))
<1> DEFINE names == DeviceRequestsOf(devices, kind)
           ids   == Unqualified(names)
<1>1. names \in [DOMAIN devices -> DeviceName]
  BY SameGPUs, LenProperties DEF DeviceRequestsOf
<1>2. names \in Seq(DeviceName) /\ Len(names) = Len(devices)
  BY <1>1, MappedList
<1>3. Range(names) = {DeviceRequest(d, kind) : d \in Range(devices)}
  BY DEF Range, DeviceRequestsOf
<1>4. ids \in [DOMAIN names -> DeviceName]
  BY <1>2, SameGPUs, LenProperties DEF Unqualified
<1>5. ids \in Seq(DeviceName) /\ Len(ids) = Len(devices)
  BY <1>2, <1>4, MappedList
<1>6. Range(ids) = {Plain(d.id) : d \in Range(names)}
  BY DEF Range, Unqualified
<1>7. Range(devices) \subseteq DeviceName /\ Range(names) \subseteq DeviceName
  BY <1>2, RangeElements
<1>8. GPUsNamed(Range(names)) = GPUsNamed(Range(devices))
  BY <1>3, <1>7, SameGPUs DEF GPUsNamed
<1>9. GPUsNamed(Range(ids)) = GPUsNamed(Range(names))
  BY <1>6, <1>7, SameGPUs DEF GPUsNamed
<1> QED
  BY <1>2, <1>3, <1>5, <1>6, <1>8, <1>9

----------------------------------------------------------------------------
(* Modifiers *)

Constructed == [ok : BOOLEAN, modifiers : Seq(Modifier)]

\* What the constructors return.
LEMMA ConstructedTypes ==
  /\ Failed \in Constructed /\ ~Failed.ok
  /\ \A ms \in Seq(Modifier) : Made(ms) \in Constructed /\ Made(ms).ok /\ Made(ms).modifiers = ms
  /\ \A g \in SUBSET GPU, f \in SUBSET Feature :
       CDIModifier(g, f) \in Modifier /\ <<CDIModifier(g, f)>> \in Seq(Modifier)
  /\ HookRemover \in Modifier /\ <<HookRemover>> \in Seq(Modifier)
<1>1. Failed \in Constructed /\ ~Failed.ok
  BY EmptySeq DEF Failed, Constructed
<1>2. \A ms \in Seq(Modifier) : Made(ms) \in Constructed /\ Made(ms).ok /\ Made(ms).modifiers = ms
  BY DEF Made, Constructed
<1>3. \A g \in SUBSET GPU, f \in SUBSET Feature : CDIModifier(g, f) \in Modifier
  BY DEF CDIModifier, Modifier
<1>4. HookRemover \in Modifier
  BY DEF HookRemover, Modifier
<1> QED
  BY <1>1, <1>2, <1>3, <1>4, OneElement

\* The gated devices: one modifier, without GPUs.
LEMMA GatedDevicesFacts ==
  ASSUME NEW s \in OCISpec
  PROVE  /\ GatedDevices(s) \in Seq(Modifier)
         /\ Range(GatedDevices(s)) = IF "gds" \in s.features THEN {CDIModifier({}, {"gds"})} ELSE {}
<1>1. {"gds"} \in SUBSET Feature
  BY DEF Feature
<1>2. <<CDIModifier({}, {"gds"})>> \in Seq(Modifier)
  BY <1>1, ConstructedTypes
<1> QED
  BY <1>2, EmptySeq, RangeOne, RangeEmpty DEF GatedDevices

LEMMA NamedSubset ==
  ASSUME NEW names
  PROVE  /\ GPUsNamed(names) \in SUBSET GPU
         /\ \A d \in names : NamedGPUs(d) \in SUBSET GPU /\ NamedGPUs(d) \subseteq GPUsNamed(names)
  BY DEF GPUsNamed, NamedGPUs

\* The GPUs g are the requested ones, or the first where all are requested and the spec
\* is generated by the pure CSV generators.
Served(h, csv, g, requested) ==
  \/ g = requested
  \/ csv /\ ~(GPU \subseteq h.mixed) /\ requested = GPU /\ g = {"0"}

LEMMA ServedSubset ==
  ASSUME NEW h, NEW csv, NEW g, NEW requested, Served(h, csv, g, requested)
  PROVE  g \subseteq requested
  BY GPUAssumption DEF Served

\* A spec generated from CSV files, for a set of names or for all GPUs without names.
LEMMA CSVSpecFacts ==
  ASSUME NEW h \in Host, NEW names \in SUBSET DeviceName
  PROVE  LET made == CSVSpec(names, h.mixed)
         IN  /\ made \in Constructed
             /\ made.ok => \E g \in SUBSET GPU :
                  /\ made.modifiers = <<CDIModifier(g, {})>>
                  /\ names # {} => Served(h, TRUE, g, GPUsNamed(names))
<1> DEFINE made == CSVSpec(names, h.mixed)
           all == names = {} \/ Plain("all") \in names
           wanted == IF all THEN GPU ELSE GPUsNamed(names)
           known == all \/ \A d \in names : d.kind = "plain" /\ d.id \in GPU
           Goal(m) == /\ m \in Constructed
                      /\ m.ok => \E g \in SUBSET GPU :
                           /\ m.modifiers = <<CDIModifier(g, {})>>
                           /\ names # {} => Served(h, TRUE, g, GPUsNamed(names))
<1>1. Plain("all") \in names => GPUsNamed(names) = GPU
  <2>1. NamedGPUs(Plain("all")) = GPU
    BY DEF NamedGPUs, Plain
  <2> QED
    BY <2>1, NamedSubset
<1>2. wanted \in SUBSET GPU /\ {"0"} \in SUBSET GPU
  BY NamedSubset, GPUAssumption
<1>3. \A g \in SUBSET GPU : <<CDIModifier(g, {})>> \in Seq(Modifier)
  BY ConstructedTypes
<1>4. CASE known /\ wanted \subseteq h.mixed
  <2>1. made = Made(<<CDIModifier(wanted, {})>>)
    BY <1>4 DEF CSVSpec
  <2>2. names # {} => Served(h, TRUE, wanted, GPUsNamed(names))
    BY <1>1 DEF Served
  <2> HIDE DEF wanted, made
  <2> QED
    BY <1>2, <1>3, <2>1, <2>2, ConstructedTypes DEF made
<1>5. CASE ~(known /\ wanted \subseteq h.mixed) /\ names \subseteq {Plain("all"), Plain("0")}
  <2>1. made = Made(<<CDIModifier({"0"}, {})>>)
    BY <1>5 DEF CSVSpec
  <2>2. CASE Plain("all") \in names
    <3>1. ~(GPU \subseteq h.mixed)
      BY <1>5, <2>2
    <3>2. Served(h, TRUE, {"0"}, GPUsNamed(names))
      BY <1>1, <2>2, <3>1 DEF Served
    <3> HIDE DEF made
    <3> QED
      BY <1>2, <1>3, <2>1, <3>2, ConstructedTypes DEF made
  <2>3. CASE Plain("all") \notin names
    <3>1. names # {} => names = {Plain("0")}
      BY <1>5, <2>3
    <3>2. NamedGPUs(Plain("0")) = {"0"}
      BY GPUAssumption DEF NamedGPUs, Plain
    <3>3. names # {} => GPUsNamed(names) = {"0"}
      BY <3>1, <3>2 DEF GPUsNamed
    <3>4. names # {} => Served(h, TRUE, {"0"}, GPUsNamed(names))
      BY <3>3 DEF Served
    <3> HIDE DEF made
    <3> QED
      BY <1>2, <1>3, <2>1, <3>4, ConstructedTypes DEF made
  <2> QED
    BY <2>2, <2>3
<1>6. CASE ~(known /\ wanted \subseteq h.mixed) /\ ~(names \subseteq {Plain("all"), Plain("0")})
  <2>1. made = Failed
    BY <1>6 DEF CSVSpec
  <2> QED
    BY <2>1, ConstructedTypes
<1> QED
  BY <1>4, <1>5, <1>6

\* A generated spec is one for GPUs that are named; it is one for all that are named
\* unless there is none among them, or it is the pure CSV one.
LEMMA GeneratedSpec ==
  ASSUME NEW h \in Host, NEW ids \in Seq(DeviceName), ids # <<>>
  PROVE  /\ AutomaticCDISpec(ids, h) \in Constructed
         /\ AutomaticCDISpec(ids, h).ok =>
              \E g \in SUBSET GPU :
                /\ AutomaticCDISpec(ids, h).modifiers = <<CDIModifier(g, {})>>
                /\ g \subseteq GPUsNamed(Range(ids))
                /\ Len(ids) = 1 \/ (\A d \in Range(ids) : d.id # "none") => Served(h, h.platform = "tegra", g, GPUsNamed(Range(ids)))
<1> DEFINE Goal(made) ==
             /\ made \in Constructed
             /\ made.ok =>
                  \E g \in SUBSET GPU :
                    /\ made.modifiers = <<CDIModifier(g, {})>>
                    /\ g \subseteq GPUsNamed(Range(ids))
                    /\ Len(ids) = 1 \/ (\A d \in Range(ids) : d.id # "none") => Served(h, h.platform = "tegra", g, GPUsNamed(Range(ids)))
<1>1. Goal(Failed)
  BY ConstructedTypes
<1>2. ASSUME NEW g \in SUBSET GPU, g \subseteq GPUsNamed(Range(ids)),
             Len(ids) = 1 \/ (\A d \in Range(ids) : d.id # "none") => g = GPUsNamed(Range(ids))
      PROVE  Goal(Made(<<CDIModifier(g, {})>>))
  BY <1>2, ConstructedTypes DEF Served
<1>3. Range(ids) # {} /\ Range(ids) \in SUBSET DeviceName
  BY RangeEmpty, RangeElements
<1>4. h.platform = "tegra" => Goal(CSVSpec(Range(ids), h.mixed))
  <2> DEFINE made == CSVSpec(Range(ids), h.mixed)
  <2>1. /\ made \in Constructed
        /\ made.ok => \E g \in SUBSET GPU :
             /\ made.modifiers = <<CDIModifier(g, {})>>
             /\ Range(ids) # {} => Served(h, TRUE, g, GPUsNamed(Range(ids)))
    BY <1>3, CSVSpecFacts
  <2> HIDE DEF made
  <2>2. h.platform = "tegra" => Goal(made)
    BY <1>3, <2>1, ServedSubset DEF Served
  <2> QED
    BY <2>2 DEF made
<1>5. Goal(NVMLSpec(ids))
  <2> DEFINE deciding == {i \in DOMAIN ids : ids[i].id \in {"all", "none"}}
             d == ids[First(deciding)]
  <2>1. CASE deciding # {}
    <3>1. First(deciding) \in deciding
      BY <2>1, FirstPosition
    <3>2. d \in Range(ids) /\ d.id \in {"all", "none"} /\ First(deciding) \in DOMAIN ids
      BY <3>1 DEF Range
    <3>3. d.id = "all" => NamedGPUs(d) = GPUsNamed(Range(ids))
      BY <3>2 DEF NamedGPUs, GPUsNamed
    <3>4. Len(ids) = 1 => NamedGPUs(d) = GPUsNamed(Range(ids))
      <4> SUFFICES ASSUME Len(ids) = 1 PROVE NamedGPUs(d) = GPUsNamed(Range(ids))
        OBVIOUS
      <4>1. DOMAIN ids = {1}
        BY LenProperties
      <4>2. Range(ids) = {d}
        BY <3>2, <4>1 DEF Range
      <4> QED
        BY <4>2 DEF GPUsNamed
    <3>5. NamedGPUs(d) \in SUBSET GPU /\ NamedGPUs(d) \subseteq GPUsNamed(Range(ids))
      BY <3>2, NamedSubset
    <3>6. Goal(Made(<<CDIModifier(NamedGPUs(d), {})>>))
      BY <1>2, <3>2, <3>3, <3>4, <3>5
    <3> QED
      BY <2>1, <3>6 DEF NVMLSpec
  <2>2. CASE deciding = {}
    BY <2>2, <1>1, <1>2, NamedSubset DEF NVMLSpec
  <2> QED
    BY <2>1, <2>2
<1> QED
  BY <1>4, <1>5 DEF AutomaticCDISpec

\* The modifiers for a list of devices in CDI mode and in JIT-CDI mode: one for GPUs
\* that are named, and those of the gated devices if the spec is generated.  It is for
\* all that are named unless there is none, or what stands for none, besides others;
\* the registry has no none.
CDIParts(modifiers, s, devices, jit, h) ==
  \E g \in SUBSET GPU, gated \in BOOLEAN :
    /\ Range(modifiers) = {CDIModifier(g, {})} \cup (IF gated THEN Range(GatedDevices(s)) ELSE {})
    /\ g \subseteq GPUsNamed(Range(devices))
    /\ jit /\ (\A d \in Range(devices) : d.kind # "vendor") => gated
    /\ jit \/ Plain("") \notin Range(devices)
    /\ \/ Len(devices) = 1
       \/ \A d \in Range(devices) : d.id # "none" /\ (jit => d # Plain(""))
       => Served(h, h.platform = "tegra", g, GPUsNamed(Range(devices)))

LEMMA CDIModifiers ==
  ASSUME NEW s \in OCISpec, NEW devices \in Seq(DeviceName), NEW jit \in BOOLEAN,
         NEW h \in Host
  PROVE  LET made == NewCDIModifier(s, devices, jit, h)
         IN  /\ made \in Constructed
             /\ devices = <<>> => made.modifiers = <<>>
             /\ devices # <<>> /\ made.ok => CDIParts(made.modifiers, s, devices, jit, h)
<1> DEFINE made == NewCDIModifier(s, devices, jit, h)
           kind == IF jit THEN "automatic" ELSE "vendor"
           names == DeviceRequestsOf(devices, kind)
           ids == Unqualified(names)
           automatic == {d \in Range(names) : d.kind = "automatic"}
<1>1. kind \in Kind
  BY DEF Kind
<1>2. /\ names \in Seq(DeviceName) /\ Len(names) = Len(devices)
      /\ Range(names) = {DeviceRequest(d, kind) : d \in Range(devices)}
      /\ ids \in Seq(DeviceName) /\ Len(ids) = Len(devices)
      /\ Range(ids) = {Plain(d.id) : d \in Range(names)}
      /\ GPUsNamed(Range(names)) = GPUsNamed(Range(devices))
      /\ GPUsNamed(Range(ids)) = GPUsNamed(Range(devices))
  BY <1>1, SameGPUsOfList
<1>3. /\ Len(devices) \in Nat
      /\ devices = <<>> <=> Len(devices) = 0
      /\ names = <<>> <=> Len(names) = 0
      /\ ids = <<>> <=> Len(ids) = 0
  BY <1>2, EmptySeq, LenProperties
<1>4. CASE devices = <<>>
  <2>1. made = Made(<<>>)
    BY <1>4, <1>2, <1>3 DEF NewCDIModifier
  <2> QED
    BY <1>4, <2>1, ConstructedTypes, EmptySeq
<1>5. CASE devices # <<>> /\ automatic \notin {{}, Range(names)}
  <2>1. made = Failed
    BY <1>5, <1>2, <1>3 DEF NewCDIModifier
  <2> QED
    BY <1>5, <2>1, ConstructedTypes
<1>6. Range(devices) \subseteq DeviceName
  BY RangeElements
<1>7. CASE devices # <<>> /\ automatic = {}
  <2>1. made = RegistryModifier(Range(names))
    BY <1>7, <1>2, <1>3 DEF NewCDIModifier
  <2> DEFINE g == GPUsNamed(Range(names))
  <2>2. g \in SUBSET GPU
    BY NamedSubset
  <2>3. <<CDIModifier(g, {})>> \in Seq(Modifier)
    BY <2>2, ConstructedTypes
  <2>4. made \in Constructed /\ (made.ok => made.modifiers = <<CDIModifier(g, {})>>)
    BY <2>1, <2>3, ConstructedTypes DEF RegistryModifier
  <2>5. ~(jit /\ \A d \in Range(devices) : d.kind # "vendor")
    <3> SUFFICES ASSUME jit, \A d \in Range(devices) : d.kind # "vendor" PROVE FALSE
      OBVIOUS
    <3>1. PICK d \in Range(devices) : TRUE
      BY <1>7, RangeEmpty
    <3>2. DeviceRequest(d, kind).kind = "automatic"
      BY <1>6 DEF DeviceRequest, DeviceName, Kind, IsQualifiedName
    <3> QED
      BY <3>1, <3>2, <1>2, <1>7
  <2>6. made.ok => Range(made.modifiers) = {CDIModifier(g, {})}
    BY <2>4, RangeOne
  <2>7. made.ok => CDIParts(made.modifiers, s, devices, jit, h)
    <3> HAVE made.ok
    <3>1. jit \/ Plain("") \notin Range(devices)
      <4> SUFFICES ASSUME ~jit, Plain("") \in Range(devices) PROVE FALSE
        OBVIOUS
      <4>1. DeviceRequest(Plain(""), kind) \in Range(names)
        BY <1>2
      <4>2. DeviceRequest(Plain(""), kind).id = "none"
        BY DEF DeviceRequest, IsQualifiedName, Plain
      <4> QED
        BY <2>1, <4>1, <4>2, GPUAssumption, ConstructedTypes DEF RegistryModifier, Special
    <3> HIDE DEF made, names, g
    <3> QED
      BY <2>2, <2>5, <2>6, <3>1, <1>2, Zenon DEF g, CDIParts, Served
  <2> QED
    BY <1>7, <2>4, <2>7
<1>8. CASE devices # <<>> /\ automatic = Range(names) /\ automatic # {}
  <2> DEFINE generated == AutomaticCDISpec(ids, h)
  <2>1. made = [generated EXCEPT !.modifiers = @ \o GatedDevices(s)]
    BY <1>8, <1>2, <1>3 DEF NewCDIModifier
  <2>2. ids # <<>>
    BY <1>8, <1>2, <1>3
  <2>3. /\ generated \in Constructed
        /\ generated.ok =>
             \E g \in SUBSET GPU :
               /\ generated.modifiers = <<CDIModifier(g, {})>>
               /\ g \subseteq GPUsNamed(Range(ids))
               /\ Len(ids) = 1 \/ (\A d \in Range(ids) : d.id # "none") => Served(h, h.platform = "tegra", g, GPUsNamed(Range(ids)))
    BY <2>2, <1>2, GeneratedSpec
  <2>4. /\ made.ok = generated.ok
        /\ made.modifiers = generated.modifiers \o GatedDevices(s)
        /\ generated.modifiers \in Seq(Modifier)
    BY <2>1, <2>3 DEF Constructed
  <2>5. made \in Constructed
    <3>1. generated.modifiers \o GatedDevices(s) \in Seq(Modifier)
      BY <2>4, GatedDevicesFacts, ConcatProperties
    <3> QED
      BY <3>1, <2>1, <2>3 DEF Constructed
  <2>6. (\A d \in Range(devices) : d.id # "none" /\ (jit => d # Plain("")))
          => \A d \in Range(ids) : d.id # "none"
    <3>0. \A e \in Range(ids) : \E d \in Range(devices) : e.id = DeviceRequest(d, kind).id
      <4>1. \A e \in Range(ids) : \E n \in Range(names) : e.id = n.id
        BY <1>2 DEF Plain
      <4> QED
        BY <4>1, <1>2
    <3> SUFFICES ASSUME \A d \in Range(devices) : d.id # "none" /\ (jit => d # Plain("")),
                        NEW d \in Range(devices)
                 PROVE  DeviceRequest(d, kind).id # "none"
      BY <3>0
    <3>1. DeviceRequest(d, kind).kind = "automatic"
      BY <1>2, <1>8
    <3>2. d \in DeviceName /\ d.id # "none"
      BY <1>6
    <3>3. CASE IsQualifiedName(d)
      BY <3>2, <3>3 DEF DeviceRequest
    <3>4. CASE ~IsQualifiedName(d)
      <4>1. jit
        BY <3>1, <3>4 DEF DeviceRequest
      <4>2. d = Plain(d.id)
        BY <3>2, <3>4 DEF IsQualifiedName, Plain, DeviceName
      <4> QED
        BY <4>1, <4>2, <3>2, <3>4 DEF DeviceRequest
    <3> QED
      BY <3>3, <3>4
  <2>7. ASSUME made.ok PROVE CDIParts(made.modifiers, s, devices, jit, h)
    <3>1. PICK g \in SUBSET GPU :
            /\ generated.modifiers = <<CDIModifier(g, {})>>
            /\ g \subseteq GPUsNamed(Range(ids))
            /\ Len(ids) = 1 \/ (\A d \in Range(ids) : d.id # "none") => Served(h, h.platform = "tegra", g, GPUsNamed(Range(ids)))
      BY <2>3, <2>4, <2>7
    <3>2. Range(made.modifiers) = Range(generated.modifiers) \cup Range(GatedDevices(s))
      BY <2>4, GatedDevicesFacts, RangeConcat
    <3>3. Range(made.modifiers) = {CDIModifier(g, {})} \cup Range(GatedDevices(s))
      BY <3>1, <3>2, RangeOne
    <3>4. \/ Len(devices) = 1
          \/ \A d \in Range(devices) : d.id # "none" /\ (jit => d # Plain(""))
          => Served(h, h.platform = "tegra", g, GPUsNamed(Range(devices)))
      <4>1. Len(ids) = Len(devices) /\ GPUsNamed(Range(ids)) = GPUsNamed(Range(devices))
        BY <1>2
      <4> HIDE DEF ids, names
      <4> QED
        BY <3>1, <4>1, <2>6
    <3>5. g \subseteq GPUsNamed(Range(devices))
      BY <3>1, <1>2
    <3>6. jit \/ Plain("") \notin Range(devices)
      <4> SUFFICES ASSUME ~jit, Plain("") \in Range(devices) PROVE FALSE
        OBVIOUS
      <4>1. DeviceRequest(Plain(""), kind) \in automatic
        BY <1>2, <1>8
      <4>2. DeviceRequest(Plain(""), kind).kind = "vendor"
        BY DEF DeviceRequest, IsQualifiedName, Plain
      <4> QED
        BY <4>1, <4>2
    <3> QED
      BY <3>3, <3>4, <3>5, <3>6, Zenon DEF CDIParts
  <2> QED
    BY <1>8, <2>5, <2>7
<1> QED
  BY <1>4, <1>5, <1>7, <1>8

\* What a list of modifiers adds.
GPUsOf(modifiers) == UNION {m.gpus : m \in Range(modifiers)}
EditsOf(modifiers) == UNION {m.edits : m \in Range(modifiers)}

\* The same for the modes in which the wrapper injects the devices.
InjectedParts(ms, s, c, devices, h) ==
  \E g \in SUBSET GPU, gated \in BOOLEAN :
    /\ Range(ms) = {HookRemover} \cup {CDIModifier(g, {})}
                     \cup (IF gated THEN Range(GatedDevices(s)) ELSE {})
    /\ \/ c.mode = "csv"
       \/ c.mode = "jit-cdi" /\ \A d \in Range(devices) : d.kind # "vendor"
       => gated
    /\ c.mode = "cdi" => Plain("") \notin Range(devices)
    /\ c.mode = "csv" /\ Range(devices) # {Plain("")} => Served(h, TRUE, g, GPUsNamed(Range(devices)))
    /\ c.mode # "csv" => g \subseteq GPUsNamed(Range(devices))
    /\ /\ c.mode # "csv"
       /\ \/ Len(devices) = 1
          \/ \A d \in Range(devices) : d.id # "none" /\ (c.mode # "cdi" => d # Plain(""))
       => Served(h, h.platform = "tegra", g, GPUsNamed(Range(devices)))

LEMMA InjectingParts ==
  ASSUME NEW s \in OCISpec, NEW c \in Config, NEW h \in Host,
         c.mode \in {"cdi", "jit-cdi", "csv"}, NewModifiers(s, c, h).ok
  PROVE  LET ms == NewModifiers(s, c, h).modifiers
             devices == VisibleDevices(s, c, c.annotationPrefixes)
         IN  /\ ms \in Seq(Modifier) /\ ms # <<>> /\ Head(ms) = HookRemover
             /\ devices = <<>> => Range(ms) = {HookRemover}
             /\ devices # <<>> => InjectedParts(ms, s, c, devices, h)
<1> DEFINE ms == NewModifiers(s, c, h).modifiers
           devices == VisibleDevices(s, c, c.annotationPrefixes)
<1>1. c.annotationPrefixes \in BOOLEAN
  BY DEF Config
<1>2. devices \in Seq(DeviceName)
  BY <1>1, VisibleDevicesType
<1>3. ASSUME NEW first \in Seq(Modifier), NEW rest \in Constructed
      PROVE  /\ Prepend(first, rest).ok = rest.ok
             /\ Prepend(first, rest).modifiers = first \o rest.modifiers
             /\ first \o rest.modifiers \in Seq(Modifier)
             /\ Range(first \o rest.modifiers) = Range(first) \cup Range(rest.modifiers)
  <2>1. rest.modifiers \in Seq(Modifier)
    BY DEF Constructed
  <2>2. Prepend(first, rest).ok = rest.ok /\ Prepend(first, rest).modifiers = first \o rest.modifiers
    BY DEF Prepend, Constructed
  <2> QED
    BY <2>1, <2>2, ConcatProperties, RangeConcat
<1>4. ASSUME NEW tail \in Seq(Modifier)
      PROVE  /\ <<HookRemover>> \o tail \in Seq(Modifier)
             /\ <<HookRemover>> \o tail # <<>>
             /\ Head(<<HookRemover>> \o tail) = HookRemover
  <2>1. <<HookRemover>> \in Seq(Modifier) /\ Len(<<HookRemover>>) = 1 /\ <<HookRemover>>[1] = HookRemover
    BY ConstructedTypes
  <2>2. /\ <<HookRemover>> \o tail \in Seq(Modifier)
        /\ Len(<<HookRemover>> \o tail) = 1 + Len(tail)
        /\ (<<HookRemover>> \o tail)[1] = HookRemover
    BY <2>1, ConcatProperties, LenProperties
  <2>3. <<HookRemover>> \o tail # <<>>
    BY <2>1, <2>2, ConcatEqualIffEmpty
  <2> QED
    BY <2>2, <2>3, HeadTailProperties
<1>5. <<HookRemover>> \in Seq(Modifier) /\ Range(<<HookRemover>>) = {HookRemover}
  BY ConstructedTypes, RangeOne
<1>6. CASE c.mode \in {"cdi", "jit-cdi"}
  <2> DEFINE jit == c.mode = "jit-cdi"
             made == NewCDIModifier(s, devices, jit, h)
  <2>0. jit \in BOOLEAN
    OBVIOUS
  <2>1. NewModifiers(s, c, h) = Prepend(<<HookRemover>>, made)
    BY <1>6 DEF NewModifiers
  <2>2. /\ made \in Constructed
        /\ devices = <<>> => made.modifiers = <<>>
        /\ devices # <<>> /\ made.ok => CDIParts(made.modifiers, s, devices, jit, h)
    <3> HIDE DEF devices, jit
    <3> QED
      BY <1>2, <2>0, CDIModifiers
  <2>3. /\ made.ok
        /\ ms = <<HookRemover>> \o made.modifiers
        /\ Range(ms) = {HookRemover} \cup Range(made.modifiers)
    <3> DEFINE r == <<HookRemover>>
    <3>1. r \in Seq(Modifier) /\ Range(r) = {HookRemover} /\ NewModifiers(s, c, h) = Prepend(r, made)
      BY <2>1, <1>5
    <3> HIDE DEF made, devices, r
    <3>2. made \in Constructed
      BY <2>2
    <3>3. /\ Prepend(r, made).ok = made.ok
          /\ Prepend(r, made).modifiers = r \o made.modifiers
          /\ Range(r \o made.modifiers) = Range(r) \cup Range(made.modifiers)
      BY <3>1, <3>2, <1>3
    <3>4. made.ok
      BY <3>1, <3>3
    <3>5. ms = r \o made.modifiers /\ Range(ms) = {HookRemover} \cup Range(made.modifiers)
      BY <3>1, <3>3
    <3> QED
      BY <3>4, <3>5 DEF r
  <2>4. ms \in Seq(Modifier) /\ ms # <<>> /\ Head(ms) = HookRemover
    BY <2>2, <2>3, <1>4 DEF Constructed
  <2>5. devices = <<>> => Range(ms) = {HookRemover}
    BY <2>2, <2>3 DEF Range
  <2>6. c.mode # "csv" /\ (c.mode # "cdi" <=> jit)
    BY <1>6
  <2> HIDE DEF ms, devices, made, jit
  <2>7. devices # <<>> => InjectedParts(ms, s, c, devices, h)
    BY <2>2, <2>3, <2>6 DEF CDIParts, InjectedParts, jit
  <2> QED
    BY <2>4, <2>5, <2>7 DEF ms, devices
<1>7. CASE c.mode = "csv"
  <2> DEFINE gated == FeatureGatedModifier(s, devices)
             made == CSVModifier(devices, h)
             names == Range(devices) \ {Plain("")}
  <2>1. NewModifiers(s, c, h) = Prepend(<<HookRemover>> \o gated, made)
    BY <1>7 DEF NewModifiers
  <2>2. gated \in Seq(Modifier) /\ Range(gated) = IF devices = <<>> THEN {} ELSE Range(GatedDevices(s))
    BY GatedDevicesFacts, EmptySeq, RangeEmpty DEF FeatureGatedModifier
  <2>3. names \in SUBSET DeviceName
    BY <1>2, RangeElements
  <2>4. /\ made \in Constructed
        /\ devices = <<>> => made.modifiers = <<>>
        /\ devices # <<>> => made = CSVSpec(names, h.mixed)
    <3>1. Made(<<>>) \in Constructed /\ Made(<<>>).modifiers = <<>>
      BY ConstructedTypes, EmptySeq
    <3>2. CSVSpec(names, h.mixed) \in Constructed
      BY <2>3, CSVSpecFacts
    <3> QED
      BY <3>1, <3>2 DEF CSVModifier
  <2>5. /\ <<HookRemover>> \o gated \in Seq(Modifier)
        /\ Range(<<HookRemover>> \o gated) = {HookRemover} \cup Range(gated)
    <3> DEFINE r == <<HookRemover>>
    <3>1. r \in Seq(Modifier) /\ Range(r) = {HookRemover}
      BY <1>5
    <3> HIDE DEF gated, r
    <3>2. r \o gated \in Seq(Modifier) /\ Range(r \o gated) = {HookRemover} \cup Range(gated)
      BY <2>2, <3>1, ConcatProperties, RangeConcat
    <3> QED
      BY <3>2 DEF r
  <2>6. /\ made.ok
        /\ ms = (<<HookRemover>> \o gated) \o made.modifiers
        /\ Range(ms) = ({HookRemover} \cup Range(gated)) \cup Range(made.modifiers)
        /\ made.modifiers \in Seq(Modifier)
    <3> HIDE DEF gated, made, devices
    <3>1. made.modifiers \in Seq(Modifier)
      BY <2>4 DEF Constructed
    <3> DEFINE r == <<HookRemover>> \o gated
    <3>2. r \in Seq(Modifier) /\ NewModifiers(s, c, h) = Prepend(r, made) /\ Range(r) = {HookRemover} \cup Range(gated)
      BY <2>1, <2>5
    <3> HIDE DEF r
    <3>3. made \in Constructed
      BY <2>4
    <3>4. /\ Prepend(r, made).ok = made.ok
          /\ Prepend(r, made).modifiers = r \o made.modifiers
          /\ Range(r \o made.modifiers) = Range(r) \cup Range(made.modifiers)
      BY <3>2, <3>3, <1>3
    <3>5. made.ok
      BY <3>2, <3>4
    <3>6. ms = r \o made.modifiers /\ Range(ms) = Range(r) \cup Range(made.modifiers)
      BY <3>2, <3>4
    <3> QED
      BY <3>1, <3>2, <3>5, <3>6 DEF r
  <2>7. ms \in Seq(Modifier) /\ ms # <<>> /\ Head(ms) = HookRemover
    <3>1. ms = <<HookRemover>> \o (gated \o made.modifiers) /\ gated \o made.modifiers \in Seq(Modifier)
      <4> DEFINE r == <<HookRemover>>
                 t == made.modifiers
      <4>1. r \in Seq(Modifier) /\ ms = (r \o gated) \o t
        BY <2>6, <1>5
      <4>2. gated \in Seq(Modifier) /\ t \in Seq(Modifier)
        BY <2>2, <2>6
      <4> HIDE DEF gated, made, ms, r, t
      <4>3. (r \o gated) \o t = r \o (gated \o t)
        BY <4>1, <4>2, ConcatAssociative
      <4>4. gated \o t \in Seq(Modifier)
        BY <4>2, ConcatProperties
      <4> QED
        BY <4>1, <4>3, <4>4 DEF r, t
    <3> QED
      BY <3>1, <1>4
  <2>8. devices = <<>> => Range(ms) = {HookRemover}
    BY <2>2, <2>4, <2>6, EmptySeq, RangeEmpty
  <2>9. /\ Range(devices) # {Plain("")} /\ devices # <<>> => names # {}
        /\ GPUsNamed(names) = GPUsNamed(Range(devices))
    <3>1. Range(devices) # {Plain("")} /\ devices # <<>> => names # {}
      BY <1>2, RangeEmpty
    <3>2. NamedGPUs(Plain("")) = {}
      BY GPUAssumption DEF NamedGPUs, Plain, Special
    <3>3. GPUsNamed(names) = GPUsNamed(Range(devices))
      BY <3>2 DEF GPUsNamed
    <3> QED
      BY <3>1, <3>3
  <2>11. ASSUME devices # <<>> PROVE InjectedParts(ms, s, c, devices, h)
    <3>1. PICK g \in SUBSET GPU :
            /\ made.modifiers = <<CDIModifier(g, {})>>
            /\ names # {} => Served(h, TRUE, g, GPUsNamed(names))
      BY <2>3, <2>4, <2>6, <2>11, CSVSpecFacts
    <3>2. Range(ms) = {HookRemover} \cup {CDIModifier(g, {})} \cup Range(GatedDevices(s))
      BY <2>2, <2>6, <2>11, <3>1, RangeOne
    <3>3. Range(devices) # {Plain("")} => Served(h, TRUE, g, GPUsNamed(Range(devices)))
      BY <2>9, <2>11, <3>1
    <3> HIDE DEF ms, devices, made, gated, names
    <3> QED
      BY <1>7, <3>2, <3>3, Zenon DEF InjectedParts
  <2> QED
    BY <2>7, <2>8, <2>11 DEF ms, devices
<1> QED
  BY <1>6, <1>7

\* The modifiers of legacy mode, by their parts.
LEMMA LegacyParts ==
  ASSUME NEW s \in OCISpec, NEW c \in Config, NEW h \in Host, c.mode = "legacy"
  PROVE  LET ms == NewModifiers(s, c, h).modifiers
             devices == VisibleDevices(s, c, c.annotationPrefixes)
         IN  /\ ms \in Seq(Modifier)
             /\ devices = <<>> => Range(ms) = {StableRuntimeModifier}
             /\ devices # <<>> =>
                  Range(ms) = Range(GatedDevices(s)) \cup {StableRuntimeModifier}
                    \cup (IF "graphics" \in s.features THEN {DiscoverModifier({"graphics"})} ELSE {})
<1> DEFINE ms == NewModifiers(s, c, h).modifiers
           devices == VisibleDevices(s, c, c.annotationPrefixes)
           gated == FeatureGatedModifier(s, devices)
           graphics == GraphicsModifier(s, devices)
           hook == <<StableRuntimeModifier>>
<1>1. ms = (gated \o graphics) \o hook
  BY DEF NewModifiers, Made
<1>2. gated \in Seq(Modifier) /\ Range(gated) = IF devices = <<>> THEN {} ELSE Range(GatedDevices(s))
  BY GatedDevicesFacts, EmptySeq, RangeEmpty DEF FeatureGatedModifier
<1>3. /\ graphics \in Seq(Modifier)
      /\ Range(graphics) = IF devices # <<>> /\ "graphics" \in s.features
                             THEN {DiscoverModifier({"graphics"})} ELSE {}
  <2>1. DiscoverModifier({"graphics"}) \in Modifier
    BY DEF DiscoverModifier, Modifier, Feature
  <2>2. <<DiscoverModifier({"graphics"})>> \in Seq(Modifier)
    BY <2>1, OneElement
  <2> QED
    BY <2>2, EmptySeq, RangeEmpty, RangeOne DEF GraphicsModifier
<1>4. hook \in Seq(Modifier) /\ Range(hook) = {StableRuntimeModifier}
  <2>1. StableRuntimeModifier \in Modifier
    BY DEF StableRuntimeModifier, Modifier
  <2> QED
    BY <2>1, OneElement, RangeOne
<1> HIDE DEF gated, graphics, hook, devices, ms
<1>5. gated \o graphics \in Seq(Modifier) /\ Range(gated \o graphics) = Range(gated) \cup Range(graphics)
  BY <1>2, <1>3, ConcatProperties, RangeConcat
<1>6. ms \in Seq(Modifier) /\ Range(ms) = (Range(gated) \cup Range(graphics)) \cup Range(hook)
  <2> DEFINE edits == gated \o graphics
  <2>1. edits \in Seq(Modifier) /\ Range(edits) = Range(gated) \cup Range(graphics) /\ ms = edits \o hook
    BY <1>1, <1>5
  <2> HIDE DEF edits
  <2>2. edits \o hook \in Seq(Modifier) /\ Range(edits \o hook) = Range(edits) \cup Range(hook)
    BY <1>4, <2>1, ConcatProperties, RangeConcat
  <2> QED
    BY <2>1, <2>2
<1> QED
  BY <1>2, <1>3, <1>4, <1>6 DEF ms, devices

\* No list of modifiers both injects GPUs and leaves a hook in the spec: there is a
\* remover first and no hook, or a hook and no GPUs.
LEMMA HookOrGPUs ==
  ASSUME NEW s \in OCISpec, NEW c \in Config, NEW h \in Host, c.mode \in Mode, NewModifiers(s, c, h).ok
  PROVE  LET ms == NewModifiers(s, c, h).modifiers
         IN  /\ ms \in Seq(Modifier)
             /\ c.mode # "legacy" => /\ ms # <<>> /\ Head(ms).type = "remover"
                                     /\ \A m \in Range(ms) : m.type # "hook"
             /\ c.mode = "legacy" => /\ GPUsOf(ms) = {}
                                     /\ \E m \in Range(ms) : m.type = "hook"
                                     /\ \A m \in Range(ms) :
                                          m.type # "remover" /\ (m.type = "cdi" => "gds" \in s.features)
<1> DEFINE ms == NewModifiers(s, c, h).modifiers
           devices == VisibleDevices(s, c, c.annotationPrefixes)
<1>1. CASE c.mode # "legacy"
  <2>1. c.mode \in {"cdi", "jit-cdi", "csv"}
    BY <1>1 DEF Mode
  <2>2. /\ ms \in Seq(Modifier) /\ ms # <<>> /\ Head(ms) = HookRemover
        /\ devices = <<>> => Range(ms) = {HookRemover}
        /\ devices # <<>> => InjectedParts(ms, s, c, devices, h)
    BY <2>1, InjectingParts
  <2>3. \A m \in Range(ms) : m.type # "hook"
    <3>1. \A m \in Range(GatedDevices(s)) : m.type # "hook"
      BY GatedDevicesFacts DEF CDIModifier
    <3>2. HookRemover.type # "hook" /\ \A g : CDIModifier(g, {}).type # "hook"
      BY DEF HookRemover, CDIModifier
    <3> QED
      BY <2>2, <3>1, <3>2 DEF InjectedParts
  <2> QED
    BY <1>1, <2>2, <2>3 DEF HookRemover
<1>2. CASE c.mode = "legacy"
  <2>1. /\ ms \in Seq(Modifier)
        /\ devices = <<>> => Range(ms) = {StableRuntimeModifier}
        /\ devices # <<>> =>
             Range(ms) = Range(GatedDevices(s)) \cup {StableRuntimeModifier}
               \cup (IF "graphics" \in s.features THEN {DiscoverModifier({"graphics"})} ELSE {})
    BY <1>2, LegacyParts
  <2>2. \A m \in Range(GatedDevices(s)) : m.type # "remover" /\ "gds" \in s.features /\ m.gpus = {}
    BY GatedDevicesFacts DEF CDIModifier
  <2>3. LET m == StableRuntimeModifier IN m.type = "hook" /\ m.gpus = {}
    BY DEF StableRuntimeModifier
  <2>4. LET m == DiscoverModifier({"graphics"}) IN m.type = "edits" /\ m.gpus = {}
    BY DEF DiscoverModifier
  <2>5. StableRuntimeModifier \in Range(ms)
    BY <2>1
  <2>6. \A m \in Range(ms) : /\ m.type # "remover" /\ m.gpus = {}
                             /\ m.type = "cdi" => "gds" \in s.features
    BY <2>1, <2>2, <2>3, <2>4
  <2> QED
    BY <1>2, <2>1, <2>3, <2>5, <2>6 DEF GPUsOf
<1> QED
  BY <1>1, <1>2

\* The GPUs that the wrapper's modifiers inject are named by the devices, and all of
\* those are injected but for none besides others.
LEMMA GPUsOfModifiers ==
  ASSUME NEW s \in OCISpec, NEW c \in Config, NEW h \in Host, c.mode \in {"cdi", "jit-cdi", "csv"},
         NewModifiers(s, c, h).ok
  PROVE  LET ms == NewModifiers(s, c, h).modifiers
             devices == VisibleDevices(s, c, c.annotationPrefixes)
         IN  /\ (c.mode = "csv" => Range(devices) # {Plain("")}) => GPUsOf(ms) \subseteq GPUsNamed(Range(devices))
             /\ /\ c.mode = "csv" => Range(devices) # {Plain("")}
                /\ \/ Len(devices) <= 1
                   \/ \A d \in Range(devices) : d.id # "none" /\ (c.mode # "cdi" => d # Plain(""))
                => Served(h, c.mode = "csv" \/ h.platform = "tegra", GPUsOf(ms), GPUsNamed(Range(devices)))
<1> DEFINE ms == NewModifiers(s, c, h).modifiers
           devices == VisibleDevices(s, c, c.annotationPrefixes)
<1>1. devices \in Seq(DeviceName)
  BY VisibleDevicesType DEF Config
<1>2. \A m \in Range(GatedDevices(s)) : m.gpus = {}
  BY GatedDevicesFacts DEF CDIModifier
<1>3. HookRemover.gpus = {} /\ \A g : CDIModifier(g, {}).gpus = g
  BY DEF HookRemover, CDIModifier
<1>4. /\ devices = <<>> => Range(ms) = {HookRemover}
      /\ devices # <<>> => InjectedParts(ms, s, c, devices, h)
  BY InjectingParts
<1>5. CASE devices = <<>>
  <2>1. GPUsNamed(Range(devices)) = {}
    BY <1>5 DEF GPUsNamed, Range
  <2>2. GPUsOf(ms) = {}
    BY <1>3, <1>4, <1>5 DEF GPUsOf
  <2> QED
    BY <2>1, <2>2 DEF Served
<1>6. CASE devices # <<>>
  <2>1. PICK g \in SUBSET GPU, gated \in BOOLEAN :
          /\ Range(ms) = {HookRemover} \cup {CDIModifier(g, {})}
                           \cup (IF gated THEN Range(GatedDevices(s)) ELSE {})
          /\ c.mode = "csv" /\ Range(devices) # {Plain("")} => Served(h, TRUE, g, GPUsNamed(Range(devices)))
          /\ c.mode # "csv" => g \subseteq GPUsNamed(Range(devices))
          /\ /\ c.mode # "csv"
             /\ \/ Len(devices) = 1
                \/ \A d \in Range(devices) : d.id # "none" /\ (c.mode # "cdi" => d # Plain(""))
             => Served(h, h.platform = "tegra", g, GPUsNamed(Range(devices)))
    BY <1>4, <1>6 DEF InjectedParts
  <2>2. GPUsOf(ms) = g
    <3> HIDE DEF ms, devices
    <3>1. \A m \in Range(ms) : m = CDIModifier(g, {}) \/ m.gpus = {}
      BY <1>2, <1>3, <2>1
    <3>2. CDIModifier(g, {}) \in Range(ms)
      BY <2>1
    <3> QED
      BY <1>3, <3>1, <3>2 DEF GPUsOf
  <2> HIDE DEF ms, devices
  <2>3. Len(devices) \in Nat \ {0}
    BY <1>1, <1>6, EmptySeq
  <2>4. Len(devices) <= 1 => Len(devices) = 1
    <3>1. \A n \in Nat \ {0} : n <= 1 => n = 1
      OBVIOUS
    <3> QED
      BY <2>3, <3>1
  <2>5. CASE c.mode = "csv"
    BY <2>1, <2>2, <2>5, ServedSubset DEF ms, devices
  <2>6. CASE c.mode # "csv"
    BY <2>1, <2>2, <2>4, <2>6 DEF ms, devices
  <2> QED
    BY <2>5, <2>6
<1> QED
  BY <1>5, <1>6

\* Gated devices come with devices that are not from the registry, and only then.
LEMMA EditsOfModifiers ==
  ASSUME NEW s \in OCISpec, NEW c \in Config, NEW h \in Host, c.mode \in Mode, NewModifiers(s, c, h).ok
  PROVE  LET ms == NewModifiers(s, c, h).modifiers
             devices == VisibleDevices(s, c, c.annotationPrefixes)
         IN  /\ devices = <<>> => EditsOf(ms) = {}
             /\ /\ devices # <<>> /\ c.mode # "cdi"
                /\ c.mode = "jit-cdi" => \A d \in Range(devices) : d.kind # "vendor"
                => ("gds" \in EditsOf(ms) <=> "gds" \in s.features)
<1> DEFINE ms == NewModifiers(s, c, h).modifiers
           devices == VisibleDevices(s, c, c.annotationPrefixes)
<1>1. "gds" \in s.features <=> \E m \in Range(GatedDevices(s)) : "gds" \in m.edits
  <2>1. Range(GatedDevices(s)) = IF "gds" \in s.features THEN {CDIModifier({}, {"gds"})} ELSE {}
    BY GatedDevicesFacts
  <2>2. CDIModifier({}, {"gds"}).edits = {"gds"}
    BY DEF CDIModifier
  <2>3. CASE "gds" \in s.features
    BY <2>1, <2>2, <2>3
  <2>4. CASE "gds" \notin s.features
    BY <2>1, <2>4
  <2> QED
    BY <2>3, <2>4
<1>2. /\ HookRemover.edits = {} /\ StableRuntimeModifier.edits = {}
      /\ DiscoverModifier({"graphics"}).edits = {"graphics"}
      /\ \A g : CDIModifier(g, {}).edits = {}
  BY DEF HookRemover, StableRuntimeModifier, DiscoverModifier, CDIModifier
<1>3. CASE c.mode = "legacy"
  <2>1. /\ devices = <<>> => Range(ms) = {StableRuntimeModifier}
        /\ devices # <<>> =>
             Range(ms) = Range(GatedDevices(s)) \cup {StableRuntimeModifier}
               \cup (IF "graphics" \in s.features THEN {DiscoverModifier({"graphics"})} ELSE {})
    BY <1>3, LegacyParts
  <2>2. devices = <<>> => EditsOf(ms) = {}
    BY <1>2, <2>1 DEF EditsOf
  <2>3. devices # <<>> => ("gds" \in EditsOf(ms) <=> \E m \in Range(GatedDevices(s)) : "gds" \in m.edits)
    BY <1>2, <2>1 DEF EditsOf
  <2> QED
    BY <1>1, <2>2, <2>3
<1>4. CASE c.mode # "legacy"
  <2>1. c.mode \in {"cdi", "jit-cdi", "csv"}
    BY <1>4 DEF Mode
  <2>2. /\ devices = <<>> => Range(ms) = {HookRemover}
        /\ devices # <<>> => InjectedParts(ms, s, c, devices, h)
    BY <2>1, InjectingParts
  <2>3. devices = <<>> => EditsOf(ms) = {}
    BY <1>2, <2>2 DEF EditsOf
  <2>4. /\ devices # <<>> /\ c.mode # "cdi"
        /\ c.mode = "jit-cdi" => \A d \in Range(devices) : d.kind # "vendor"
        => ("gds" \in EditsOf(ms) <=> \E m \in Range(GatedDevices(s)) : "gds" \in m.edits)
    <3> SUFFICES ASSUME devices # <<>>, c.mode # "cdi",
                        c.mode = "jit-cdi" => \A d \in Range(devices) : d.kind # "vendor"
                 PROVE  "gds" \in EditsOf(ms) <=> \E m \in Range(GatedDevices(s)) : "gds" \in m.edits
      OBVIOUS
    <3>1. \E g : Range(ms) = {HookRemover} \cup {CDIModifier(g, {})} \cup Range(GatedDevices(s))
      BY <2>1, <2>2 DEF InjectedParts
    <3> QED
      BY <1>2, <3>1 DEF EditsOf
  <2> QED
    BY <1>1, <2>3, <2>4
<1> QED
  BY <1>3, <1>4

----------------------------------------------------------------------------
(* The inductive invariant *)

Before  == {"start", "init", "modify"}
Started == {"exec", "hook", "cli", "running", "refused"}

\* The wrapper has resolved the mode of the config it has read, for the request.
Resolved ==
  /\ cfg.mode = ResolveRuntimeMode(asked.mode, VisibleDevices(request, asked, asked.annotationPrefixes),
                                   host.platform, "jit-cdi")
  /\ cfg.annotationPrefixes <=> asked.annotationPrefixes /\ cfg.mode = "cdi"
  /\ cfg.acceptMounts = asked.acceptMounts /\ cfg.acceptEnv = asked.acceptEnv
  /\ cfg.swarmResource = asked.swarmResource

\* What no modifier changes.
Kept(s) ==
  /\ s.swarm = request.swarm /\ s.annotations = request.annotations /\ s.mounts = request.mounts
  /\ s.privileged = request.privileged /\ s.legacyImage = request.legacyImage
  /\ s.features = request.features

\* The spec in memory with the modifiers still to be applied is the request with all
\* modifiers: GPUs and edits are neither lost nor added, and the hook will be there in
\* legacy mode only.
Applying ==
  /\ Resolved
  /\ NewModifiers(request, cfg, host).ok
  /\ mem.gpus \cup GPUsOf(todo) = GPUsOf(NewModifiers(request, cfg, host).modifiers)
  /\ mem.edits \cup EditsOf(todo) = EditsOf(NewModifiers(request, cfg, host).modifiers)
  /\ cfg.mode # "legacy" =>
       /\ \A m \in Range(todo) : m.type # "hook"
       /\ mem.nvidiaHooks = 0 \/ (todo # <<>> /\ Head(todo).type = "remover")
  /\ cfg.mode = "legacy" =>
       /\ \A m \in Range(todo) : m.type # "remover" /\ (m.type = "cdi" => "gds" \in request.features)
       /\ mem.nvidiaHooks > 0 \/ \E m \in Range(todo) : m.type = "hook"
       /\ mem.env = request.env \/ "gds" \in request.features

\* The spec of a container that the wrapper has not touched yet, or does not handle.
Untouched == spec = request /\ mem = request /\ todo = <<>>

PhaseInv ==
  /\ Kept(spec) /\ Kept(mem) /\ mem.complete /\ spec.gpus \subseteq mem.gpus
  /\ ~host.wrapped => Untouched /\ pc \notin Before \cup {"apply", "write"}
  /\ pc \in Before => Untouched
  /\ pc = "init" => cfg = asked
  /\ pc = "modify" => Resolved
  /\ pc = "apply" => spec = request
  /\ pc = "write" => todo = <<>>
  /\ host.wrapped /\ pc \in Started => spec = mem /\ todo = <<>>

ModifierInv ==
  \/ (~host.wrapped \/ pc \in Before \cup {"failed"}) /\ mem = request /\ todo = <<>>
  \/ Applying

HookInv ==
  /\ pc \in {"hook", "cli", "refused"} => spec.nvidiaHooks > 0
  /\ pc # "running" => cli = {}
  /\ pc = "running" /\ spec.nvidiaHooks = 0 => cli = {}
  /\ pc = "running" /\ spec.nvidiaHooks > 0 =>
       /\ cli = GPUsNamed(Range(HookDevices(spec, hookcfg)))
       /\ \A d \in Range(HookDevices(spec, hookcfg)) : ~IsQualifiedName(d)
  /\ pc = "refused" => hookcfg.mode # "legacy"

RuntimeInv == TypeOK /\ PhaseInv /\ ModifierInv /\ HookInv

----------------------------------------------------------------------------
(* Inductiveness *)

\* What the assumptions say of the request and the configs.
LEMMA RequestFacts ==
  ASSUME TypeOK
  PROVE  /\ request \in OCISpec /\ request.complete /\ request.gpus = {} /\ request.edits = {}
         /\ host \in Host /\ config \in Config /\ hookcfg \in Config
  BY ConstantsAssumption DEF TypeOK

\* A resolved mode is one of the four, and legacy only if it was configured.
LEMMA ResolvedMode ==
  ASSUME NEW requested \in Mode \cup {"auto"}, NEW devices, NEW platform
  PROVE  LET mode == ResolveRuntimeMode(requested, devices, platform, "jit-cdi")
         IN  mode \in Mode /\ (mode = "legacy" => requested = "legacy")
  BY DEF ResolveRuntimeMode, Mode

\* The effect of a modifier on the spec in memory.
LEMMA ApplyFacts ==
  ASSUME NEW m \in Modifier, NEW s \in OCISpec
  PROVE  LET t == Apply(m, s)
         IN  /\ t \in OCISpec
             /\ t.complete = s.complete /\ t.swarm = s.swarm /\ t.annotations = s.annotations
             /\ t.mounts = s.mounts /\ t.privileged = s.privileged /\ t.legacyImage = s.legacyImage
             /\ t.features = s.features
             /\ m.type \notin {"remover", "hook"} => t.gpus = s.gpus \cup m.gpus /\ t.edits = s.edits \cup m.edits
             /\ m.type \in {"remover", "hook"} => t.gpus = s.gpus /\ t.edits = s.edits
             /\ m.type # "cdi" => t.env = s.env
             /\ m.type = "remover" => t.nvidiaHooks = 0
             /\ m.type = "hook" => t.nvidiaHooks > 0
             /\ m.type \notin {"remover", "hook"} => t.nvidiaHooks = s.nvidiaHooks
<1>1. Void \in Variable
  <2>1. Plain("void") \in DeviceName
    BY DEF Plain, DeviceName, Kind, Special
  <2>2. <<Plain("void")>> \in Seq(DeviceName)
    BY <2>1, OneElement
  <2> QED
    BY <2>2 DEF Void, Variable
<1>2. CASE m.type = "remover"
  <2>1. Apply(m, s) = [s EXCEPT !.nvidiaHooks = 0]
    BY <1>2 DEF Apply, RemoveHook
  <2>2. [s EXCEPT !.nvidiaHooks = 0] \in OCISpec
    <3>1. 0 \in 0 .. 1
      OBVIOUS
    <3> QED
      BY <3>1 DEF OCISpec
  <2>3. LET t == [s EXCEPT !.nvidiaHooks = 0]
        IN  /\ t.complete = s.complete /\ t.swarm = s.swarm /\ t.annotations = s.annotations
            /\ t.mounts = s.mounts /\ t.privileged = s.privileged /\ t.legacyImage = s.legacyImage
            /\ t.features = s.features /\ t.gpus = s.gpus /\ t.edits = s.edits /\ t.env = s.env
            /\ t.nvidiaHooks = 0
    BY DEF OCISpec
  <2> QED
    BY <1>2, <2>1, <2>2, <2>3
<1>3. CASE m.type = "hook"
  <2> DEFINE n == IF s.nvidiaHooks > 0 THEN s.nvidiaHooks ELSE 1
  <2>1. Apply(m, s) = [s EXCEPT !.nvidiaHooks = n]
    BY <1>3 DEF Apply, AddHook
  <2>2. n \in 0 .. 1 /\ n > 0
    <3>1. s.nvidiaHooks \in 0 .. 1
      BY DEF OCISpec
    <3> QED
      BY <3>1
  <2> HIDE DEF n
  <2>3. [s EXCEPT !.nvidiaHooks = n] \in OCISpec
    BY <2>2 DEF OCISpec
  <2>4. LET t == [s EXCEPT !.nvidiaHooks = n]
        IN  /\ t.complete = s.complete /\ t.swarm = s.swarm /\ t.annotations = s.annotations
            /\ t.mounts = s.mounts /\ t.privileged = s.privileged /\ t.legacyImage = s.legacyImage
            /\ t.features = s.features /\ t.gpus = s.gpus /\ t.edits = s.edits /\ t.env = s.env
            /\ t.nvidiaHooks = n
    BY DEF OCISpec
  <2> QED
    BY <1>3, <2>1, <2>2, <2>3, <2>4
<1>4. CASE m.type \in {"cdi", "edits"}
  <2> DEFINE g == s.gpus \cup m.gpus
             e == s.edits \cup m.edits
             v == IF m.type = "cdi" THEN Void ELSE s.env
             t == [s EXCEPT !.gpus = g, !.edits = e, !.env = v]
  <2>1. Apply(m, s) = t
    BY <1>4 DEF Apply, ApplyEdits
  <2>2. g \in SUBSET GPU /\ e \in SUBSET Feature /\ v \in Variable
    BY <1>1 DEF Modifier, OCISpec
  <2>3. m.type # "cdi" => v = s.env
    OBVIOUS
  <2> HIDE DEF g, e, v
  <2>4. t \in OCISpec
    BY <2>2 DEF OCISpec
  <2>5. /\ t.complete = s.complete /\ t.swarm = s.swarm /\ t.annotations = s.annotations
        /\ t.mounts = s.mounts /\ t.privileged = s.privileged /\ t.legacyImage = s.legacyImage
        /\ t.features = s.features /\ t.gpus = g /\ t.edits = e /\ t.env = v
        /\ t.nvidiaHooks = s.nvidiaHooks
    BY DEF OCISpec
  <2> HIDE DEF t
  <2> QED
    BY <1>4, <2>1, <2>3, <2>4, <2>5 DEF g, e
<1> QED
  BY <1>2, <1>3, <1>4 DEF Modifier

LEMMA NextSplit ==
  ASSUME NEW P, [Next]_vars,
         Start => P, InitRuntimeModeAndImage => P, CreateModifiers => P, ApplyModifier => P,
         TruncateSpec => P, WriteSpec => P, ExecLowLevelRuntime => P, Prestart => P,
         RunCLI => P, Fail => P,
         ASSUME NEW c \in Configs, Reconfigure(c) PROVE P,
         UNCHANGED vars => P
  PROVE  P
  BY DEF Next

LEMMA StepType ==
  ASSUME RuntimeInv, [Next]_vars
  PROVE  TypeOK'
<1> USE RequestFacts DEF RuntimeInv, TypeOK, Ended, history
<1>1. CASE Start
  <2>1. cfg' \in Config
    BY <1>1 DEF Start, WithMode, Config, Host, Mode
  <2> QED
    BY <1>1, <2>1 DEF Start
<1>2. CASE InitRuntimeModeAndImage
  <2>1. cfg' \in Config
    <3> DEFINE mode == ResolveRuntimeMode(cfg.mode, VisibleDevices(spec, cfg, cfg.annotationPrefixes),
                                          host.platform, "jit-cdi")
    <3>1. mode \in Mode
      BY ResolvedMode DEF Config
    <3> HIDE DEF mode
    <3> QED
      BY <1>2, <3>1 DEF InitRuntimeModeAndImage, WithMode, Config, mode
  <2> QED
    BY <1>2, <2>1 DEF InitRuntimeModeAndImage
<1>3. CASE CreateModifiers
  <2>1. cfg.mode \in Mode
    BY <1>3, ResolvedMode DEF CreateModifiers, PhaseInv, Resolved, Config
  <2>2. todo' \in Seq(Modifier)
    BY <1>3, <2>1, HookOrGPUs DEF CreateModifiers, Host
  <2> QED
    BY <1>3, <2>2 DEF CreateModifiers
<1>4. CASE ApplyModifier
  <2>1. Head(todo) \in Modifier /\ Tail(todo) \in Seq(Modifier)
    BY <1>4, RangeHeadTail DEF ApplyModifier
  <2>2. mem' \in OCISpec
    BY <1>4, <2>1, ApplyFacts DEF ApplyModifier
  <2> QED
    BY <1>4, <2>1, <2>2 DEF ApplyModifier
<1>5. CASE TruncateSpec
  <2>1. spec' \in OCISpec
    BY <1>5 DEF TruncateSpec, OCISpec
  <2> QED
    BY <1>5, <2>1 DEF TruncateSpec
<1>6. CASE WriteSpec
  BY <1>6 DEF WriteSpec
<1>7. CASE ExecLowLevelRuntime
  BY <1>7 DEF ExecLowLevelRuntime
<1>8. CASE Prestart
  BY <1>8 DEF Prestart
<1>9. CASE RunCLI
  BY <1>9, NamedSubset DEF RunCLI
<1>10. CASE Fail
  BY <1>10 DEF Fail
<1>11. ASSUME NEW c \in Configs, Reconfigure(c) PROVE TypeOK'
  BY <1>11 DEF Reconfigure
<1>12. CASE UNCHANGED vars
  BY <1>12 DEF vars
<1> QED
  BY <1>1, <1>2, <1>3, <1>4, <1>5, <1>6, <1>7, <1>8, <1>9, <1>10, <1>11, <1>12, NextSplit

LEMMA InitInv == Init => RuntimeInv
<1> SUFFICES ASSUME Init PROVE RuntimeInv
  OBVIOUS
<1>1. TypeOK
  BY ConstantsAssumption, EmptySeq DEF Init, TypeOK, Ended
<1>2. PhaseInv
  BY <1>1, RequestFacts DEF Init, PhaseInv, Kept, Untouched, Before, Started, Host
<1>3. ModifierInv
  BY DEF Init, ModifierInv, Before
<1>4. HookInv
  BY DEF Init, HookInv
<1> QED
  BY <1>1, <1>2, <1>3, <1>4 DEF RuntimeInv

LEMMA StepPhase ==
  ASSUME RuntimeInv, [Next]_vars
  PROVE  PhaseInv'
<1> USE RequestFacts DEF RuntimeInv, PhaseInv, Kept, Untouched, Before, Started, history
<1>1. CASE Start
  BY <1>1 DEF Start
<1>2. CASE InitRuntimeModeAndImage
  <2>1. asked \in Config /\ cfg = asked /\ spec = request
    BY <1>2 DEF InitRuntimeModeAndImage, TypeOK
  <2>2. Resolved'
    <3> DEFINE mode == ResolveRuntimeMode(asked.mode, VisibleDevices(request, asked, asked.annotationPrefixes),
                                          host.platform, "jit-cdi")
    <3>1. cfg' = [[asked EXCEPT !.mode = mode] EXCEPT !.annotationPrefixes = @ /\ mode = "cdi"]
      BY <1>2, <2>1 DEF InitRuntimeModeAndImage, WithMode
    <3>2. asked' = asked /\ request' = request /\ host' = host
      BY <1>2 DEF InitRuntimeModeAndImage
    <3> HIDE DEF mode
    <3>3. /\ cfg'.mode = mode
          /\ cfg'.annotationPrefixes <=> asked.annotationPrefixes /\ mode = "cdi"
          /\ cfg'.acceptMounts = asked.acceptMounts /\ cfg'.acceptEnv = asked.acceptEnv
          /\ cfg'.swarmResource = asked.swarmResource
      BY <2>1, <3>1 DEF Config
    <3> QED
      BY <3>2, <3>3 DEF Resolved, mode
  <2> QED
    BY <1>2, <2>2 DEF InitRuntimeModeAndImage
<1>3. CASE CreateModifiers
  BY <1>3 DEF CreateModifiers
<1>4. CASE ApplyModifier
  <2>1. Head(todo) \in Modifier /\ mem \in OCISpec
    BY <1>4, RangeHeadTail DEF ApplyModifier, TypeOK
  <2>2. /\ mem'.swarm = mem.swarm /\ mem'.annotations = mem.annotations /\ mem'.mounts = mem.mounts
        /\ mem'.privileged = mem.privileged /\ mem'.legacyImage = mem.legacyImage
        /\ mem'.features = mem.features /\ mem'.complete = mem.complete
    BY <1>4, <2>1, ApplyFacts DEF ApplyModifier
  <2>3. mem.gpus \subseteq mem'.gpus
    <3>1. mem'.gpus = mem.gpus \/ mem'.gpus = mem.gpus \cup Head(todo).gpus
      BY <1>4, <2>1, ApplyFacts DEF ApplyModifier
    <3> QED
      BY <3>1
  <2> QED
    BY <1>4, <2>2, <2>3 DEF ApplyModifier
<1>5. CASE TruncateSpec
  <2>1. /\ spec'.swarm = spec.swarm /\ spec'.annotations = spec.annotations /\ spec'.mounts = spec.mounts
        /\ spec'.privileged = spec.privileged /\ spec'.legacyImage = spec.legacyImage
        /\ spec'.features = spec.features /\ spec'.gpus = spec.gpus
    BY <1>5 DEF TruncateSpec, TypeOK, OCISpec
  <2> QED
    BY <1>5, <2>1 DEF TruncateSpec
<1>6. CASE WriteSpec
  BY <1>6 DEF WriteSpec
<1>7. CASE ExecLowLevelRuntime
  BY <1>7 DEF ExecLowLevelRuntime
<1>8. CASE Prestart
  BY <1>8 DEF Prestart
<1>9. CASE RunCLI
  BY <1>9 DEF RunCLI
<1>10. CASE Fail
  BY <1>10 DEF Fail
<1>11. ASSUME NEW c \in Configs, Reconfigure(c) PROVE PhaseInv'
  BY <1>11 DEF Reconfigure
<1>12. CASE UNCHANGED vars
  BY <1>12 DEF vars, Resolved
<1> QED
  BY <1>1, <1>2, <1>3, <1>4, <1>5, <1>6, <1>7, <1>8, <1>9, <1>10, <1>11, <1>12, NextSplit

LEMMA StepModifier ==
  ASSUME RuntimeInv, [Next]_vars
  PROVE  ModifierInv'
<1> USE DEF RuntimeInv, history
<1>1. CASE Start
  BY <1>1 DEF Start, ModifierInv, PhaseInv, Before, Untouched
<1>2. CASE InitRuntimeModeAndImage
  BY <1>2 DEF InitRuntimeModeAndImage, ModifierInv, PhaseInv, Before, Untouched
<1>3. CASE CreateModifiers
  <2> DEFINE ms == NewModifiers(request, cfg, host).modifiers
  <2>1. /\ spec = request /\ Resolved /\ cfg \in Config /\ request \in OCISpec /\ host \in Host
        /\ request.gpus = {} /\ request.edits = {}
    BY <1>3, RequestFacts DEF CreateModifiers, PhaseInv, Before, Untouched, TypeOK, Host
  <2>2. /\ NewModifiers(request, cfg, host).ok
        /\ mem' = request /\ todo' = ms /\ UNCHANGED <<host, cfg, request, asked>>
    BY <1>3, <2>1 DEF CreateModifiers
  <2>3. cfg.mode \in Mode
    BY <2>1, ResolvedMode DEF Resolved, TypeOK, Config
  <2>4. /\ ms \in Seq(Modifier)
        /\ cfg.mode # "legacy" => /\ ms # <<>> /\ Head(ms).type = "remover"
                                  /\ \A m \in Range(ms) : m.type # "hook"
        /\ cfg.mode = "legacy" => /\ GPUsOf(ms) = {}
                                  /\ \E m \in Range(ms) : m.type = "hook"
                                  /\ \A m \in Range(ms) :
                                       m.type # "remover" /\ (m.type = "cdi" => "gds" \in request.features)
    BY <2>1, <2>2, <2>3, HookOrGPUs
  <2> HIDE DEF ms
  <2>5. Resolved'
    BY <2>1, <2>2 DEF Resolved
  <2> QED
    BY <2>1, <2>2, <2>4, <2>5 DEF ModifierInv, Applying, ms
<1>4. CASE ApplyModifier
  <2>1. Applying
    BY <1>4 DEF ApplyModifier, ModifierInv, PhaseInv, Before
  <2> DEFINE m == Head(todo)
  <2>2. /\ m \in Modifier /\ Tail(todo) \in Seq(Modifier) /\ mem \in OCISpec
        /\ Range(todo) = {m} \cup Range(Tail(todo))
    BY <1>4, RangeHeadTail DEF ApplyModifier, TypeOK
  <2>3. /\ mem' = Apply(m, mem) /\ todo' = Tail(todo)
        /\ UNCHANGED <<host, cfg, request, asked>>
    BY <1>4 DEF ApplyModifier
  <2>4. /\ m.type \notin {"remover", "hook"} => mem'.gpus = mem.gpus \cup m.gpus /\ mem'.edits = mem.edits \cup m.edits
        /\ m.type \in {"remover", "hook"} => mem'.gpus = mem.gpus /\ mem'.edits = mem.edits
        /\ m.type # "cdi" => mem'.env = mem.env
        /\ m.type = "remover" => mem'.nvidiaHooks = 0
        /\ m.type = "hook" => mem'.nvidiaHooks > 0
        /\ m.type \notin {"remover", "hook"} => mem'.nvidiaHooks = mem.nvidiaHooks
    BY <2>2, <2>3, ApplyFacts
  <2>5. m.type \in {"remover", "hook"} => m.gpus = {} /\ m.edits = {}
    BY <2>2 DEF Modifier
  <2>6. Resolved' /\ NewModifiers(request, cfg, host)'.ok
    BY <2>1, <2>3 DEF Applying, Resolved
  <2> HIDE DEF m
  <2>7. (mem.gpus \cup GPUsOf(todo) = mem'.gpus \cup GPUsOf(todo')) /\ (mem.edits \cup EditsOf(todo) = mem'.edits \cup EditsOf(todo'))
    <3>1. GPUsOf(todo) = m.gpus \cup GPUsOf(todo') /\ EditsOf(todo) = m.edits \cup EditsOf(todo')
      BY <2>2, <2>3 DEF GPUsOf, EditsOf
    <3>2. mem'.gpus = mem.gpus \cup m.gpus /\ mem'.edits = mem.edits \cup m.edits
      BY <2>4, <2>5
    <3> QED
      BY <3>1, <3>2
  <2>8. cfg.mode # "legacy" =>
          /\ \A n \in Range(todo') : n.type # "hook"
          /\ mem'.nvidiaHooks = 0
    BY <2>1, <2>2, <2>3, <2>4 DEF Applying, m
  <2>9. cfg.mode = "legacy" =>
          /\ \A n \in Range(todo') : n.type # "remover" /\ (n.type = "cdi" => "gds" \in request.features)
          /\ mem'.nvidiaHooks > 0 \/ \E n \in Range(todo') : n.type = "hook"
          /\ mem'.env = request.env \/ "gds" \in request.features
    BY <2>1, <2>2, <2>3, <2>4 DEF Applying
  <2>10. /\ (mem.gpus \cup GPUsOf(todo) = GPUsOf(NewModifiers(request, cfg, host).modifiers))
         /\ (mem.edits \cup EditsOf(todo) = EditsOf(NewModifiers(request, cfg, host).modifiers))
    BY <2>1 DEF Applying
  <2>11. Applying'
    BY <2>3, <2>6, <2>7, <2>8, <2>9, <2>10 DEF Applying
  <2> QED
    BY <2>11 DEF ModifierInv
<1>5. CASE TruncateSpec
  BY <1>5 DEF TruncateSpec, ModifierInv, Applying, Resolved, Before
<1>6. CASE WriteSpec
  BY <1>6 DEF WriteSpec, ModifierInv, Applying, Resolved, Before
<1>7. CASE ExecLowLevelRuntime
  BY <1>7 DEF ExecLowLevelRuntime, ModifierInv, Applying, Resolved, Before
<1>8. CASE Prestart
  BY <1>8 DEF Prestart, ModifierInv, Applying, Resolved, Before
<1>9. CASE RunCLI
  BY <1>9 DEF RunCLI, ModifierInv, Applying, Resolved, Before
<1>10. CASE Fail
  BY <1>10 DEF Fail, ModifierInv, Applying, Resolved, Before
<1>11. ASSUME NEW c \in Configs, Reconfigure(c) PROVE ModifierInv'
  BY <1>11 DEF Reconfigure, ModifierInv, Applying, Resolved, Before
<1>12. CASE UNCHANGED vars
  BY <1>12 DEF vars, ModifierInv, Applying, Resolved, Before
<1> QED
  BY <1>1, <1>2, <1>3, <1>4, <1>5, <1>6, <1>7, <1>8, <1>9, <1>10, <1>11, <1>12, NextSplit

LEMMA StepHook ==
  ASSUME RuntimeInv, [Next]_vars
  PROVE  HookInv'
<1> USE DEF RuntimeInv, HookInv, history
<1>1. CASE Start
  BY <1>1 DEF Start
<1>2. CASE InitRuntimeModeAndImage
  BY <1>2 DEF InitRuntimeModeAndImage
<1>3. CASE CreateModifiers
  BY <1>3 DEF CreateModifiers
<1>4. CASE ApplyModifier
  BY <1>4 DEF ApplyModifier
<1>5. CASE TruncateSpec
  BY <1>5 DEF TruncateSpec
<1>6. CASE WriteSpec
  BY <1>6 DEF WriteSpec
<1>7. CASE ExecLowLevelRuntime
  BY <1>7 DEF ExecLowLevelRuntime
<1>8. CASE Prestart
  <2>1. spec.nvidiaHooks > 0 /\ cli = {} /\ UNCHANGED <<spec, cli, host, config>> /\ hookcfg' = config
    BY <1>8 DEF Prestart
  <2>2. CASE pc' = "running"
    <3>1. HookDevices(spec', hookcfg') = <<>>
      BY <1>8, <2>1, <2>2 DEF Prestart
    <3>2. Range(HookDevices(spec', hookcfg')) = {} /\ GPUsNamed({}) = {}
      BY <3>1 DEF Range, GPUsNamed
    <3> QED
      BY <2>1, <2>2, <3>2
  <2>3. CASE pc' = "refused"
    <3>1. ~ModeIsLegacy(spec, config)
      BY <1>8, <2>3 DEF Prestart
    <3>2. hookcfg'.mode # "legacy"
      BY <2>1, <3>1 DEF ModeIsLegacy, ResolveRuntimeMode
    <3> QED
      BY <2>1, <2>3, <3>2
  <2>4. CASE pc' = "cli"
    BY <2>1, <2>4
  <2> QED
    BY <1>8, <2>2, <2>3, <2>4 DEF Prestart
<1>9. CASE RunCLI
  BY <1>9 DEF RunCLI
<1>10. CASE Fail
  BY <1>10 DEF Fail, Ended
<1>11. ASSUME NEW c \in Configs, Reconfigure(c) PROVE HookInv'
  BY <1>11 DEF Reconfigure
<1>12. CASE UNCHANGED vars
  BY <1>12 DEF vars
<1> QED
  BY <1>1, <1>2, <1>3, <1>4, <1>5, <1>6, <1>7, <1>8, <1>9, <1>10, <1>11, <1>12, NextSplit

\* The inductive invariant holds in every state of the specification.
THEOREM RuntimeInvariant == Spec => []RuntimeInv
<1>1. RuntimeInv /\ [Next]_vars => RuntimeInv'
  BY StepType, StepPhase, StepModifier, StepHook DEF RuntimeInv
<1> QED
  BY <1>1, InitInv, PTL DEF Spec

----------------------------------------------------------------------------
(* The properties *)

\* The state keeps its type: a spec is never malformed but while it is written.
THEOREM TypeCorrect == Spec => []TypeOK
  BY RuntimeInvariant, PTL DEF RuntimeInv

\* The low-level runtime is executed with the spec that the modifiers have left.
THEOREM SpecIsComplete == Spec => []RunsWhatWasModified
<1>1. RuntimeInv => RunsWhatWasModified
  BY DEF RuntimeInv, PhaseInv, Started, RunsWhatWasModified
<1> QED
  BY <1>1, RuntimeInvariant, PTL

\* In a container that is started by the wrapper the mode is resolved, all modifiers
\* are applied, and there is a hook exactly in legacy mode.
LEMMA StartedFacts ==
  ASSUME RuntimeInv, host.wrapped, pc \in Started
  PROVE  LET ms == NewModifiers(request, cfg, host).modifiers
         IN  /\ Resolved /\ NewModifiers(request, cfg, host).ok
             /\ cfg.mode \in Mode /\ (cfg.mode = "legacy" => asked.mode = "legacy")
             /\ spec = mem /\ spec.gpus = GPUsOf(ms) /\ spec.edits = EditsOf(ms)
             /\ cfg.mode # "legacy" => spec.nvidiaHooks = 0
             /\ cfg.mode = "legacy" => /\ spec.nvidiaHooks > 0 /\ spec.gpus = {}
                                       /\ spec.env = request.env \/ "gds" \in request.features
<1> DEFINE ms == NewModifiers(request, cfg, host).modifiers
<1>1. Applying
  BY DEF RuntimeInv, ModifierInv, Started, Before
<1>2. spec = mem /\ todo = <<>>
  BY DEF RuntimeInv, PhaseInv
<1>3. Range(todo) = {} /\ GPUsOf(todo) = {} /\ EditsOf(todo) = {}
  BY <1>2 DEF Range, GPUsOf, EditsOf
<1>4. cfg.mode \in Mode /\ (cfg.mode = "legacy" => asked.mode = "legacy")
  BY <1>1, ResolvedMode DEF Applying, Resolved, RuntimeInv, TypeOK, Config
<1>5. spec.gpus = GPUsOf(ms) /\ spec.edits = EditsOf(ms)
  BY <1>1, <1>2, <1>3 DEF Applying
<1>6. request \in OCISpec /\ cfg \in Config /\ host \in Host
  BY RequestFacts DEF RuntimeInv, TypeOK, Host
<1>7. cfg.mode = "legacy" => GPUsOf(ms) = {}
  BY <1>1, <1>4, <1>6, HookOrGPUs DEF Applying
<1> HIDE DEF ms
<1> QED
  BY <1>1, <1>2, <1>3, <1>4, <1>5, <1>7 DEF Applying, ms

\* GPUs are injected by CDI edits or by the hook, never by both.
THEOREM NeverInjectedTwice == Spec => []InjectedOnce
<1>1. RuntimeInv => InjectedOnce
  <2> SUFFICES ASSUME RuntimeInv, pc = "running"
               PROVE  spec.gpus = {} \/ cli = {}
    BY DEF InjectedOnce
  <2>2. CASE ~host.wrapped
    <3>1. spec.gpus = {}
      BY <2>2, RequestFacts DEF RuntimeInv, PhaseInv, Untouched
    <3> QED
      BY <3>1
  <2>3. CASE host.wrapped
    <3>1. cfg.mode # "legacy" => spec.nvidiaHooks = 0
      BY <2>3, StartedFacts DEF Started
    <3>2. cfg.mode = "legacy" => spec.gpus = {}
      BY <2>3, StartedFacts DEF Started
    <3>3. spec.nvidiaHooks = 0 => cli = {}
      BY DEF RuntimeInv, HookInv
    <3> QED
      BY <3>1, <3>2, <3>3
  <2>4. host.wrapped \in BOOLEAN
    BY RequestFacts DEF RuntimeInv, Host
  <2> QED
    BY <2>2, <2>3, <2>4
<1> QED
  BY <1>1, RuntimeInvariant, PTL

\* The hook refuses a container of the wrapper only after a change of the mode.
THEOREM HookAgreesWithWrapper == Spec => []HookAgrees
<1>1. RuntimeInv => HookAgrees
  <2> SUFFICES ASSUME RuntimeInv, pc = "refused", host.wrapped
               PROVE  hookcfg.mode # asked.mode
    BY DEF HookAgrees
  <2>1. spec.nvidiaHooks > 0 /\ hookcfg.mode # "legacy"
    BY DEF RuntimeInv, HookInv
  <2>2. cfg.mode # "legacy" => spec.nvidiaHooks = 0
    BY StartedFacts DEF Started
  <2>3. cfg.mode = "legacy" => asked.mode = "legacy"
    BY StartedFacts DEF Started
  <2> QED
    BY <2>1, <2>2, <2>3
<1> QED
  BY <1>1, RuntimeInvariant, PTL

\* The wrapper's copy of the config decides on the devices as the config it has read.
LEMMA SameDevices ==
  ASSUME Resolved
  PROVE  VisibleDevices(request, asked, cfg.annotationPrefixes) = VisibleDevices(request, cfg, cfg.annotationPrefixes)
  BY PolicyDecides DEF Resolved

\* Gated devices are injected with GPUs, and only with them.
THEOREM GatedDevicesNeedGPUs == Spec => []GatedWithDevices
<1>1. RuntimeInv => GatedWithDevices
  <2> SUFFICES ASSUME RuntimeInv, pc = "running", host.wrapped
               PROVE  GatedWithDevices
    BY DEF GatedWithDevices
  <2> DEFINE ms == NewModifiers(request, cfg, host).modifiers
             devices == VisibleDevices(request, cfg, cfg.annotationPrefixes)
  <2>1. /\ Resolved /\ NewModifiers(request, cfg, host).ok
        /\ cfg.mode \in Mode /\ spec.edits = EditsOf(ms)
    BY StartedFacts DEF Started
  <2>2. request \in OCISpec /\ cfg \in Config /\ host \in Host
    BY RequestFacts DEF RuntimeInv, TypeOK, Host
  <2>3. /\ devices = <<>> => EditsOf(ms) = {}
        /\ /\ devices # <<>> /\ cfg.mode # "cdi"
           /\ cfg.mode = "jit-cdi" => \A d \in Range(devices) : d.kind # "vendor"
           => ("gds" \in EditsOf(ms) <=> "gds" \in request.features)
    BY <2>1, <2>2, EditsOfModifiers
  <2>4. VisibleDevices(request, asked, cfg.annotationPrefixes) = devices
    BY <2>1, SameDevices
  <2> HIDE DEF ms, devices
  <2> QED
    BY <2>1, <2>3, <2>4 DEF GatedWithDevices
<1> QED
  BY <1>1, RuntimeInvariant, PTL

\* The GPUs of the spec, at any time, are ones that the wrapper's devices name, except
\* that none stands for all in CSV mode.
LEMMA SpecGPUsNamed ==
  ASSUME RuntimeInv, spec.gpus # {}
  PROVE  LET devices == VisibleDevices(request, asked, cfg.annotationPrefixes)
         IN  (cfg.mode = "csv" => Range(devices) # {Plain("")}) => spec.gpus \subseteq GPUsNamed(Range(devices))
<1> DEFINE ms == NewModifiers(request, cfg, host).modifiers
           devices == VisibleDevices(request, cfg, cfg.annotationPrefixes)
<1>1. mem.gpus # {} /\ spec.gpus \subseteq mem.gpus
  BY DEF RuntimeInv, PhaseInv
<1>2. Applying
  BY <1>1, RequestFacts DEF RuntimeInv, ModifierInv
<1>3. spec.gpus \subseteq GPUsOf(ms)
  BY <1>1, <1>2 DEF Applying
<1>4. request \in OCISpec /\ cfg \in Config /\ host \in Host
  BY RequestFacts DEF RuntimeInv, TypeOK, Host
<1>5. cfg.mode \in Mode /\ NewModifiers(request, cfg, host).ok
  BY <1>2, ResolvedMode DEF Applying, Resolved, RuntimeInv, TypeOK, Config
<1>6. cfg.mode # "legacy"
  BY <1>1, <1>3, <1>4, <1>5, HookOrGPUs
<1>7. cfg.mode \in {"cdi", "jit-cdi", "csv"}
  BY <1>5, <1>6 DEF Mode
<1>8. (cfg.mode = "csv" => Range(devices) # {Plain("")}) => GPUsOf(ms) \subseteq GPUsNamed(Range(devices))
  BY <1>4, <1>5, <1>7, GPUsOfModifiers
<1>9. VisibleDevices(request, asked, cfg.annotationPrefixes) = devices
  BY <1>2, SameDevices DEF Applying
<1> HIDE DEF ms, devices
<1> QED
  BY <1>3, <1>8, <1>9

\* Without privilege and without the config's leave the environment decides nothing.
THEOREM EnvironmentNotTrusted == Spec => []EnvNeedsPrivilege
<1>1. RuntimeInv => EnvNeedsPrivilege
  <2> SUFFICES ASSUME RuntimeInv, ~request.privileged, ~asked.acceptEnv, ~hookcfg.acceptEnv
               PROVE  Injected \subseteq GPUsNamed(Range(request.annotations) \cup Range(request.mounts))
    BY DEF EnvNeedsPrivilege
  <2> DEFINE devices == VisibleDevices(request, asked, cfg.annotationPrefixes)
  <2>1. \A a, b : a \subseteq b => GPUsNamed(a) \subseteq GPUsNamed(b)
    BY DEF GPUsNamed
  <2>2. request \in OCISpec
    BY RequestFacts DEF RuntimeInv
  <2>3. Plain("") \notin Range(request.mounts) /\ Range(<<>>) = {}
    <3>1. request.mounts \in Seq(DeviceName \ {Plain("")})
      BY <2>2 DEF OCISpec
    <3>2. Range(request.mounts) \subseteq DeviceName \ {Plain("")}
      BY <3>1, RangeElements
    <3>3. Range(<<>>) = {}
      BY DEF Range
    <3> QED
      BY <3>2, <3>3
  <2>4. spec.gpus \subseteq GPUsNamed(Range(request.annotations) \cup Range(request.mounts))
    <3>1. CASE spec.gpus = {}
      BY <3>1
    <3>2. CASE spec.gpus # {}
      <4>1. devices \in {request.annotations, request.mounts, <<>>}
        BY DEF VisibleDevices
      <4>2. cfg.mode = "csv" => devices \in {request.mounts, <<>>}
        <5>1. Applying
          BY <3>2, RequestFacts DEF RuntimeInv, PhaseInv, ModifierInv
        <5>2. cfg.mode = "csv" => ~cfg.annotationPrefixes
          BY <5>1 DEF Applying, Resolved
        <5> QED
          BY <5>2 DEF VisibleDevices
      <4>3. cfg.mode = "csv" => Range(devices) # {Plain("")}
        BY <4>2, <2>3
      <4>4. spec.gpus \subseteq GPUsNamed(Range(devices))
        BY <3>2, <4>3, SpecGPUsNamed
      <4> HIDE DEF devices
      <4>5. Range(devices) \subseteq Range(request.annotations) \cup Range(request.mounts)
        BY <4>1, <2>3
      <4>6. GPUsNamed(Range(devices)) \subseteq GPUsNamed(Range(request.annotations) \cup Range(request.mounts))
        BY <4>5, <2>1
      <4> QED
        BY <4>4, <4>6
    <3> QED
      BY <3>1, <3>2
  <2>5. cli \subseteq GPUsNamed(Range(request.annotations) \cup Range(request.mounts))
    <3>1. cli = {} \/ cli = GPUsNamed(Range(HookDevices(spec, hookcfg)))
      <4>1. spec.nvidiaHooks \in 0 .. 1
        BY DEF RuntimeInv, TypeOK, OCISpec
      <4>2. spec.nvidiaHooks = 0 \/ spec.nvidiaHooks > 0
        BY <4>1
      <4> QED
        BY <4>2 DEF RuntimeInv, HookInv
    <3>2. HookDevices(spec, hookcfg) \in {request.mounts, <<>>}
      BY DEF HookDevices, VisibleDevices, RuntimeInv, PhaseInv, Kept
    <3>3. Range(HookDevices(spec, hookcfg)) \subseteq Range(request.annotations) \cup Range(request.mounts)
      BY <3>2, <2>3
    <3> QED
      BY <3>1, <3>3, <2>1
  <2> QED
    BY <2>4, <2>5 DEF Injected
<1> QED
  BY <1>1, RuntimeInvariant, PTL

\* The first special name of a list that has neither none nor void besides others.
LEMMA GPUsOfList ==
  ASSUME NEW list \in Seq(DeviceName), Plain("") \notin Range(list),
         Len(list) <= 1 \/ (\A d \in Range(list) : d.id \notin {"none", "void"})
  PROVE  GPUs(list) = GPUsNamed(Range(list))
<1> DEFINE P == SpecialPositions(list)
           d == list[First(P)]
<1>1. CASE P = {}
  BY <1>1 DEF GPUs
<1>2. CASE P # {}
  <2>1. First(P) \in P /\ P \subseteq DOMAIN list
    BY <1>2, FirstPosition DEF SpecialPositions
  <2>2. /\ d \in Range(list) /\ First(P) \in DOMAIN list
        /\ d.kind = "plain" /\ d.id \in Special
    BY <2>1 DEF SpecialPositions, Range
  <2>3. d \in DeviceName /\ d = Plain(d.id)
    BY <2>2, RangeElements DEF DeviceName, Plain
  <2>4. d.id # ""
    BY <2>2, <2>3
  <2>5. GPUs(list) = IF d.id = "all" THEN GPU ELSE {}
    BY <1>2 DEF GPUs
  <2>6. CASE d.id = "all"
    <3>1. NamedGPUs(d) = GPU
      BY <2>6 DEF NamedGPUs
    <3> QED
      BY <2>2, <2>5, <2>6, <3>1, NamedSubset
  <2>7. CASE d.id # "all"
    <3>1. d.id \in {"none", "void"}
      BY <2>2, <2>4, <2>7 DEF Special
    <3>2. Len(list) <= 1
      BY <2>2, <3>1
    <3>3. DOMAIN list = 1 .. Len(list) /\ Len(list) \in Nat
      BY LenProperties
    <3>4. \A i \in DOMAIN list : i = First(P)
      BY <2>2, <3>2, <3>3, OnePosition
    <3>5. Range(list) = {d}
      BY <2>2, <3>4 DEF Range
    <3>6. NamedGPUs(d) = {}
      BY <3>1, GPUAssumption DEF NamedGPUs, Special
    <3> QED
      BY <2>5, <2>7, <3>5, <3>6 DEF GPUsNamed
  <2> QED
    BY <2>6, <2>7
<1> QED
  BY <1>1, <1>2

\* The devices of an environment variable name the GPUs that it requests, unless it
\* names one twice; the empty string is among them alone, and then it stands for none.
LEMMA EnvRequest ==
  ASSUME NEW s \in OCISpec, NEW v \in Variable,
         ~\E i, j \in DOMAIN v.list : i # j /\ v.list[i] = v.list[j]
  PROVE  LET devices == DevicesFromEnvvars(s, v)
         IN  /\ GPUsNamed(Range(devices)) = GPUsOfVar(s, v)
             /\ Len(devices) <= 1 \/ Plain("") \notin Range(devices)
             /\ Plain("") \in Range(devices) => Plain("none") \in Range(v.list)
<1> DEFINE devices == DevicesFromEnvvars(s, v)
           Goal(l, g, names) == /\ GPUsNamed(Range(l)) = g
                                /\ Len(l) <= 1 \/ Plain("") \notin Range(l)
                                /\ Plain("") \in Range(l) => Plain("none") \in names
<1>1. \A names : Goal(<<>>, {}, names)
  <2>1. Range(<<>>) = {} /\ GPUsNamed({}) = {}
    BY DEF Range, GPUsNamed
  <2> QED
    BY <2>1
<1>2. \A names : Goal(<<Plain("all")>>, GPU, names)
  <2>1. Range(<<Plain("all")>>) = {Plain("all")}
    BY RangeOne
  <2>2. GPUsNamed({Plain("all")}) = GPU /\ Plain("") # Plain("all")
    BY DEF GPUsNamed, NamedGPUs, Plain
  <2> QED
    BY <2>1, <2>2
<1>3. \A names : Plain("none") \in names => Goal(<<Plain("")>>, {}, names)
  <2>1. Range(<<Plain("")>>) = {Plain("")}
    BY RangeOne
  <2>2. Len(<<Plain("")>>) <= 1
    OBVIOUS
  <2>3. NamedGPUs(Plain("")) = {}
    BY GPUAssumption DEF NamedGPUs, Plain, Special
  <2>4. GPUsNamed({Plain("")}) = {}
    BY <2>3 DEF GPUsNamed
  <2> QED
    BY <2>1, <2>2, <2>4
<1>4. v.list \in Seq(DeviceName) /\ v.set \in BOOLEAN /\ (~v.set => v.list = <<>>)
  BY DEF Variable, Unset
<1>5. CASE ~v.set /\ s.legacyImage
  <2>1. /\ DOMAIN <<Plain("all")>> = {1} /\ <<Plain("all")>>[1] = Plain("all")
        /\ Plain("all").kind = "plain" /\ Plain("all").id = "all"
    BY DEF Plain
  <2>2. SpecialPositions(<<Plain("all")>>) = {1}
    BY <2>1 DEF SpecialPositions, Special
  <2>3. First({1}) = 1
    BY DEF First
  <2>4. VisibleDevicesList(<<Plain("all")>>) = <<Plain("all")>>
    BY <2>1, <2>2, <2>3 DEF VisibleDevicesList
  <2>5. Plain("void") \notin Range(<<Plain("all")>>) /\ <<Plain("all")>> # <<>>
    BY RangeOne DEF Plain
  <2>6. devices = <<Plain("all")>>
    BY <1>5, <2>4, <2>5 DEF DevicesFromEnvvars
  <2>7. GPUsOfVar(s, v) = GPU
    BY <1>5 DEF GPUsOfVar
  <2> QED
    BY <1>2, <2>6, <2>7
<1>6. CASE ~v.set /\ ~s.legacyImage
  <2>1. devices = <<>> /\ GPUsOfVar(s, v) = {}
    BY <1>4, <1>6 DEF DevicesFromEnvvars, GPUsOfVar
  <2> QED
    BY <1>1, <2>1
<1>7. CASE v.set /\ Plain("void") \in Range(v.list)
  <2>1. devices = <<>> /\ GPUsOfVar(s, v) = {}
    BY <1>7 DEF DevicesFromEnvvars, GPUsOfVar
  <2> QED
    BY <1>1, <2>1
<1>8. CASE v.set /\ v.list = <<>>
  <2>1. devices = <<>>
    BY <1>8 DEF DevicesFromEnvvars
  <2>2. GPUsOfVar(s, v) = {}
    <3>1. Range(v.list) = {} /\ SpecialPositions(v.list) = {} /\ GPUsNamed({}) = {}
      BY <1>8 DEF Range, SpecialPositions, GPUsNamed
    <3> QED
      BY <1>8, <3>1 DEF GPUsOfVar, GPUs
  <2> QED
    BY <1>1, <2>1, <2>2
<1>9. CASE v.set /\ Plain("void") \notin Range(v.list) /\ v.list # <<>>
  <2> DEFINE list == v.list
             P == SpecialPositions(list)
             d == list[First(P)]
  <2>1. devices = VisibleDevicesList(list) /\ GPUsOfVar(s, v) = GPUs(list)
    BY <1>9 DEF DevicesFromEnvvars, GPUsOfVar
  <2>2. CASE P = {}
    <3>1. devices = DevicesList(list) /\ GPUs(list) = GPUsNamed(Range(list))
      BY <2>1, <2>2 DEF VisibleDevicesList, GPUs
    <3>2. DevicesList(list) = list
      <4>1. DevicesList(list) = [i \in DOMAIN list |-> list[i]]
        <5>1. \A i, j \in DOMAIN list : j > i /\ list[j] = list[i] => FALSE
          <6>1. DOMAIN list = 1 .. Len(list) /\ Len(list) \in Nat
            BY <1>4, LenProperties
          <6>2. \A i, j \in DOMAIN list : j > i => i # j
            BY <6>1
          <6> QED
            BY <6>2
        <5> QED
          BY <5>1 DEF DevicesList
      <4>2. list = [i \in DOMAIN list |-> list[i]]
        BY <1>4, LenProperties
      <4> QED
        BY <4>1, <4>2
    <3>3. Plain("") \notin Range(list)
      <4>1. Plain("").kind = "plain" /\ Plain("").id \in Special
        BY DEF Plain, Special
      <4>2. \A i \in DOMAIN list : list[i] # Plain("")
        BY <2>2, <4>1 DEF SpecialPositions
      <4> QED
        BY <4>2 DEF Range
    <3> QED
      BY <2>1, <3>1, <3>2, <3>3
  <2>3. CASE P # {}
    <3>1. First(P) \in P /\ P \subseteq DOMAIN list
      BY <1>4, <2>3, FirstPosition DEF SpecialPositions
    <3>2. d \in Range(list) /\ d.kind = "plain" /\ d.id \in Special
      BY <3>1 DEF SpecialPositions, Range
    <3>3. d = Plain(d.id)
      BY <1>4, <3>2, RangeElements DEF DeviceName, Plain
    <3>4. CASE d.id = "all"
      <4>1. devices = <<Plain("all")>> /\ GPUsOfVar(s, v) = GPU
        BY <2>1, <2>3, <3>4 DEF VisibleDevicesList, GPUs
      <4> QED
        BY <1>2, <4>1
    <3>5. CASE d.id = "none"
      <4>1. devices = <<Plain("")>> /\ GPUsOfVar(s, v) = {} /\ Plain("none") \in Range(v.list)
        BY <2>1, <2>3, <3>2, <3>3, <3>5 DEF VisibleDevicesList, GPUs
      <4> QED
        BY <1>3, <4>1
    <3>6. CASE d.id \notin {"all", "none"}
      <4>1. devices = <<>> /\ GPUsOfVar(s, v) = {}
        BY <2>1, <2>3, <3>6 DEF VisibleDevicesList, GPUs
      <4> QED
        BY <1>1, <4>1
    <3> QED
      BY <3>4, <3>5, <3>6
  <2> QED
    BY <2>2, <2>3
<1> QED
  BY <1>4, <1>5, <1>6, <1>7, <1>8, <1>9

\* The wrapper's devices name the GPUs that the container requests, if the modifiers
\* could be made and the request has none of the exceptions; and what GPUsOfModifiers
\* asks of the devices holds of them.
LEMMA DevicesNameRequest ==
  ASSUME RuntimeInv, host.wrapped, pc = "running", ~NamedTwice, ~NoneBesidesOthers
  PROVE  LET devices == VisibleDevices(request, asked, cfg.annotationPrefixes)
         IN  /\ GPUsNamed(Range(devices)) = RequestedGPUs(request, asked)
             /\ Len(devices) <= 1 \/ (\A d \in Range(devices) : d.id \notin {"none", "void"})
             /\ Len(devices) <= 1 \/ Plain("") \notin Range(devices)
             /\ cfg.mode = "csv" /\ ~NoneInCSVMode => Range(devices) # {Plain("")}
<1> DEFINE devices == VisibleDevices(request, asked, cfg.annotationPrefixes)
           Annotated == cfg.annotationPrefixes /\ request.annotations # <<>>
           Mounted == asked.acceptMounts /\ request.mounts # <<>>
           Allowed == request.privileged \/ asked.acceptEnv
<1>1. Resolved /\ NewModifiers(request, cfg, host).ok /\ cfg.mode \in Mode
  BY StartedFacts DEF Started
<1>2. /\ request \in OCISpec /\ asked \in Config /\ cfg \in Config /\ host \in Host
      /\ request.annotations \in Seq(DeviceName) /\ request.mounts \in Seq(DeviceName \ {Plain("")})
  BY RequestFacts DEF RuntimeInv, TypeOK, Host, OCISpec
<1>3. devices \in Seq(DeviceName)
  BY <1>2, VisibleDevicesType DEF Config
<1>4. Len(devices) <= 1 \/ \A d \in Range(devices) : d.id \notin {"none", "void"}
  <2>1. Len(devices) \in Nat
    BY <1>3, LenProperties
  <2>2. \A n \in Nat : n <= 1 \/ n > 1
    OBVIOUS
  <2>3. ~(Len(devices) > 1 /\ \E d \in Range(devices) : d.id \in {"none", "void"})
    BY DEF NoneBesidesOthers
  <2> QED
    BY <2>1, <2>2, <2>3
<1>5. /\ asked.annotationPrefixes /\ request.annotations # <<>>
      /\ asked.mode = "cdi" \/ (asked.mode = "auto" /\ \A d \in Range(request.annotations) : IsQualifiedName(d))
      <=> Annotated
  <2>1. asked.annotationPrefixes /\ request.annotations # <<>>
          => VisibleDevices(request, asked, asked.annotationPrefixes) = request.annotations
    BY DEF VisibleDevices
  <2>2. asked.mode # "auto" => cfg.mode = asked.mode
    BY <1>1 DEF Resolved, ResolveRuntimeMode
  <2>3. asked.mode = "auto" /\ asked.annotationPrefixes /\ request.annotations # <<>> =>
          (cfg.mode = "cdi" <=> \A d \in Range(request.annotations) : IsQualifiedName(d))
    BY <1>1, <2>1 DEF Resolved, ResolveRuntimeMode, OnlyFullyQualifiedCDIDevices
  <2> QED
    BY <1>1, <2>2, <2>3 DEF Resolved
<1>6. CASE Annotated
  <2>1. devices = request.annotations /\ RequestedGPUs(request, asked) = GPUs(request.annotations)
    BY <1>5, <1>6 DEF VisibleDevices, RequestedGPUs
  <2>2. cfg.mode = "cdi" /\ devices # <<>>
    BY <1>1, <1>6, <2>1 DEF Resolved
  <2>3. devices = VisibleDevices(request, cfg, cfg.annotationPrefixes)
    BY <1>1, SameDevices
  <2>4. Plain("") \notin Range(devices)
    BY <1>1, <1>2, <2>2, <2>3, InjectingParts DEF InjectedParts
  <2>5. GPUs(devices) = GPUsNamed(Range(devices))
    <3> HIDE DEF devices
    <3> QED
      BY <1>3, <1>4, <2>4, GPUsOfList
  <2> HIDE DEF devices
  <2>6. cfg.mode # "csv"
    BY <2>2
  <2> QED
    BY <1>4, <2>1, <2>4, <2>5, <2>6 DEF devices
<1>7. CASE ~Annotated /\ Mounted
  <2>1. devices = request.mounts /\ RequestedGPUs(request, asked) = GPUs(request.mounts)
    BY <1>5, <1>7 DEF VisibleDevices, RequestedGPUs
  <2>2. Plain("") \notin Range(devices)
    BY <1>2, <2>1, RangeElements
  <2>3. GPUs(devices) = GPUsNamed(Range(devices))
    <3> HIDE DEF devices
    <3> QED
      BY <1>3, <1>4, <2>2, GPUsOfList
  <2> HIDE DEF devices
  <2> QED
    BY <1>4, <2>1, <2>2, <2>3 DEF devices
<1>8. CASE ~Annotated /\ ~Mounted /\ Allowed
  <2> DEFINE v == VisibleEnvVar(request, asked)
  <2>1. /\ devices = DevicesFromEnvvars(request, v)
        /\ RequestedGPUs(request, asked) = GPUsOfVar(request, v)
    BY <1>5, <1>8 DEF VisibleDevices, RequestedGPUs
  <2>2. v \in Variable
    BY <1>2 DEF VisibleEnvVar, OCISpec
  <2>3. ~\E i, j \in DOMAIN v.list : i # j /\ v.list[i] = v.list[j]
    BY DEF NamedTwice, Requesting
  <2>4. /\ GPUsNamed(Range(devices)) = GPUsOfVar(request, v)
        /\ Len(devices) <= 1 \/ Plain("") \notin Range(devices)
        /\ Plain("") \in Range(devices) => Plain("none") \in Range(v.list)
    <3> HIDE DEF v, devices
    <3> QED
      BY <1>2, <2>1, <2>2, <2>3, EnvRequest
  <2>5. cfg.mode = "csv" /\ ~NoneInCSVMode => Plain("none") \notin Range(v.list)
    BY DEF NoneInCSVMode, Requesting
  <2> HIDE DEF v, devices
  <2>6. cfg.mode = "csv" /\ ~NoneInCSVMode => Range(devices) # {Plain("")}
    BY <2>4, <2>5
  <2> QED
    BY <1>4, <2>1, <2>4, <2>6 DEF devices
<1>9. CASE ~Annotated /\ ~Mounted /\ ~Allowed
  <2>1. devices = <<>> /\ RequestedGPUs(request, asked) = {}
    BY <1>5, <1>9 DEF VisibleDevices, RequestedGPUs
  <2>2. Range(<<>>) = {} /\ GPUsNamed({}) = {}
    BY DEF Range, GPUsNamed
  <2> HIDE DEF devices
  <2>3. Range(devices) = {}
    BY <2>1, <2>2
  <2> QED
    BY <1>4, <2>1, <2>2, <2>3 DEF devices
<1> QED
  BY <1>6, <1>7, <1>8, <1>9

\* The hook of a container in legacy mode sees the wrapper's devices, if it has read the
\* same policy and no gated device has changed the environment that requests them.
LEMMA HookSeesDevices ==
  ASSUME RuntimeInv, host.wrapped, pc = "running", SamePolicy, cfg.mode = "legacy", ~GatedInLegacyMode
  PROVE  HookDevices(spec, hookcfg) = VisibleDevices(request, asked, cfg.annotationPrefixes)
<1>1. ~cfg.annotationPrefixes /\ cfg.annotationPrefixes \in BOOLEAN
  BY StartedFacts DEF Started, Resolved, RuntimeInv, TypeOK, Config
<1>2. HookDevices(spec, hookcfg) = VisibleDevices(spec, asked, FALSE)
  BY PolicyDecides DEF HookDevices, SamePolicy
<1>3. Kept(spec)
  BY DEF RuntimeInv, PhaseInv
<1>4. spec.env = request.env \/ "gds" \in request.features
  BY StartedFacts DEF Started
<1>5. FromEnv => VisibleEnvVar(spec, asked) = VisibleEnvVar(request, asked)
  BY <1>3, <1>4 DEF GatedInLegacyMode, Requesting, VisibleEnvVar, Kept
<1>6. VisibleDevices(spec, asked, FALSE) = VisibleDevices(request, asked, FALSE)
  BY <1>3, <1>5 DEF VisibleDevices, DevicesFromEnvvars, FromEnv, Kept
<1> QED
  BY <1>1, <1>2, <1>6

\* A container that runs has exactly the GPUs it requests, with the four exceptions, or
\* the first of all where the pure CSV generators know no other.
THEOREM RequestsAreHonoured == Spec => []InjectedAsRequested
<1>1. RuntimeInv => InjectedAsRequested
  <2> SUFFICES ASSUME RuntimeInv, ~GatedInLegacyMode, ~NamedTwice, ~NoneInCSVMode, ~NoneBesidesOthers,
                      pc = "running", host.wrapped, SamePolicy
               PROVE  Injected = RequestedGPUs(request, asked) \/ OnlyFirstOfAll
    BY DEF InjectedAsRequested, RequestHonoured
  <2> DEFINE devices == VisibleDevices(request, asked, cfg.annotationPrefixes)
             ms == NewModifiers(request, cfg, host).modifiers
  <2>1. /\ GPUsNamed(Range(devices)) = RequestedGPUs(request, asked)
        /\ Len(devices) <= 1 \/ (\A d \in Range(devices) : d.id \notin {"none", "void"})
        /\ Len(devices) <= 1 \/ Plain("") \notin Range(devices)
        /\ cfg.mode = "csv" => Range(devices) # {Plain("")}
    BY DevicesNameRequest
  <2>2. /\ Resolved /\ NewModifiers(request, cfg, host).ok /\ cfg.mode \in Mode
        /\ spec.gpus = GPUsOf(ms)
        /\ cfg.mode # "legacy" => spec.nvidiaHooks = 0
        /\ cfg.mode = "legacy" => spec.nvidiaHooks > 0 /\ spec.gpus = {}
    BY StartedFacts DEF Started
  <2>3. CASE cfg.mode = "legacy"
    <3>1. cli = GPUsNamed(Range(HookDevices(spec, hookcfg)))
      BY <2>2, <2>3 DEF RuntimeInv, HookInv
    <3>2. HookDevices(spec, hookcfg) = devices
      BY <2>3, HookSeesDevices
    <3> QED
      BY <2>1, <2>2, <2>3, <3>1, <3>2 DEF Injected
  <2>4. CASE cfg.mode # "legacy"
    <3>1. cfg.mode \in {"cdi", "jit-cdi", "csv"}
      BY <2>2, <2>4 DEF Mode
    <3>2. request \in OCISpec /\ cfg \in Config /\ host \in Host
      BY RequestFacts DEF RuntimeInv, TypeOK, Host
    <3>3. VisibleDevices(request, cfg, cfg.annotationPrefixes) = devices
      BY <2>2, SameDevices
    <3>4. /\ cfg.mode = "csv" => Range(devices) # {Plain("")}
          /\ \/ Len(devices) <= 1
             \/ \A d \in Range(devices) : d.id # "none" /\ (cfg.mode # "cdi" => d # Plain(""))
      BY <2>1
    <3>5. Served(host, cfg.mode = "csv" \/ host.platform = "tegra", GPUsOf(ms), GPUsNamed(Range(devices)))
      BY <2>2, <3>1, <3>2, <3>3, <3>4, GPUsOfModifiers
    <3>6. cli = {}
      BY <2>2, <2>4 DEF RuntimeInv, HookInv
    <3>7. Injected = GPUsOf(ms)
      BY <2>2, <3>6 DEF Injected
    <3> HIDE DEF ms, devices
    <3> QED
      BY <2>1, <2>4, <3>5, <3>7 DEF Served, OnlyFirstOfAll
  <2> QED
    BY <2>3, <2>4
<1> QED
  BY <1>1, RuntimeInvariant, PTL
=============================================================================
