------------------------- MODULE DeviceNodesProofs -------------------------
(***************************************************************************)
(* Proofs about DeviceNodes, for any number of GPUs, command lines and     *)
(* budgets: an invariant of the host and of the commands that every step   *)
(* of NodesNext preserves.                                                 *)
(***************************************************************************)
EXTENDS DeviceNodes, FiniteSetTheorems, SequenceTheorems, TLAPS

\* The work that is left belongs to the step.
TodoInv ==
  /\ spc = "idle" => todo = <<>>
  /\ spc = "load" => todo \in Seq(SUBSET Driver)
  /\ spc = "create" => todo \in Seq(ToSet(ControlNodes))
  /\ spc = "link" => todo \in Seq(Nat \X Node)

\* A driver that is registered has a number, and the numbers that a command has read are
\* those of drivers that are still registered, unless it was raced.
NumbersInv ==
  /\ \A d \in loaded : major[d] # 0
  /\ spc = "create" /\ ~raced => \A d \in Driver : known[d] # 0 => known[d] = major[d]

\* A control node is there once it is not left to make.
CreatedInv ==
  /\ spc = "create" => \A n \in ToSet(ControlNodes) : n \in ToSet(todo) \/ n \in Present
  /\ spc = "link" /\ cmd.create => ToSet(ControlNodes) \subseteq Present

\* The number of a node, of a link, and of a link that is left to make.
Fits(l) == raced \/ l[2] \in leftNodes \/ l[1] = major[DriverOf(l[2])]

NodesFit == \A n \in Present \ leftNodes : raced \/ nodes[n] = major[DriverOf(n)]
LinksFit == \A l \in links \ leftLinks : Fits(l)
ListedFit ==
  spc = "link" => \A i \in DOMAIN todo :
    todo[i][1] # 0 => Fits(todo[i]) /\ todo[i][1] \in Majors(DriverOf(todo[i][2]))

NodesInv ==
  NodesTypeOK /\ TodoInv /\ NumbersInv /\ CreatedInv /\ NodesFit /\ LinksFit /\ ListedFit

----------------------------------------------------------------------------
(* Facts about the model's operators *)

\* The drivers of nodes, and their numbers.
LEMMA Drivers ==
  /\ \A n : DriverOf(n) \in Driver
  /\ \A d \in Driver : Majors(d) \subseteq Nat \ {0} /\ Majors(d) # {}
  BY DEF DriverOf, Driver, Majors

\* The control nodes.
LEMMA Controls ==
  /\ ControlNodes \in Seq(Node) /\ ControlNodes \in Seq(ToSet(ControlNodes))
  /\ ToSet(ControlNodes) \subseteq Node
  /\ \A n \in ToSet(ControlNodes) : n[1] \in {"nvidiactl", "nvidia-modeset", "nvidia-uvm", "nvidia-uvm-tools"}
<1>1. ToSet(ControlNodes) = {<<"nvidiactl", 255>>, <<"nvidia-modeset", 254>>, <<"nvidia-uvm", 0>>, <<"nvidia-uvm-tools", 1>>}
  BY DEF ToSet, ControlNodes
<1>2. ToSet(ControlNodes) \subseteq Node
  BY DEF Node
<1>3. ControlNodes \in Seq(ToSet(ControlNodes))
  BY <1>1 DEF ControlNodes
<1>4. ControlNodes \in Seq(Node)
  BY <1>2, <1>3
<1> QED
  BY <1>1, <1>2, <1>3, <1>4

\* The number of a control node is that of its driver.
LEMMA MajorOfControl ==
  ASSUME NEW n \in ToSet(ControlNodes), NEW ms
  PROVE  Major(n, ms) = ms[DriverOf(n)]
<1>1. n[1] \in {"nvidiactl", "nvidia-modeset", "nvidia-uvm", "nvidia-uvm-tools"}
  BY Controls
<1> QED
  BY <1>1 DEF Major, DriverOf

\* There are no more GPUs on the bus than there are.
LEMMA BusIsBounded ==
  ASSUME NEW b \in Seq(Gpu), IsInjective(b)
  PROVE  Len(b) <= NumGpus
<1>1. NumGpus \in Nat
  BY NodesAssumption
<1>2. IsFiniteSet(Gpu) /\ Cardinality(Gpu) = NumGpus
  BY <1>1, FS_Interval DEF Gpu
<1>3. Len(b) \in Nat /\ b \in [1 .. Len(b) -> Gpu]
  OBVIOUS
<1>4. Cardinality(1 .. Len(b)) = Len(b)
  BY <1>3, FS_Interval
<1>5. b \in Injection(1 .. Len(b), Gpu)
  BY <1>3 DEF Injection
<1>6. Cardinality(1 .. Len(b)) <= Cardinality(Gpu)
  BY <1>2, <1>5, FS_Injection
<1> QED
  BY <1>2, <1>4, <1>6

\* A GPU that is taken off the bus, or put on it, leaves it without repetition.
LEMMA BusChanges ==
  ASSUME NEW b \in Seq(Gpu), IsInjective(b)
  PROVE  /\ \A i \in DOMAIN b : RemoveAt(b, i) \in Seq(Gpu) /\ IsInjective(RemoveAt(b, i))
         /\ \A g \in Gpu \ ToSet(b), i \in 1 .. Len(b) + 1 :
              InsertAt(b, i, g) \in Seq(Gpu) /\ IsInjective(InsertAt(b, i, g))
<1>1. ASSUME NEW i \in DOMAIN b
      PROVE  RemoveAt(b, i) \in Seq(Gpu) /\ IsInjective(RemoveAt(b, i))
  <2> DEFINE r == RemoveAt(b, i)
             p == SubSeq(b, 1, i - 1)
             q == SubSeq(b, i + 1, Len(b))
  <2>1. /\ p \in Seq(Gpu) /\ Len(p) = i - 1 /\ \A j \in 1 .. i - 1 : p[j] = b[j]
        /\ q \in Seq(Gpu) /\ Len(q) = Len(b) - i /\ \A j \in 1 .. Len(b) - i : q[j] = b[i + j]
    OBVIOUS
  <2>2. r = p \o q
    BY DEF RemoveAt
  <2> HIDE DEF r, p, q
  <2>3. r \in Seq(Gpu) /\ Len(r) = Len(b) - 1
    BY <2>1, <2>2, ConcatProperties
  <2>4. \A j \in 1 .. Len(b) - 1 : r[j] = IF j < i THEN b[j] ELSE b[j + 1]
    <3> TAKE j \in 1 .. Len(b) - 1
    <3>1. r[j] = IF j <= Len(p) THEN p[j] ELSE q[j - Len(p)]
      BY <2>1, <2>2, ConcatProperties
    <3>2. CASE j < i
      BY <2>1, <3>1, <3>2
    <3>3. CASE j >= i
      <4>1. j - Len(p) \in 1 .. Len(b) - i /\ i + (j - Len(p)) = j + 1
        BY <2>1, <3>3
      <4> QED
        BY <2>1, <3>1, <3>3, <4>1
    <3> QED
      BY <3>2, <3>3
  <2>5. ASSUME NEW x \in 1 .. Len(b) - 1, NEW y \in 1 .. Len(b) - 1, r[x] = r[y]
        PROVE  x = y
    <3> DEFINE at(j) == IF j < i THEN j ELSE j + 1
    <3>1. at(x) \in DOMAIN b /\ at(y) \in DOMAIN b /\ r[x] = b[at(x)] /\ r[y] = b[at(y)]
      BY <2>4
    <3>2. at(x) = at(y)
      BY <2>5, <3>1 DEF IsInjective
    <3> QED
      BY <3>2
  <2>6. IsInjective(r)
    BY <2>3, <2>5 DEF IsInjective
  <2> QED
    BY <2>3, <2>6 DEF r
<1>2. ASSUME NEW g \in Gpu \ ToSet(b), NEW i \in 1 .. Len(b) + 1
      PROVE  InsertAt(b, i, g) \in Seq(Gpu) /\ IsInjective(InsertAt(b, i, g))
  <2> DEFINE r == InsertAt(b, i, g)
  <2> DEFINE p == SubSeq(b, 1, i - 1)
             q == SubSeq(b, i, Len(b))
             t == p \o <<g>>
  <2>1. /\ p \in Seq(Gpu) /\ Len(p) = i - 1 /\ \A j \in 1 .. i - 1 : p[j] = b[j]
        /\ q \in Seq(Gpu) /\ Len(q) = Len(b) + 1 - i /\ \A j \in 1 .. Len(b) + 1 - i : q[j] = b[i + j - 1]
    OBVIOUS
  <2>2. r = t \o q
    BY DEF InsertAt
  <2> HIDE DEF r, p, q
  <2>3. t \in Seq(Gpu) /\ Len(t) = i /\ \A j \in 1 .. i : t[j] = IF j = i THEN g ELSE b[j]
    BY <2>1
  <2>4. r \in Seq(Gpu) /\ Len(r) = Len(b) + 1
    <3> HIDE DEF t
    <3>1. t \in Seq(Gpu) /\ q \in Seq(Gpu)
      BY <2>1, <2>3
    <3>2. t \o q \in Seq(Gpu) /\ Len(t \o q) = Len(t) + Len(q)
      BY <3>1, ConcatProperties
    <3> QED
      BY <2>1, <2>2, <2>3, <3>2
  <2> HIDE DEF t
  <2>5. \A j \in 1 .. Len(b) + 1 : r[j] = IF j <= i THEN t[j] ELSE q[j - i]
    BY <2>1, <2>2, <2>3
  <2>6. \A j \in 1 .. Len(b) + 1 : r[j] = IF j = i THEN g ELSE IF j < i THEN b[j] ELSE b[j - 1]
    <3> TAKE j \in 1 .. Len(b) + 1
    <3>1. CASE j <= i
      BY <2>3, <2>5, <3>1
    <3>2. CASE j > i
      <4>1. j - i \in 1 .. Len(b) + 1 - i /\ i + (j - i) - 1 = j - 1
        BY <3>2
      <4>2. q[j - i] = b[j - 1]
        BY <2>1, <4>1
      <4> QED
        BY <2>5, <3>2, <4>2
    <3> QED
      BY <3>1, <3>2
  <2>7. \A j \in DOMAIN b : b[j] # g
    BY DEF ToSet
  <2>8. ASSUME NEW x \in 1 .. Len(b) + 1, NEW y \in 1 .. Len(b) + 1, r[x] = r[y]
        PROVE  x = y
    <3> DEFINE at(j) == IF j < i THEN j ELSE j - 1
    <3>1. \A j \in 1 .. Len(b) + 1 : j # i => at(j) \in DOMAIN b /\ r[j] = b[at(j)]
      BY <2>6
    <3>2. r[i] = g
      BY <2>6
    <3>3. CASE x = i \/ y = i
      BY <2>7, <2>8, <3>1, <3>2, <3>3
    <3>4. CASE x # i /\ y # i
      <4>1. at(x) = at(y)
        BY <2>8, <3>1, <3>4 DEF IsInjective
      <4> QED
        BY <3>4, <4>1
    <3> QED
      BY <3>3, <3>4
  <2>9. IsInjective(r)
    BY <2>4, <2>8 DEF IsInjective
  <2> QED
    BY <2>4, <2>9 DEF r
<1> QED
  BY <1>1, <1>2

\* The nodes of GPUs are nodes.
LEMMA GpuNodesAreNodes ==
  ASSUME NEW k \in 0 .. NumGpus
  PROVE  GpuNodes(k) \in Seq(Node)
<1>1. \A i \in 1 .. k : i - 1 \in Gpu
  BY NodesAssumption DEF Gpu
<1>2. \A i \in 1 .. k : GpuNode(i - 1) \in Node /\ CapNode(i - 1) \in Node
  BY <1>1 DEF Node
<1>3. [i \in 1 .. k |-> GpuNode(i - 1)] \in Seq(Node) /\ [i \in 1 .. k |-> CapNode(i - 1)] \in Seq(Node)
  BY <1>2, NodesAssumption
<1> QED
  BY <1>3 DEF GpuNodes


----------------------------------------------------------------------------
(* The invariant *)

\* It holds at first.
LEMMA NodesInitInv == NodesInit => NodesInv
<1> SUFFICES ASSUME NodesInit PROVE NodesInv
  OBVIOUS
<1> USE DEF NodesInit
<1>1. \A d \in Driver : (CHOOSE m \in Majors(d) : TRUE) \in Majors(d)
  BY Drivers
<1>2. /\ loaded \subseteq Driver /\ major \in [Driver -> Nat]
      /\ \A d \in Driver : major[d] \in Majors(d) \cup {0} /\ (d \in loaded => major[d] # 0)
  BY <1>1, Drivers
<1>3. nodes \in [Node -> Nat] /\ \A n \in Node : nodes[n] \in {0, major[DriverOf(n)]}
  BY <1>2, Drivers
<1>4. bus \in Seq(Gpu) /\ IsInjective(bus)
  <2>1. bus = [i \in 1 .. NumGpus |-> i - 1] /\ NumGpus \in Nat /\ \A i \in 1 .. NumGpus : i - 1 \in Gpu
    BY NodesAssumption DEF Gpu
  <2>2. bus \in Seq(Gpu)
    BY <2>1
  <2>3. IsInjective(bus)
    BY <2>1 DEF IsInjective
  <2> QED
    BY <2>2, <2>3
<1>5. known \in [Driver -> Nat] /\ \A d \in Driver : known[d] = 0
  BY DEF NoMajor
<1>6. budget \in [{"changes", "commands", "generations"} -> Nat]
  BY NodesAssumption
<1>7. NodesTypeOK
  <2>1. \A d \in Driver : {major[d], known[d]} \subseteq Majors(d) \cup {0}
    BY <1>2, <1>5
  <2>2. \A n \in Node : nodes[n] \in Majors(DriverOf(n)) \cup {0}
    BY <1>2, <1>3, Drivers
  <2>3. cmd \in Command
    BY DEF NoCommand, Command
  <2> QED
    BY <1>2, <1>3, <1>4, <1>5, <1>6, <2>1, <2>2, <2>3 DEF NodesTypeOK
<1>8. TodoInv /\ NumbersInv /\ CreatedInv /\ ListedFit /\ LinksFit
  BY <1>2 DEF TodoInv, NumbersInv, CreatedInv, ListedFit, LinksFit
<1>9. NodesFit
  BY <1>3 DEF NodesFit, Present
<1> QED
  BY <1>7, <1>8, <1>9 DEF NodesInv

\* What a step of the host or of a command spends is there.
LEMMA Spending ==
  ASSUME budget \in [{"changes", "commands", "generations"} -> Nat],
         NEW what \in {"changes", "commands", "generations"}, Spend(what)
  PROVE  budget' \in [{"changes", "commands", "generations"} -> Nat]
  BY DEF Spend

\* A step that leaves the devices, the numbers and the command alone keeps the invariant.
LEMMA GpusAndBudget ==
  ASSUME NodesInv, UNCHANGED <<loaded, major, nodes, links, setupVars, history>>,
         budget' \in [{"changes", "commands", "generations"} -> Nat],
         bus' \in Seq(Gpu), IsInjective(bus'), mig' \subseteq Gpu
  PROVE  NodesInv'
<1>1. NodesTypeOK'
  BY DEF NodesInv, NodesTypeOK, setupVars, history
<1>2. TodoInv' /\ NumbersInv' /\ CreatedInv' /\ NodesFit' /\ LinksFit' /\ ListedFit'
  BY DEF NodesInv, TodoInv, NumbersInv, CreatedInv, NodesFit, LinksFit, ListedFit, Fits, Present, setupVars, history
<1> QED
  BY <1>1, <1>2 DEF NodesInv

\* A GPU is removed or added, or its mode is switched.
LEMMA StepChangeGpus == ASSUME NodesInv, ChangeGpus PROVE NodesInv'
<1>1. budget' \in [{"changes", "commands", "generations"} -> Nat]
  BY Spending DEF ChangeGpus, NodesInv, NodesTypeOK
<1>2. bus' \in Seq(Gpu) /\ IsInjective(bus') /\ mig' \subseteq Gpu
  <2> bus \in Seq(Gpu) /\ IsInjective(bus) /\ mig \subseteq Gpu /\ ToSet(bus) \subseteq Gpu
    BY DEF NodesInv, NodesTypeOK, ToSet
  <2> QED
    BY BusChanges DEF ChangeGpus
<1> QED
  BY <1>1, <1>2, GpusAndBudget DEF ChangeGpus

\* The modules are removed.
LEMMA StepUnload == ASSUME NodesInv, Unload PROVE NodesInv'
<1>1. budget' \in [{"changes", "commands", "generations"} -> Nat]
  BY Spending DEF Unload, NodesInv, NodesTypeOK
<1>2. NodesTypeOK'
  BY <1>1 DEF NodesInv, NodesTypeOK, Unload, setupVars
<1>3. TodoInv' /\ NumbersInv' /\ CreatedInv' /\ NodesFit' /\ LinksFit' /\ ListedFit'
  BY DEF NodesInv, TodoInv, NumbersInv, CreatedInv, NodesFit, LinksFit, ListedFit, Fits, Present, Unload, setupVars
<1> QED
  BY <1>2, <1>3 DEF NodesInv

\* Missing nodes are made.
LEMMA StepMakeNodes == ASSUME NodesInv, MakeNodes PROVE NodesInv'
<1>1. budget' \in [{"changes", "commands", "generations"} -> Nat]
  BY Spending DEF MakeNodes, NodesInv, NodesTypeOK
<1>2. PICK d \in loaded : nodes' = [n \in Node |-> IF DriverOf(n) = d /\ nodes[n] = 0 THEN major[d] ELSE nodes[n]]
  BY DEF MakeNodes
<1>3. UNCHANGED <<bus, mig, loaded, major, links, setupVars, history>>
  BY DEF MakeNodes
<1>4. NodesTypeOK'
  BY <1>1, <1>2, <1>3, Drivers DEF NodesInv, NodesTypeOK, setupVars, history
<1>5. Present \subseteq Present' /\ \A n \in Present' \ Present : nodes'[n] = major[DriverOf(n)]
  BY <1>2 DEF Present, NodesInv, NodesTypeOK
<1>6. \A n \in Present : nodes'[n] = nodes[n]
  BY <1>2 DEF Present, NodesInv, NodesTypeOK
<1>7. NodesFit'
  BY <1>3, <1>5, <1>6 DEF NodesInv, NodesFit, history
<1>8. TodoInv' /\ NumbersInv' /\ CreatedInv' /\ LinksFit' /\ ListedFit'
  BY <1>3, <1>5 DEF NodesInv, TodoInv, NumbersInv, CreatedInv, LinksFit, ListedFit, Fits, setupVars, history
<1> QED
  BY <1>4, <1>7, <1>8 DEF NodesInv

\* A command starts.
LEMMA StepStartSetup == ASSUME NodesInv, StartSetup PROVE NodesInv'
<1>1. budget' \in [{"changes", "commands", "generations"} -> Nat]
  BY Spending DEF StartSetup, NodesInv, NodesTypeOK
<1>2. cmd' \in Command
  BY NodesAssumption DEF StartSetup, ValidateFlags, Command
<1>3. known' \in [Driver -> Nat] /\ \A d \in Driver : known'[d] = 0
  BY DEF StartSetup, NoMajor
<1>4. /\ UNCHANGED <<bus, mig, loaded, major, nodes, links, history>>
      /\ spc' = "load"
  BY DEF StartSetup
<1>5. NodesTypeOK'
  BY <1>1, <1>2, <1>3, <1>4 DEF NodesInv, NodesTypeOK, history
<1>6. TodoInv'
  <2>1. {{"nvidia", "nvidia-caps"}, {"nvidia-uvm"}, {}} \subseteq SUBSET Driver
    BY DEF Driver
  <2> DEFINE D == SUBSET Driver
  <2> HIDE DEF D
  <2>2. <<{"nvidia", "nvidia-caps"}, {"nvidia-uvm"}, {}>> \in Seq(D) /\ <<>> \in Seq(D)
    BY <2>1 DEF D
  <2>3. todo' \in Seq(D)
    BY <2>2 DEF StartSetup
  <2> QED
    BY <1>4, <2>3 DEF TodoInv, D
<1>7. NumbersInv' /\ CreatedInv' /\ NodesFit' /\ LinksFit' /\ ListedFit'
  BY <1>4 DEF NodesInv, NumbersInv, CreatedInv, NodesFit, LinksFit, ListedFit, Fits, Present, history
<1> QED
  BY <1>5, <1>6, <1>7 DEF NodesInv

\* A command ends, or is killed.
LEMMA StepStopSetup == ASSUME NodesInv, StopSetup PROVE NodesInv'
<1>1. /\ UNCHANGED <<bus, mig, loaded, major, nodes, links, history, budget>>
      /\ spc' = "idle" /\ cmd' \in Command /\ todo' = <<>>
      /\ known' \in [Driver -> Nat] /\ \A d \in Driver : known'[d] = 0
  BY DEF StopSetup, EndSetup, NoCommand, Command, NoMajor
<1>2. NodesTypeOK'
  BY <1>1 DEF NodesInv, NodesTypeOK, history
<1>3. TodoInv' /\ NumbersInv' /\ CreatedInv' /\ NodesFit' /\ LinksFit' /\ ListedFit'
  BY <1>1 DEF NodesInv, TodoInv, NumbersInv, CreatedInv, NodesFit, LinksFit, ListedFit, Fits, Present, history
<1> QED
  BY <1>2, <1>3 DEF NodesInv

\* A module is loaded: what is left of a driver that gets another number is history.
LEMMA StepLoadModule == ASSUME NodesInv, LoadModule PROVE NodesInv'
<1> DEFINE ds == Head(todo)
           renumbered == {d \in Driver : major'[d] # major[d]}
<1>1. /\ UNCHANGED <<bus, mig, nodes, links, cmd, spc, known, raced, budget>>
      /\ spc = "load" /\ todo' = Tail(todo)
  BY DEF LoadModule
<1>2. ds \subseteq Driver /\ todo' \in Seq(SUBSET Driver)
  <2> DEFINE D == SUBSET Driver
  <2>1. todo \in Seq(D) /\ todo # <<>>
    BY DEF NodesInv, TodoInv, LoadModule
  <2> HIDE DEF D
  <2>2. Head(todo) \in D /\ Tail(todo) \in Seq(D)
    BY <2>1
  <2> QED
    BY <1>1, <2>2 DEF D
<1>3. /\ loaded' = loaded \cup ds
      /\ leftNodes' = leftNodes \cup {n \in Present : DriverOf(n) \in renumbered}
      /\ leftLinks' = leftLinks \cup {l \in links : DriverOf(l[2]) \in renumbered}
  BY DEF LoadModule, Register
<1>4. /\ major' \in [Driver -> Nat]
      /\ \A d \in Driver : IF d \in ds \ loaded THEN major'[d] \in Majors(d) ELSE major'[d] = major[d]
  <2> HIDE DEF ds
  <2>1. Register(ds)
    BY DEF LoadModule, ds
  <2>2. PICK numbers \in [ds \ loaded -> UNION {Majors(d) : d \in ds}] :
           /\ \A d \in ds \ loaded : numbers[d] \in Majors(d)
           /\ major' = [d \in Driver |-> IF d \in ds \ loaded THEN numbers[d] ELSE major[d]]
    BY <2>1 DEF Register
  <2>3. \A d \in Driver : major[d] \in Nat
    BY DEF NodesInv, NodesTypeOK
  <2>4. \A d \in Driver : (IF d \in ds \ loaded THEN numbers[d] ELSE major[d]) \in Nat
    BY <2>2, <2>3, Drivers
  <2> QED
    BY <2>2, <2>4
<1> HIDE DEF ds, renumbered
<1>5. NodesTypeOK'
  <2>1. \A d \in Driver : {major'[d], known'[d]} \subseteq Majors(d) \cup {0}
    BY <1>1, <1>4 DEF NodesInv, NodesTypeOK
  <2>2. leftNodes' \subseteq Node /\ leftLinks' \subseteq links' /\ loaded' \subseteq Driver
    BY <1>1, <1>2, <1>3 DEF NodesInv, NodesTypeOK, Present
  <2> QED
    BY <1>1, <1>4, <2>1, <2>2 DEF NodesInv, NodesTypeOK
<1>6. NumbersInv'
  BY <1>1, <1>2, <1>3, <1>4, Drivers DEF NodesInv, NumbersInv, NodesTypeOK
<1>7. TodoInv' /\ CreatedInv' /\ ListedFit'
  BY <1>1, <1>2 DEF TodoInv, CreatedInv, ListedFit
<1>8. NodesFit'
  BY <1>1, <1>3, Drivers DEF NodesInv, NodesFit, Present, renumbered
<1>9. LinksFit'
  BY <1>1, <1>3, Drivers DEF NodesInv, LinksFit, Fits, renumbered
<1> QED
  BY <1>5, <1>6, <1>7, <1>8, <1>9 DEF NodesInv

\* The major numbers are read.
LEMMA StepNewNvdevices == ASSUME NodesInv, NewNvdevices PROVE NodesInv'
<1>1. /\ UNCHANGED <<bus, mig, loaded, major, nodes, links, cmd, history, budget>>
      /\ spc' = "create" /\ todo' = ControlNodes
  BY DEF NewNvdevices
<1>2. /\ known' \in [Driver -> Nat]
      /\ \A d \in Driver : known'[d] \in {0, major[d]}
  BY DEF NewNvdevices, GetNVIDIADevices, NodesInv, NodesTypeOK
<1>3. NodesTypeOK'
  BY <1>1, <1>2 DEF NodesInv, NodesTypeOK, history
<1>4. TodoInv' /\ NumbersInv' /\ CreatedInv' /\ ListedFit'
  BY <1>1, <1>2, Controls DEF NodesInv, TodoInv, NumbersInv, CreatedInv, ListedFit, history
<1>5. NodesFit' /\ LinksFit'
  BY <1>1 DEF NodesInv, NodesFit, LinksFit, Fits, Present, history
<1> QED
  BY <1>3, <1>4, <1>5 DEF NodesInv

\* A control node is made.
LEMMA StepCreateNVIDIADevice == ASSUME NodesInv, CreateNVIDIADevice PROVE NodesInv'
<1> DEFINE n == Head(todo)
<1>1. /\ UNCHANGED <<bus, mig, loaded, major, links, cmd, spc, known, history, budget>>
      /\ spc = "create" /\ todo' = Tail(todo) /\ todo # <<>>
  BY DEF CreateNVIDIADevice
<1>2. /\ todo \in Seq(ToSet(ControlNodes)) /\ todo' \in Seq(ToSet(ControlNodes))
      /\ n \in ToSet(ControlNodes) /\ ToSet(todo) \subseteq {n} \cup ToSet(todo')
  <2> DEFINE C == ToSet(ControlNodes)
  <2>1. todo \in Seq(C) /\ todo # <<>> /\ todo' = Tail(todo)
    BY <1>1 DEF NodesInv, TodoInv
  <2> HIDE DEF C
  <2>2. Head(todo) \in C /\ Tail(todo) \in Seq(C)
    BY <2>1
  <2>3. ToSet(todo) \subseteq {Head(todo)} \cup ToSet(Tail(todo))
    <3>1. \A i \in DOMAIN todo : i = 1 \/ (i - 1 \in DOMAIN Tail(todo) /\ todo[i] = Tail(todo)[i - 1])
      BY <2>1
    <3>2. todo[1] = Head(todo)
      BY <2>1
    <3> QED
      BY <3>1, <3>2 DEF ToSet
  <2> QED
    BY <2>1, <2>2, <2>3 DEF C
<1>3. n \in Node /\ Major(n, known) = known[DriverOf(n)] /\ known[DriverOf(n)] # 0
  BY <1>2, Controls, MajorOfControl DEF CreateNVIDIADevice
<1>4. nodes' = IF nodes[n] # 0 THEN nodes ELSE [nodes EXCEPT ![n] = known[DriverOf(n)]]
  BY <1>3 DEF CreateNVIDIADevice, Mknode
<1> HIDE DEF n
<1>5. /\ nodes' \in [Node -> Nat]
      /\ \A m \in Node : nodes'[m] # nodes[m] => m = n /\ nodes[m] = 0 /\ nodes'[m] = known[DriverOf(n)]
      /\ nodes'[n] # 0
  BY <1>3, <1>4, Drivers DEF NodesInv, NodesTypeOK
<1>6. NodesTypeOK'
  BY <1>1, <1>5, Drivers DEF NodesInv, NodesTypeOK, history
<1>7. Present' = Present \cup {n}
  BY <1>3, <1>5 DEF Present
<1>8. CreatedInv'
  BY <1>1, <1>2, <1>7 DEF NodesInv, CreatedInv
<1>9. TodoInv' /\ NumbersInv' /\ LinksFit' /\ ListedFit'
  BY <1>1, <1>2 DEF NodesInv, TodoInv, NumbersInv, LinksFit, ListedFit, Fits, history
<1>10. NodesFit'
  BY <1>1, <1>3, <1>5, <1>7, Drivers DEF NodesInv, NodesFit, NumbersInv, Present, history
<1> QED
  BY <1>6, <1>8, <1>9, <1>10 DEF NodesInv

\* What the listers list.
LEMMA Listing ==
  ASSUME NodesInv, NEW t \in {AllPossibleNodes, ExistingNodes}
  PROVE  /\ t \in Seq(Nat \X Node)
         /\ \A i \in DOMAIN t : t[i][1] # 0 => Fits(t[i]) /\ t[i][1] \in Majors(DriverOf(t[i][2]))
<1>1. /\ bus \in Seq(Gpu) /\ Len(bus) \in 0 .. NumGpus /\ NumGpus \in 0 .. NumGpus
      /\ \A d \in Driver : major[d] \in Nat /\ major[d] \in Majors(d) \cup {0}
      /\ \A n \in Node : nodes[n] \in Nat /\ nodes[n] \in Majors(DriverOf(n)) \cup {0}
  BY BusIsBounded, NodesAssumption DEF NodesInv, NodesTypeOK
<1>2. CASE t = ExistingNodes
  <2> DEFINE ns == GpuNodes(NumGpus) \o ControlNodes
  <2>1. ns \in Seq(Node)
    BY <1>1, GpuNodesAreNodes, Controls
  <2>2. t = [i \in 1 .. Len(ns) |-> <<nodes[ns[i]], ns[i]>>]
    BY <1>2 DEF ExistingNodes, Numbered
  <2> HIDE DEF ns
  <2>3. DOMAIN t = 1 .. Len(ns) /\ \A i \in 1 .. Len(ns) : t[i] = <<nodes[ns[i]], ns[i]>> /\ ns[i] \in Node
    BY <2>1, <2>2
  <2>4. ASSUME NEW i \in 1 .. Len(ns) PROVE t[i] \in Nat \X Node
    <3>1. nodes[ns[i]] \in Nat /\ ns[i] \in Node
      BY <1>1, <2>3
    <3>2. <<nodes[ns[i]], ns[i]>> \in Nat \X Node
      BY <3>1
    <3> QED
      BY <2>3, <3>2
  <2>5. t \in Seq(Nat \X Node)
    BY <2>1, <2>2, <2>4
  <2>6. ASSUME NEW i \in DOMAIN t, t[i][1] # 0
        PROVE  Fits(t[i]) /\ t[i][1] \in Majors(DriverOf(t[i][2]))
    <3>1. t[i][1] = nodes[ns[i]] /\ t[i][2] = ns[i] /\ ns[i] \in Node /\ ns[i] \in Present
      BY <2>3, <2>6 DEF Present
    <3> QED
      BY <1>1, <2>6, <3>1 DEF Fits, NodesInv, NodesFit
  <2> QED
    BY <2>5, <2>6
<1>3. CASE t = AllPossibleNodes /\ bus # <<>>
  <2> DEFINE ns == ControlNodes \o GpuNodes(Len(bus))
             number(n) == IF DriverOf(n) \in loaded THEN major[DriverOf(n)] ELSE 0
  <2>1. ns \in Seq(Node)
    BY <1>1, GpuNodesAreNodes, Controls
  <2>2. t = [i \in 1 .. Len(ns) |-> <<number(ns[i]), ns[i]>>]
    BY <1>3 DEF AllPossibleNodes, Numbered
  <2>3. \A n \in Node : number(n) \in Nat /\ number(n) \in {0, major[DriverOf(n)]}
    BY <1>1, Drivers
  <2> HIDE DEF ns, number
  <2>4. DOMAIN t = 1 .. Len(ns) /\ \A i \in 1 .. Len(ns) : t[i] = <<number(ns[i]), ns[i]>> /\ ns[i] \in Node
    BY <2>1, <2>2
  <2>5. ASSUME NEW i \in 1 .. Len(ns) PROVE t[i] \in Nat \X Node
    <3>1. number(ns[i]) \in Nat /\ ns[i] \in Node
      BY <2>3, <2>4
    <3>2. <<number(ns[i]), ns[i]>> \in Nat \X Node
      BY <3>1
    <3> QED
      BY <2>4, <3>2
  <2>6. t \in Seq(Nat \X Node)
    BY <2>1, <2>2, <2>5
  <2>7. ASSUME NEW i \in DOMAIN t, t[i][1] # 0
        PROVE  Fits(t[i]) /\ t[i][1] \in Majors(DriverOf(t[i][2]))
    <3>1. t[i][1] = number(ns[i]) /\ t[i][2] = ns[i] /\ ns[i] \in Node
      BY <2>4
    <3> QED
      BY <1>1, <2>3, <2>7, <3>1, Drivers DEF Fits
  <2> QED
    BY <2>6, <2>7
<1>4. CASE t = AllPossibleNodes /\ bus = <<>>
  <2>1. t = <<>>
    BY <1>4 DEF AllPossibleNodes
  <2> QED
    BY <2>1
<1> QED
  BY <1>2, <1>3, <1>4

\* The nodes are listed: the control nodes exist, for none is left to make.
LEMMA StepListNodes == ASSUME NodesInv, ListNodes PROVE NodesInv'
<1>1. /\ UNCHANGED <<bus, mig, loaded, major, nodes, links, cmd, known, history, budget>>
      /\ spc' = "link" /\ todo' \in {AllPossibleNodes, ExistingNodes}
      /\ cmd.create => spc = "create" /\ todo = <<>>
  BY DEF ListNodes
<1>2. NodesTypeOK'
  BY <1>1 DEF NodesInv, NodesTypeOK, history
<1>3. TodoInv' /\ ListedFit'
  BY <1>1, Listing DEF TodoInv, ListedFit, Fits, history
<1>4. CreatedInv'
  BY <1>1 DEF NodesInv, CreatedInv, Present, ToSet
<1>5. NumbersInv' /\ NodesFit' /\ LinksFit'
  BY <1>1 DEF NodesInv, NumbersInv, NodesFit, LinksFit, Fits, Present, history
<1> QED
  BY <1>2, <1>3, <1>4, <1>5 DEF NodesInv

\* A link is made, unless it is there.
LEMMA StepCreateDevCharLink == ASSUME NodesInv, CreateDevCharLink PROVE NodesInv'
<1> DEFINE l == Head(todo)
<1>1. /\ UNCHANGED <<bus, mig, loaded, major, nodes, cmd, spc, known, history, budget>>
      /\ spc = "link" /\ todo' = Tail(todo) /\ todo # <<>>
      /\ links' = IF l[1] = 0 \/ LinkExists(l) THEN links ELSE links \cup {l}
  BY DEF CreateDevCharLink
<1>2. /\ todo' \in Seq(Nat \X Node) /\ l \in Nat \X Node
      /\ l[1] # 0 => Fits(l) /\ l[1] \in Majors(DriverOf(l[2]))
      /\ \A i \in DOMAIN todo' : i + 1 \in DOMAIN todo /\ todo'[i] = todo[i + 1]
  <2> DEFINE L == Nat \X Node
  <2>1. todo \in Seq(L) /\ todo # <<>> /\ todo' = Tail(todo)
    BY <1>1 DEF NodesInv, TodoInv
  <2> HIDE DEF L
  <2>2. Head(todo) \in L /\ Tail(todo) \in Seq(L) /\ 1 \in DOMAIN todo /\ Head(todo) = todo[1]
    BY <2>1
  <2>3. \A i \in DOMAIN Tail(todo) : i + 1 \in DOMAIN todo /\ Tail(todo)[i] = todo[i + 1]
    BY <2>1
  <2> QED
    BY <1>1, <2>1, <2>2, <2>3 DEF L, NodesInv, ListedFit
<1> HIDE DEF l
<1>3. NodesTypeOK'
  BY <1>1, <1>2 DEF NodesInv, NodesTypeOK, history
<1>4. LinksFit'
  BY <1>1, <1>2 DEF NodesInv, LinksFit, Fits, history
<1>5. ListedFit'
  BY <1>1, <1>2 DEF NodesInv, ListedFit, Fits, history
<1>6. TodoInv' /\ NumbersInv' /\ CreatedInv' /\ NodesFit'
  BY <1>1, <1>2 DEF NodesInv, TodoInv, NumbersInv, CreatedInv, NodesFit, Present, history
<1> QED
  BY <1>3, <1>4, <1>5, <1>6 DEF NodesInv

\* Every step of the host and of the commands keeps the invariant.
LEMMA NodesStepInv == ASSUME NodesInv, NodesNext PROVE NodesInv'
  BY StepChangeGpus, StepUnload, StepMakeNodes, StepStartSetup, StepStopSetup, StepLoadModule,
     StepNewNvdevices, StepCreateNVIDIADevice, StepListNodes, StepCreateDevCharLink
  DEF NodesNext, SetupNext

\* The invariant says that nodes and links agree.
LEMMA NodesInvAgree == NodesInv => NodesAndLinksAgree
  BY DEF NodesInv, NodesAndLinksAgree, CreatedInv, NodesFit, LinksFit, Fits
=============================================================================
