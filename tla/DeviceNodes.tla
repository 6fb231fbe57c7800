---------------------------- MODULE DeviceNodes ----------------------------
(***************************************************************************)
(* The device nodes of a host and the commands that prepare them:          *)
(* nvidia-ctk system create-device-nodes and create-dev-char-symlinks.     *)
(* Both load the kernel modules if asked to, create the control device     *)
(* nodes with the major numbers of /proc/devices, and (the latter) link    *)
(* /dev/char/MAJOR:MINOR to the nodes.  They are killed at any step, and   *)
(* the modules may be unloaded while they run.  nvidia-uvm has another     *)
(* major number whenever it is loaded; nodes and links stay behind.        *)
(***************************************************************************)
EXTENDS Naturals, Sequences, FiniteSets, SequencesExt

CONSTANTS
  NumGpus,     \* the number of GPUs
  Commands,    \* the command lines of the two commands
  Budgets      \* bounds: how many changes, commands and generations a behaviour may have

\* The GPUs, named by their minor number.
Gpu == 0 .. NumGpus - 1

\* A node is named by its kind and its minor number among them.
ControlNodes == <<<<"nvidiactl", 255>>, <<"nvidia-modeset", 254>>,
                  <<"nvidia-uvm", 0>>, <<"nvidia-uvm-tools", 1>>>>
GpuNode(g) == <<"nvidia", g>>
DriNode(g) == <<"dri", g>>
CapNode(g) == <<"nvidia-cap", g>>
FsNode     == <<"nvidia-fs", 0>>
GdrNode    == <<"gdrdrv", 0>>
VerbsNode  == <<"uverbs", 0>>
SwitchNode == <<"nvidia-nvswitch", 0>>
Channel    == <<"channel", 0>>
Node == ToSet(ControlNodes) \cup {FsNode, GdrNode, VerbsNode, SwitchNode, Channel} \cup
        UNION {{GpuNode(g), DriNode(g), CapNode(g)} : g \in Gpu}

\* The names of /proc/devices, and the one that serves a node; "others" stands for those
\* that are neither loaded nor looked for here.
Driver == {"nvidia", "nvidia-caps", "nvidia-uvm", "drm", "others"}
DriverOf(n) ==
  CASE n[1] \in {"nvidia", "nvidiactl", "nvidia-modeset"} -> "nvidia"
    [] n[1] \in {"nvidia-uvm", "nvidia-uvm-tools"}        -> "nvidia-uvm"
    [] n[1] \in {"nvidia-cap", "channel"}                 -> "nvidia-caps"
    [] n[1] = "dri"                                       -> "drm"
    [] OTHER                                              -> "others"

\* The numbers that a driver may be registered with.
Majors(d) ==
  CASE d = "nvidia" -> {195} [] d = "nvidia-caps" -> {236} [] d = "drm" -> {226}
    [] d = "others" -> {237} [] OTHER -> {510, 511}

Command == [load : BOOLEAN, create : BOOLEAN, links : {"none", "existing", "all"}]

NoCommand == [load |-> FALSE, create |-> FALSE, links |-> "none"]

ASSUME NodesAssumption ==
  NumGpus \in Nat /\ Commands \subseteq Command
  /\ Budgets \subseteq [{"changes", "commands", "generations"} -> Nat]

VARIABLES
  bus,       \* the GPUs of the host in the order of their index
  mig,       \* the GPUs in MIG mode, each with one MIG device
  loaded,    \* the drivers in /proc/devices
  major,     \* the number a driver was registered with last, 0 if it never was
  nodes,     \* the device nodes in /dev: their major number, 0 if there is no node
  links,     \* the links in /dev/char: <<major, node>>
  cmd,       \* the command that runs
  spc,       \* its next step
  known,     \* the major numbers it read
  todo,      \* the modules, nodes or links it has still to process
  leftNodes, \* history: the nodes and the links that were there when their driver was
  leftLinks, \*   registered with another number
  raced,     \* history: modules were unloaded while a command used numbers it had read
  budget     \* history: how many changes, commands and generations are left

setupVars == <<cmd, spc, known, todo>>
history == <<leftNodes, leftLinks, raced>>
nodesVars == <<bus, mig, loaded, major, nodes, links, setupVars, history, budget>>

NoMajor == [d \in Driver |-> 0]
Present == {n \in Node : nodes[n] # 0}

NodesTypeOK ==
  /\ bus \in Seq(Gpu) /\ IsInjective(bus) /\ mig \subseteq Gpu
  /\ loaded \subseteq Driver /\ raced \in BOOLEAN
  /\ leftNodes \subseteq Node /\ leftLinks \subseteq links
  /\ major \in [Driver -> Nat] /\ known \in [Driver -> Nat] /\ nodes \in [Node -> Nat]
  /\ \A d \in Driver : {major[d], known[d]} \subseteq Majors(d) \cup {0}
  /\ \A n \in Node : nodes[n] \in Majors(DriverOf(n)) \cup {0}
  /\ \A l \in links : l[2] \in Node /\ l[1] \in Majors(DriverOf(l[2]))
  /\ cmd \in Command /\ spc \in {"idle", "load", "create", "link"}
  /\ budget \in [{"changes", "commands", "generations"} -> Nat]

----------------------------------------------------------------------------
(* The host *)

\* Nothing is loaded, or the drivers are and a node of each but nvidia-uvm exists.
NodesInit ==
  /\ bus = [i \in 1..NumGpus |-> i - 1] /\ mig = {}
  /\ loaded \in {{}, Driver}
  /\ major = [d \in Driver |-> IF d \in loaded THEN CHOOSE m \in Majors(d) : TRUE ELSE 0]
  /\ nodes = [n \in Node |-> IF DriverOf(n) = "nvidia-uvm" THEN 0 ELSE major[DriverOf(n)]]
  /\ links = {}
  /\ cmd = NoCommand
  /\ spc = "idle" /\ known = NoMajor /\ todo = <<>>
  /\ leftNodes = {} /\ leftLinks = {} /\ raced = FALSE /\ budget \in Budgets

Spend(what) == budget[what] > 0 /\ budget' = [budget EXCEPT ![what] = @ - 1]

\* A GPU is removed or added, which renumbers the others, or MIG mode is switched.
ChangeGpus ==
  /\ Spend("changes")
  /\ \/ \E i \in DOMAIN bus : bus' = RemoveAt(bus, i) /\ UNCHANGED mig
     \/ \E g \in Gpu \ ToSet(bus), i \in 1..Len(bus) + 1 : bus' = InsertAt(bus, i, g) /\ UNCHANGED mig
     \/ \E g \in ToSet(bus) : mig' = (mig \cup {g}) \ (mig \cap {g}) /\ UNCHANGED bus
  /\ UNCHANGED <<loaded, major, nodes, links, setupVars, history>>

\* The modules are removed; the nodes in /dev are not.
Unload ==
  /\ Spend("changes") /\ loaded # {}
  /\ loaded' = {}
  /\ raced' = (raced \/ spc \in {"create", "link"})
  /\ UNCHANGED <<bus, mig, major, nodes, links, setupVars, leftNodes, leftLinks>>

\* Drivers ds that were not registered are, and get a number.
Register(ds) ==
  /\ loaded' = loaded \cup ds
  /\ \E numbers \in [ds \ loaded -> UNION {Majors(d) : d \in ds}] :
       /\ \A d \in ds \ loaded : numbers[d] \in Majors(d)
       /\ major' = [d \in Driver |-> IF d \in ds \ loaded THEN numbers[d] ELSE major[d]]
  /\ LET renumbered == {d \in Driver : major'[d] # major[d]}
     IN  /\ leftNodes' = leftNodes \cup {n \in Present : DriverOf(n) \in renumbered}
         /\ leftLinks' = leftLinks \cup {l \in links : DriverOf(l[2]) \in renumbered}

\* nvidia-modprobe or udev make a missing node of a driver that is loaded.
MakeNodes ==
  /\ Spend("changes")
  /\ \E d \in loaded :
       /\ \E n \in Node \ Present : DriverOf(n) = d
       /\ nodes' = [n \in Node |-> IF DriverOf(n) = d /\ nodes[n] = 0 THEN major[d] ELSE nodes[n]]
  /\ UNCHANGED <<bus, mig, loaded, major, links, setupVars, history>>

----------------------------------------------------------------------------
(* nvidia-ctk system create-device-nodes and create-dev-char-symlinks *)

\* validateFlags of create-dev-char-symlinks: modules and nodes need --create-all.
ValidateFlags(c) ==
  IF c.links = "existing" THEN [c EXCEPT !.load = FALSE, !.create = FALSE] ELSE c

StartSetup ==
  /\ spc = "idle" /\ Spend("commands")
  /\ \E c \in Commands : cmd' = ValidateFlags(c)
  /\ spc' = "load" /\ known' = NoMajor
  /\ todo' = IF cmd'.load THEN <<{"nvidia", "nvidia-caps"}, {"nvidia-uvm"}, {}>> ELSE <<>>
  /\ UNCHANGED <<bus, mig, loaded, major, nodes, links, history>>

\* The command returns, with or without an error, or is killed.
EndSetup == spc' = "idle" /\ cmd' = NoCommand /\ known' = NoMajor /\ todo' = <<>>

StopSetup ==
  /\ spc # "idle" /\ EndSetup
  /\ UNCHANGED <<bus, mig, loaded, major, nodes, links, history, budget>>

\* LoadAll: modprobe of the next module (nvidia registers two drivers, nvidia-modeset
\* none of its own).  An error is StopSetup.
LoadModule ==
  /\ spc = "load" /\ todo # <<>>
  /\ Register(Head(todo))
  /\ todo' = Tail(todo)
  /\ UNCHANGED <<bus, mig, nodes, links, cmd, spc, known, raced, budget>>

\* /proc/devices: the numbers of the drivers that are registered.
GetNVIDIADevices == [d \in Driver |-> IF d \in loaded THEN major[d] ELSE 0]

\* nvdevices.New: some driver has to be registered.
NewNvdevices ==
  /\ spc = "load" /\ todo = <<>> /\ cmd.create /\ loaded # {}
  /\ known' = GetNVIDIADevices
  /\ spc' = "create" /\ todo' = ControlNodes
  /\ UNCHANGED <<bus, mig, loaded, major, nodes, links, cmd, history, budget>>

\* (mutant) nvidia-uvm-tools has the number of nvidia
MajorUVMOnly(n, ms) == IF n[1] = "nvidia-uvm" THEN ms["nvidia-uvm"] ELSE ms["nvidia"]

\* Interface.Major: the number of a control node, 0 if it is not known.
Major(n, ms) == IF n[1] \in {"nvidia-uvm", "nvidia-uvm-tools"} THEN ms["nvidia-uvm"] ELSE ms["nvidia"]

\* Mknode: a node that exists is left as it is.
Mknode(ns, n, m) == IF ns[n] # 0 THEN ns ELSE [ns EXCEPT ![n] = m]

\* CreateNVIDIADevice for the next control node.  An unknown major number, or an error
\* of mknod, ends the command: StopSetup.
CreateNVIDIADevice ==
  /\ spc = "create" /\ todo # <<>>
  /\ Major(Head(todo), known) # 0
  /\ nodes' = Mknode(nodes, Head(todo), Major(Head(todo), known))
  /\ todo' = Tail(todo)
  /\ UNCHANGED <<bus, mig, loaded, major, links, cmd, spc, known, history, budget>>

\* The nodes of GPUs and of their MIG devices, counted from 0.
GpuNodes(count) == [i \in 1..count |-> GpuNode(i - 1)] \o [i \in 1..count |-> CapNode(i - 1)]

\* What is listed: the nodes with their numbers, those that a lister leaves out with 0.
Numbered(ns, Number(_)) == [i \in 1..Len(ns) |-> <<Number(ns[i]), ns[i]>>]

\* The lister of existing nodes: those in /dev, with their own numbers; nvidia-fs is
\* blocked, and channels and dri are not looked for.
ExistingNodes == Numbered(GpuNodes(NumGpus) \o ControlNodes, LAMBDA n : nodes[n])

\* The lister of all possible nodes: of the GPUs that there are, counted from 0, with the
\* numbers of /proc/devices; MIG caps are listed whenever their driver has them.
AllPossibleNodes ==
  IF bus = <<>> THEN <<>>
  ELSE Numbered(ControlNodes \o GpuNodes(Len(bus)),
                LAMBDA n : IF DriverOf(n) \in loaded THEN major[DriverOf(n)] ELSE 0)

\* NewSymlinkCreator and the listing of CreateLinks; for all possible nodes the GPU and
\* UVM drivers have to be known.
ListNodes ==
  /\ \/ spc = "load" /\ todo = <<>> /\ ~cmd.create
     \/ spc = "create" /\ todo = <<>>
  /\ cmd.links # "none"
  /\ cmd.links = "all" => {"nvidia", "nvidia-uvm"} \subseteq loaded
  /\ spc' = "link"
  /\ todo' = IF cmd.links = "all" THEN AllPossibleNodes ELSE ExistingNodes
  /\ UNCHANGED <<bus, mig, loaded, major, nodes, links, cmd, known, history, budget>>

\* CreateLinks for the next node, if it was listed: a link that is there stays as it is.
LinkExists(l) == \E k \in links : k[1] = l[1] /\ k[2][2] = l[2][2]

CreateDevCharLink ==
  /\ spc = "link" /\ todo # <<>>
  /\ links' = IF Head(todo)[1] = 0 \/ LinkExists(Head(todo)) THEN links ELSE links \cup {Head(todo)}
  /\ todo' = Tail(todo)
  /\ UNCHANGED <<bus, mig, loaded, major, nodes, cmd, spc, known, history, budget>>

SetupNext ==
  \/ StartSetup \/ StopSetup \/ LoadModule \/ NewNvdevices \/ CreateNVIDIADevice
  \/ ListNodes \/ CreateDevCharLink

NodesNext == ChangeGpus \/ Unload \/ MakeNodes \/ SetupNext

----------------------------------------------------------------------------

\* Whatever the commands are interrupted by: a command that comes to the links has made
\* every control node that was missing; and a node of /dev or a link of /dev/char has a
\* number that is not its driver's only if it was there before the driver was registered
\* again, is a link to such a node, or the modules were unloaded under a running command.
NodesAndLinksAgree ==
  /\ spc = "link" /\ cmd.create => ToSet(ControlNodes) \subseteq Present
  /\ \A n \in Present \ leftNodes : raced \/ nodes[n] = major[DriverOf(n)]
  /\ \A l \in links \ leftLinks :
       raced \/ l[2] \in leftNodes \/ l[1] = major[DriverOf(l[2])]
============================================================================
