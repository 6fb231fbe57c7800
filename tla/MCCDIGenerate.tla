--------------------------- MODULE MCCDIGenerate ---------------------------
(* CDIGenerate for TLC: the commands and the requests of its instance. *)
EXTENDS CDIGenerate

MCCommands == {[load |-> TRUE, create |-> TRUE, links |-> "all"],
               [load |-> TRUE, create |-> TRUE, links |-> "none"],
               [load |-> TRUE, create |-> TRUE, links |-> "existing"]}

MCCoherent == 0 :> "true" @@ 1 :> "false"

Req(m, ids, namers, noAll, coherent, sandbox) ==
  [mode |-> m, ids |-> ids, namers |-> namers, noAll |-> noAll, coherent |-> coherent, sandbox |-> sandbox,
   disabledHooks |-> {}]
Without(r, hooks) == [r EXCEPT !.disabledHooks = hooks]

\* A version with its files, and one with a library of the first left behind; the Vulkan
\* and the socket files are at different places.
MCLinkOf == [d \in Directory |-> CASE d = "/lib" -> "/usr/lib" [] d = "/bin" -> "/usr/bin" [] OTHER -> d]
MCInstalled ==
  1 :> << <<"/usr/lib", "libcuda", 1>>, <<"/usr/lib", "libnvidia-allocator", 1>>,
          <<"/usr/lib", "libnvidia-vulkan-producer", 1>>, <<"/usr/lib/vdpau", "libvdpau_nvidia", 1>>,
          <<"/usr/lib", "libnvidia-egl-gbm", 0>>, <<"/usr/lib/xorg", "libglxserver_nvidia", 1>>,
          <<"/lib/firmware", "gsp", 1>>, <<"/usr/bin", "nvidia-smi", 0>>,
          <<"/var/run", "persistenced-socket", 0>>, <<"/", "nvidia_icd", 0>>,
          <<"/run", "udev", 0>> >> @@
  2 :> << <<"/usr/lib", "libcuda", 1>>, <<"/usr/lib", "libcuda", 2>>,
          <<"/usr/lib/nvidia/xorg", "nvidia_drv", 0>>, <<"/usr/lib/xorg", "nvidia_drv", 0>>,
          <<"/lib/firmware/updates", "gsp", 2>>, <<"/lib/firmware", "gsp", 2>>,
          <<"/run", "persistenced-socket", 0>>, <<"/var/run", "persistenced-socket", 0>>,
          <<"/etc", "nvidia_icd", 0>>, <<"/usr/share", "nvidia_icd", 0>>,
          <<"/usr/share", "10_nvidia.json", 0>>, <<"/etc", "cufile.json", 0>> >>

Both == {"index", "uuid"}

\* All devices under both names, with and without nvsandboxutils; devices by id, in an
\* order that is not that of the bus; none; and the other modes; some with disabled hooks.
MCRequests == {
  Req("nvml", <<All>>, Both, FALSE, TRUE, TRUE),
  Without(Req("nvml", <<<<"gpu", "uuid", 1>>, <<"mig", "index", 0>>>>, {"index"}, FALSE, FALSE, TRUE),
          {"create-symlinks"}),
  Without(Req("nvml", <<<<"gpu", "index", 0>>, None>>, {"uuid"}, FALSE, FALSE, FALSE), {"all"}),
  Without(Req("management", <<All>>, {"index"}, FALSE, FALSE, FALSE), {"update-ldcache"}),
  Req("gds", <<All>>, {"index"}, FALSE, FALSE, FALSE),
  Req("gdrcopy", <<All>>, {"index"}, FALSE, FALSE, FALSE),
  Req("mofed", <<All>>, {"index"}, FALSE, FALSE, FALSE),
  Req("nvswitch", <<All>>, {"index"}, TRUE, FALSE, FALSE),
  Req("imex", <<All>>, {"index"}, FALSE, FALSE, FALSE)}

Budget(changes, commands, generations) ==
  "changes" :> changes @@ "commands" :> commands @@ "generations" :> generations

\* Commands alone; a generation while the host changes or a command runs; and two of them.
MCBudgets == {Budget(2, 2, 0), Budget(2, 0, 1), Budget(0, 1, 1), Budget(0, 0, 2)}
============================================================================
