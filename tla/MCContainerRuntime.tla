------------------------ MODULE MCContainerRuntime ------------------------
(* ContainerRuntime for TLC: containers, configs and hosts of its instances. *)
EXTENDS ContainerRuntime

Var(list) == [set |-> TRUE, list |-> list]
Vendor(id) == [kind |-> "vendor", id |-> id]
Automatic(id) == [kind |-> "automatic", id |-> id]

Container(env, swarm, annotations, mounts, privileged, legacyImage, features, hooks) ==
  [complete |-> TRUE, env |-> env, swarm |-> swarm, annotations |-> annotations, mounts |-> mounts,
   privileged |-> privileged, legacyImage |-> legacyImage, features |-> features,
   nvidiaHooks |-> hooks, gpus |-> {}, edits |-> {}]

\* NVIDIA_VISIBLE_DEVICES in all its forms.
MCEnv == {Unset, Var(<<>>), Var(<<Plain("all")>>), Var(<<Plain("none")>>),
          Var(<<Plain("0"), Plain("void")>>), Var(<<Plain("1")>>), Var(<<Plain("0"), Plain("0")>>),
          Var(<<Vendor("0")>>), Var(<<Vendor("0"), Plain("1")>>), Var(<<Automatic("1")>>)}

\* Containers that request by their environment, with and without other sources, and
\* with and without the hook of docker --gpus.
MCSpecs ==
  {Container(e, Unset, <<>>, <<>>, p, l, f, h) :
     e \in MCEnv, p, l \in BOOLEAN, f \in {{}, {"gds", "graphics"}}, h \in 0 .. 1}
  \cup
  {Container(Var(<<Plain("0")>>), s, a, m, p, FALSE, {"gds"}, h) :
     s \in {Unset, Var(<<Plain("1")>>)}, a \in {<<>>, <<Vendor("1")>>, <<Plain("1")>>, <<Automatic("all")>>},
     m \in {<<>>, <<Plain("1")>>, <<Plain("1"), Plain("none")>>, <<Vendor("1"), Vendor("all")>>}, p \in BOOLEAN, h \in 0 .. 1}

Conf(mode, prefixes, mounts, env, swarm, skip) ==
  [mode |-> mode, annotationPrefixes |-> prefixes, acceptMounts |-> mounts, acceptEnv |-> env,
   swarmResource |-> swarm, skipModeDetection |-> skip]

\* Every mode, and every switch on and off.
MCConfigs == {Conf("auto", TRUE, FALSE, TRUE, FALSE, TRUE), Conf("auto", TRUE, TRUE, FALSE, TRUE, FALSE),
              Conf("legacy", TRUE, TRUE, FALSE, FALSE, FALSE), Conf("legacy", FALSE, FALSE, TRUE, TRUE, TRUE),
              Conf("cdi", TRUE, TRUE, TRUE, FALSE, FALSE), Conf("csv", TRUE, FALSE, TRUE, FALSE, FALSE),
              Conf("jit-cdi", TRUE, TRUE, TRUE, TRUE, FALSE)}

Machine(platform, wrapped, override, mixed) ==
  [platform |-> platform, wrapped |-> wrapped, modeOverride |-> override, mixed |-> mixed]

\* Both platforms, with mixed CSV generators for all GPUs, for one and for none.
MCHosts == {Machine("tegra", TRUE, "", m) : m \in {{}, {"0"}, GPU}}
             \cup {Machine("nvml", TRUE, "", {}), Machine("nvml", TRUE, "legacy", {}),
                   Machine("nvml", FALSE, "", {})}

\* A container that requests all GPUs and GPUDirect Storage, in legacy mode.
MCGatedSpecs == {Container(Var(<<Plain("all")>>), Unset, <<>>, <<>>, FALSE, FALSE, {"gds"}, 0)}
MCLegacy == {Conf("legacy", TRUE, FALSE, TRUE, FALSE, FALSE)}
MCPlainHost == {Machine("nvml", TRUE, "", {})}
===========================================================================
