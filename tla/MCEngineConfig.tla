-------------------------- MODULE MCEngineConfig --------------------------
(* EngineConfig for TLC: the command lines of its instances. *)
EXTENDS EngineConfig

Opt(name, default, cdi) == [name |-> name, setAsDefault |-> default, enableCDI |-> cdi]

\* The nvidia runtime next to the default, and a mode's runtime as the default.
MCOptions == {Opt("nvidia", FALSE, TRUE), Opt("nvidia-cdi", TRUE, FALSE)}

\* The default command line.
MCDefaultOptions == {Opt("nvidia", TRUE, TRUE)}

\* The user's config with runtimes names, a default and a setting.
UserConfig(names, default, setting) ==
  [runtimes |-> [n \in Name |-> IF n \in names THEN UserEntry(n) ELSE NoEntry],
   default |-> default, cdi |-> FALSE, settings |-> setting, features |-> FALSE]

\* docker, containerd and cri-o with their default drop-in path, and containerd with a
\* version 1 config, with the default drop-in path and with none.
MCHosts == {[engine |-> "docker", dropIn |-> FALSE], [engine |-> "containerd", dropIn |-> TRUE],
            [engine |-> "crio", dropIn |-> TRUE]}
             \cup [engine : {"containerdV1"}, dropIn : BOOLEAN]

\* containerd with its default drop-in path.
MCContainerd == {[engine |-> "containerd", dropIn |-> TRUE]}

\* No config, runc alone, and a runtime of the user's own as the default.
MCUserConfigs == {UserConfig({}, "none", "none"),
                  UserConfig({"runc"}, "none", "a"),
                  UserConfig({"runc", "custom"}, "custom", "none")}
===========================================================================
