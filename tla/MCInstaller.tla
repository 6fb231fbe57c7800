---------------------------- MODULE MCInstaller ----------------------------
(* Installer for TLC: the command lines and the symmetries of its instances. *)
EXTENDS Installer, TLC

Opt(noDaemon, nri, noConfig, ignore, restart) ==
  [noDaemon |-> noDaemon, nri |-> nri, noRuntimeConfig |-> noConfig,
   ignoreErrors |-> ignore, restartMode |-> restart]

\* A daemon that signals the engine, a one-shot installation that ignores
\* errors, and a daemon with the NRI plugin.
MCOptions == {Opt(FALSE, FALSE, FALSE, FALSE, "signal"),
              Opt(TRUE, FALSE, FALSE, TRUE, "systemd"),
              Opt(FALSE, TRUE, FALSE, FALSE, "none")}

\* The two of them that touch the engine config.
MCConfigOptions == {o \in MCOptions : ~o.nri}

\* The default command line.
MCDefaultOptions == {Opt(FALSE, FALSE, FALSE, FALSE, "signal")}

\* Without NRI, every restart mode, with and without a daemon.
MCLiveOptions == {Opt(d, FALSE, c, FALSE, r) : d, c \in BOOLEAN, r \in {"signal", "systemd", "none"}}

MCSymmetry == Permutations(Proc) \cup Permutations(Inode)
============================================================================
