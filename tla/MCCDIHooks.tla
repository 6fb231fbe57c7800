----------------------------- MODULE MCCDIHooks -----------------------------
(* CDIHooks for TLC: two driver versions in one directory, a third in another. *)
EXTENDS CDIHooks

MCVersion == 1 .. 3
MCLibDir == <<"lib64", "lib64", "multi">>

Base == [debian |-> TRUE, musl |-> FALSE, top |-> "include", compat |-> 2, header |-> 2, by |-> "driver",
         own |-> {}, so |-> <<"absent">>, hostDebian |-> TRUE, params |-> "1", hostSoname |-> TRUE,
         supported |-> HookName]

\* The base image and what may differ from it, one or two things at a time.
MCSites ==
  {[Base EXCEPT !.debian = d, !.top = t, !.hostDebian = h] :
     d, h \in BOOLEAN, t \in {"absent", "include", "plain"}}
  \cup {[Base EXCEPT !.own = {"opt"}, !.debian = d] : d \in BOOLEAN}
  \cup {[Base EXCEPT !.musl = TRUE, !.debian = FALSE, !.top = "absent", !.compat = 0]}
  \cup {[Base EXCEPT !.so = l, !.hostSoname = FALSE] : l \in {<<"file">>, <<"dir">>, <<"lib", 0>>}}
  \cup {[Base EXCEPT !.supported = HookName \ {Params}, !.header = 0, !.by = "cuda"],
        [Base EXCEPT !.header = 3, !.by = "cuda"],
        [Base EXCEPT !.params = "absent"], [Base EXCEPT !.params = "0"]}

MCHookOptions ==
  {[disabled |-> {}, enabled |-> {}], [disabled |-> {}, enabled |-> {Chmod}],
   [disabled |-> {"all"}, enabled |-> {LDCache}], [disabled |-> {"all"}, enabled |-> {}]}
=============================================================================
