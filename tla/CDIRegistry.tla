---------------------------- MODULE CDIRegistry ----------------------------
(***************************************************************************)
(* What the generation of CDI specs promises, without its steps: a file is *)
(* only ever replaced by a complete spec.  A name of it injects nothing    *)
(* twice, and the name "all" what the other names inject together.  If the *)
(* host did not change since the request was made, the file describes it.  *)
(***************************************************************************)
CONSTANTS
  File,         \* the files
  NoFile,       \* the contents of a file that does not exist
  All,          \* the name of the merged device
  Gives(_),     \* what a spec gives: a function from its names to the number of times
                \*   an entity is injected for the name
  Want(_, _, _) \* what a file has to give for a host and a request
VARIABLES
  host,     \* the host, which changes on its own
  request,  \* the last request
  exact,    \* it is in progress, and nothing that it depends on has changed or failed
  files     \* the specs in the files

registryVars == <<host, request, exact, files>>

Init == exact = FALSE /\ files = [f \in File |-> NoFile]

Begin == ~exact /\ exact' /\ UNCHANGED <<host, files>>

\* The host changes, a library fails, or the request is over: whatever is written from
\* now on need not describe the host.
Disturb == ~exact' /\ UNCHANGED files

Entities(given, n) == DOMAIN given[n]

Complete(given) ==
  /\ \A n \in DOMAIN given : \A e \in Entities(given, n) : given[n][e] = 1
  /\ LET named == DOMAIN given \ {All}
     IN  All \in DOMAIN given /\ named # {} =>
           Entities(given, All) = UNION {Entities(given, n) : n \in named}

Publish(f) ==
  /\ UNCHANGED <<host, request, exact>>
  /\ files' = [files EXCEPT ![f] = files'[f]]
  /\ files'[f] \notin {files[f], NoFile}
  /\ \E given \in {Gives(files'[f])} :
       Complete(given) /\ (exact => given = Want(host, request, f))

Next == Begin \/ Disturb \/ \E f \in File : Publish(f)

Spec == Init /\ [][Next]_registryVars
============================================================================
