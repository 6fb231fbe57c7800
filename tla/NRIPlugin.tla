----------------------------- MODULE NRIPlugin -----------------------------
(***************************************************************************)
(* The NRI plugin of the installer daemon                                  *)
(* (cmd/nvidia-ctk-installer/container/runtime/nri/plugin.go) on top of    *)
(* the stub it uses (vendor/github.com/containerd/nri/pkg/stub/stub.go).   *)
(*                                                                         *)
(* Three kinds of goroutines share the stub and its mutex: Run of the      *)
(* installer (Start, then Stop when the daemon is told to end), the        *)
(* goroutine of scheduleReconnect, and the callbacks connClosed, one for   *)
(* every ttrpc client whose connection is gone or that was closed.  The    *)
(* callbacks carry no argument, so the model counts them.                  *)
(***************************************************************************)
EXTENDS Naturals

CONSTANTS
  MaxDrops,             \* bound: connections the engine drops
  MaxRegisterTimeouts,  \* bound: registrations that time out
  MaxCallbacks          \* bound: callbacks pending when a reconnect is attempted

ASSUME BoundsAssumption ==
  MaxDrops \in Nat /\ MaxRegisterTimeouts \in Nat /\ MaxCallbacks \in Nat \ {0}

VARIABLES
  pc,                   \* the next step of Run and of the reconnect goroutine
  stopped,              \* Plugin.stopped
  reconnectInProgress,  \* Plugin.reconnectInProgress
  mutex,                \* who holds the stub's mutex
  started,              \* stub.started
  conn,                 \* stub.conn: none, a live connection, a dead one
  client,               \* whether the ttrpc client of the last Start still runs
  closing,              \* connClosed callbacks waiting for the mutex
  notifying,            \* connClosed callbacks about to call onClose
  engine,               \* whether the container engine listens on its socket
  drops, timeouts       \* faults so far

plugin == <<stopped, reconnectInProgress>>
stub == <<mutex, started, conn, client>>
callbacks == <<closing, notifying>>
faults == <<engine, drops, timeouts>>
vars == <<pc, plugin, stub, callbacks, faults>>

Thread == {"main", "recon"}

StartPC == {"lock", "connect", "register", "await"}
PC == StartPC \cup {"running", "stopping", "stopped", "exited"}
              \cup {"none", "check", "backoff", "failed", "clear"}

TypeOK ==
  /\ pc \in [Thread -> PC]
  /\ stopped \in BOOLEAN /\ reconnectInProgress \in BOOLEAN
  /\ mutex \in Thread \cup {"free"}
  /\ started \in BOOLEAN
  /\ conn \in {"none", "live", "dead"}
  /\ client \in {"none", "open"}
  /\ closing \in Nat /\ notifying \in Nat
  /\ engine \in {"up", "down"}
  /\ drops \in 0 .. MaxDrops /\ timeouts \in 0 .. MaxRegisterTimeouts

\* Run has called Plugin.Start, which has created the stub and calls stub.Start.
Init ==
  /\ pc = [t \in Thread |-> IF t = "main" THEN "lock" ELSE "none"]
  /\ stopped = FALSE /\ reconnectInProgress = FALSE
  /\ mutex = "free" /\ started = FALSE /\ conn = "none" /\ client = "none"
  /\ closing = 0 /\ notifying = 0
  /\ engine = "up" /\ drops = 0 /\ timeouts = 0

\* Nothing runs once the process has exited.
Alive == pc["main"] # "exited"

Goto(t, l) == pc' = [pc EXCEPT ![t] = l]

\* stub.Start returns an error: Run returns it and the process exits, the
\* reconnect goroutine looks at stopped before it tries again.
StartFailed(t) == Goto(t, IF t = "main" THEN "exited" ELSE "failed")

StartSucceeded(t) == Goto(t, IF t = "main" THEN "running" ELSE "clear")

----------------------------------------------------------------------------
(* stub.Start, which holds the mutex from its first line to its last *)

StartLock(t) ==
  /\ Alive
  /\ pc[t] = "lock"
  /\ mutex = "free"
  /\ \/ /\ started
        /\ StartFailed(t)
        /\ UNCHANGED mutex
     \/ /\ ~started
        /\ mutex' = t
        /\ Goto(t, "connect")
  /\ UNCHANGED <<plugin, started, conn, client, callbacks, faults>>

\* (mutant) a connection left by a failed Start is dialled anew
ConnectAfresh(t) ==
  /\ Alive
  /\ pc[t] = "connect"
  /\ engine = "up"
  /\ conn' = "live"
  /\ client' = "open"
  /\ Goto(t, "register")
  /\ UNCHANGED <<plugin, mutex, started, callbacks, faults>>

\* connect: a connection that is not nil is used as it is, otherwise the socket
\* is dialled.  The ttrpc client is created on it.
Connect(t) ==
  /\ Alive
  /\ pc[t] = "connect"
  /\ \/ /\ conn = "none" /\ engine = "down"
        /\ StartFailed(t)
        /\ mutex' = "free"
        /\ UNCHANGED <<conn, client>>
     \/ /\ conn = "none" /\ engine = "up"
        /\ conn' = "live"
        /\ client' = "open"
        /\ Goto(t, "register")
        /\ UNCHANGED mutex
     \/ /\ conn # "none"
        /\ client' = "open"
        /\ Goto(t, "register")
        /\ UNCHANGED <<conn, mutex>>
  /\ UNCHANGED <<plugin, started, callbacks, faults>>

Register(t) ==
  /\ Alive
  /\ pc[t] = "register"
  /\ conn = "live" /\ client = "open"
  /\ Goto(t, "await")
  /\ UNCHANGED <<plugin, stub, callbacks, faults>>

\* (mutant) a failed registration closes the client but not the connection
RegisterFailsLeaks(t) ==
  /\ Alive
  /\ pc[t] = "register"
  /\ conn # "live" \/ client = "none" \/ timeouts < MaxRegisterTimeouts
  /\ timeouts' = IF conn = "live" /\ client = "open" THEN timeouts + 1 ELSE timeouts
  /\ client' = "none"
  /\ closing' = IF client = "open" THEN closing + 1 ELSE closing
  /\ mutex' = "free"
  /\ StartFailed(t)
  /\ UNCHANGED <<plugin, started, conn, notifying, engine, drops>>

\* The connection is gone, or the engine does not answer in time.  stub.close
\* does nothing because started is not set; the deferred calls close the client
\* and the connection, and stub.conn still refers to it.
RegisterFails(t) ==
  /\ Alive
  /\ pc[t] = "register"
  /\ conn # "live" \/ client = "none" \/ timeouts < MaxRegisterTimeouts
  /\ timeouts' = IF conn = "live" /\ client = "open" THEN timeouts + 1 ELSE timeouts
  /\ conn' = "dead"
  /\ client' = "none"
  /\ closing' = IF client = "open" THEN closing + 1 ELSE closing
  /\ mutex' = "free"
  /\ StartFailed(t)
  /\ UNCHANGED <<plugin, started, notifying, engine, drops>>

\* (mutant) Start returns without unlocking the mutex
ConfiguredKeepsMutex(t) ==
  /\ Alive
  /\ pc[t] = "await"
  /\ conn = "live"
  /\ started' = TRUE
  /\ StartSucceeded(t)
  /\ UNCHANGED <<plugin, mutex, conn, client, callbacks, faults>>

\* The engine calls Configure, which sends to cfgErrC.  When the connection is
\* lost before that, Start waits on cfgErrC for ever.
Configured(t) ==
  /\ Alive
  /\ pc[t] = "await"
  /\ conn = "live"
  /\ started' = TRUE
  /\ mutex' = "free"
  /\ StartSucceeded(t)
  /\ UNCHANGED <<plugin, conn, client, callbacks, faults>>

----------------------------------------------------------------------------
(* Losing the connection *)

\* The engine goes away, or only the connection does.
Drop ==
  /\ Alive
  /\ conn = "live"
  /\ drops < MaxDrops
  /\ drops' = drops + 1
  /\ conn' = "dead"
  /\ engine' \in {"up", "down"}
  /\ UNCHANGED <<pc, plugin, mutex, started, client, callbacks, timeouts>>

EngineUp ==
  /\ Alive
  /\ engine = "down"
  /\ engine' = "up"
  /\ UNCHANGED <<pc, plugin, stub, callbacks, drops, timeouts>>

\* (mutant) the client ends without calling its OnClose callback
ClientEndsSilently ==
  /\ Alive
  /\ client = "open" /\ conn = "dead"
  /\ client' = "none"
  /\ UNCHANGED <<pc, plugin, mutex, started, conn, callbacks, faults>>

\* The client's receive loop ends and calls connClosed.
ClientEnds ==
  /\ Alive
  /\ client = "open" /\ conn = "dead"
  /\ client' = "none"
  /\ closing' = closing + 1
  /\ UNCHANGED <<pc, plugin, mutex, started, conn, notifying, faults>>

\* (mutant) close resets started and keeps the connection
CloseKeepsConn(pending) ==
  /\ started' = FALSE
  /\ conn' = conn
  /\ client' = IF started THEN "none" ELSE client
  /\ closing' = IF started /\ client = "open" THEN pending + 1 ELSE pending

\* stub.close: with started set it closes the client, whose callback follows,
\* and forgets the connection.
Close(pending) ==
  /\ started' = FALSE
  /\ conn' = IF started THEN "none" ELSE conn
  /\ client' = IF started THEN "none" ELSE client
  /\ closing' = IF started /\ client = "open" THEN pending + 1 ELSE pending

\* (mutant) connClosed runs again for a client it has already run for
ConnClosedTwice ==
  /\ Alive
  /\ mutex = "free"
  /\ Close(closing - 1)
  /\ notifying' = notifying + 1
  /\ UNCHANGED <<pc, plugin, mutex, faults>>

\* connClosed, under the mutex.
ConnClosed ==
  /\ Alive
  /\ closing > 0
  /\ mutex = "free"
  /\ Close(closing - 1)
  /\ notifying' = notifying + 1
  /\ UNCHANGED <<pc, plugin, mutex, faults>>

\* onClose, that is scheduleReconnect up to the start of its goroutine.
OnClose ==
  /\ Alive
  /\ notifying > 0
  /\ notifying' = notifying - 1
  /\ \/ /\ reconnectInProgress
        /\ UNCHANGED <<pc, reconnectInProgress>>
     \/ /\ ~reconnectInProgress
        /\ reconnectInProgress' = TRUE
        /\ Goto("recon", "check")
  /\ UNCHANGED <<stopped, stub, closing, faults>>

----------------------------------------------------------------------------
(* The goroutine of scheduleReconnect *)

\* stopped is looked at, and the backoff follows.
CheckStopped ==
  /\ Alive
  /\ pc["recon"] = "check"
  /\ Goto("recon", IF stopped THEN "clear" ELSE "backoff")
  /\ UNCHANGED <<plugin, stub, callbacks, faults>>

\* The backoff is over; the context is never cancelled (main.go:74).  (The bound
\* only keeps callbacks that are ready to run from piling up.)
BackoffOver ==
  /\ Alive
  /\ pc["recon"] = "backoff"
  /\ closing + notifying < MaxCallbacks
  /\ Goto("recon", "lock")
  /\ UNCHANGED <<plugin, stub, callbacks, faults>>

\* Start has failed.
RetryOrStop ==
  /\ Alive
  /\ pc["recon"] = "failed"
  /\ Goto("recon", IF stopped THEN "clear" ELSE "check")
  /\ UNCHANGED <<plugin, stub, callbacks, faults>>

\* (mutant) the goroutine ends and leaves reconnectInProgress set
ClearForgotten ==
  /\ Alive
  /\ pc["recon"] = "clear"
  /\ Goto("recon", "none")
  /\ UNCHANGED <<plugin, stub, callbacks, faults>>

\* The deferred reconnectInProgress.Store(false).
ClearInProgress ==
  /\ Alive
  /\ pc["recon"] = "clear"
  /\ reconnectInProgress' = FALSE
  /\ Goto("recon", "none")
  /\ UNCHANGED <<stopped, stub, callbacks, faults>>

----------------------------------------------------------------------------
(* Plugin.Stop, and the signal that leads to it *)

\* The daemon is told to end: while it waits, Run goes on to the deferred Stop;
\* before that, the signal handler exits.
Signal ==
  /\ Alive
  /\ \/ /\ pc["main"] = "running"
        /\ stopped' = TRUE
        /\ Goto("main", "stopping")
     \/ /\ pc["main"] \in StartPC
        /\ Goto("main", "exited")
        /\ UNCHANGED stopped
  /\ UNCHANGED <<reconnectInProgress, stub, callbacks, faults>>

\* stub.Stop
StopStub ==
  /\ Alive
  /\ pc["main"] = "stopping"
  /\ mutex = "free"
  /\ Close(closing)
  /\ Goto("main", "stopped")
  /\ UNCHANGED <<plugin, mutex, notifying, faults>>

\* The deferred shutdown, and the process ends.
Exit ==
  /\ pc["main"] = "stopped"
  /\ Goto("main", "exited")
  /\ UNCHANGED <<plugin, stub, callbacks, faults>>

----------------------------------------------------------------------------
StubStart(t) == StartLock(t) \/ Connect(t) \/ Register(t) \/ RegisterFails(t) \/ Configured(t)

Callback == ClientEnds \/ ConnClosed \/ OnClose

Reconnect == CheckStopped \/ BackoffOver \/ RetryOrStop \/ ClearInProgress

Next ==
  \/ \E t \in Thread : StubStart(t)
  \/ Callback \/ Reconnect
  \/ Signal \/ StopStub \/ Exit
  \/ Drop \/ EngineUp

Spec == Init /\ [][Next]_vars

\* Every goroutine that can run does; an engine that went away comes back, and
\* on a live connection it answers the registration and calls Configure.  sync.Mutex
\* hands itself to a goroutine that has waited for 1ms: acquiring it is strongly fair.
Fairness ==
  /\ \A t \in Thread : SF_vars(StartLock(t)) /\ WF_vars(StubStart(t))
  /\ WF_vars(ClientEnds) /\ SF_vars(ConnClosed) /\ WF_vars(OnClose)
  /\ WF_vars(Reconnect)
  /\ SF_vars(StopStub) /\ WF_vars(Exit)
  /\ WF_vars(EngineUp)

LiveSpec == Spec /\ Fairness

----------------------------------------------------------------------------
(* Safety *)

\* A Start that did not succeed leaves no open connection behind, and neither
\* does close: without a Start under way, only a started stub is connected
\* (the deferred calls of Start, stub.go:380-427, and close, stub.go:481-505).
NoLeakedConnection == mutex = "free" /\ ~started => conn # "live" /\ client = "none"

\* A started stub whose client is gone has a connClosed callback on its way: the
\* loss of a connection is never overlooked (stub.go:416-421, 600-608).
LostClientIsReported == started /\ client = "none" => closing > 0

\* No callback of an earlier client is left to close the connection of a later
\* one: connClosed does not know which client it speaks for (stub.go:600).
NoStaleCallback == started /\ client = "open" => closing = 0

\* reconnectInProgress is set exactly while the reconnect goroutine runs, so that
\* there is never more than one (plugin.go:56-57, 157-161).
ReconnectAccounted == reconnectInProgress <=> pc["recon"] # "none"

\* A lost connection has a reconnect under way or on its way, until the daemon
\* ends (the comment of scheduleReconnect, plugin.go:155).  With a second loss
\* right after a reconnect, it has not: the callback finds reconnectInProgress
\* still set.
NoLostReconnect ==
  pc["main"] = "running" /\ ~started /\ closing = 0 /\ notifying = 0 => pc["recon"] # "none"

----------------------------------------------------------------------------
(* Liveness, under LiveSpec *)

\* No fault but one lost connection so far.
OneLossAtMost == drops <= 1 /\ timeouts = 0

\* A lost connection is established again, unless the daemon ends or there is
\* another fault meanwhile (plugin.go:155).  Of two faults it may not recover: a
\* registration that times out leaves a dead connection in the stub, which every
\* later attempt uses again, and a second loss may be overlooked (NoLostReconnect).
Reconnects ==
  (pc["main"] = "running" /\ ~started /\ OneLossAtMost)
    ~> (started \/ pc["main"] # "running" \/ ~OneLossAtMost)

\* Stop returns, and with it the daemon ends, unless there is another fault
\* (plugin.go:187-194).  A loss between the registration and Configure leaves Start
\* waiting with the mutex that Stop needs.
StopReturns ==
  (pc["main"] = "stopping" /\ OneLossAtMost)
    ~> (pc["main"] = "exited" \/ ~OneLossAtMost)
=============================================================================
