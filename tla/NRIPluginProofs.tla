-------------------------- MODULE NRIPluginProofs --------------------------
(***************************************************************************)
(* The safety properties of NRIPlugin, for any number of lost connections, *)
(* registrations that time out and pending callbacks.                      *)
(***************************************************************************)
EXTENDS NRIPlugin, TLAPS

\* Where the two goroutines can be.
MainPC  == StartPC \cup {"running", "stopping", "stopped", "exited"}
ReconPC == StartPC \cup {"none", "check", "backoff", "failed", "clear"}

\* The steps of stub.Start that hold the mutex, and the steps of the reconnect
\* goroutine from which it calls stub.Start.
Locked  == {"connect", "register", "await"}
Calling == StartPC \cup {"backoff", "failed"}

\* The mutex is with the goroutine that is in stub.Start (if the process exits there,
\* it stays), and a stub that somebody starts is not started.
MutexInv ==
  /\ pc["main"] \in MainPC /\ pc["recon"] \in ReconPC
  /\ \A t \in Thread : pc[t] \in Locked => mutex = t
  /\ mutex = "main" => pc["main"] \in Locked \cup {"exited"}
  /\ mutex = "recon" => pc["recon"] \in Locked
  /\ mutex # "free" => ~started

\* A live connection has a client; a Start that is about to connect has neither.
ConnInv ==
  /\ NoLeakedConnection
  /\ conn = "live" => client = "open"
  /\ \A t \in Thread : pc[t] = "connect" => conn # "live" /\ client = "none"

\* While Run is in its Start there is no reconnect, and before it connects there was no
\* connection; and Stop has set stopped.
MainInv ==
  /\ pc["main"] \in StartPC => pc["recon"] = "none" /\ ~started /\ notifying = 0
  /\ pc["main"] \in {"lock", "connect"} => conn = "none"
  /\ pc["main"] = "stopping" => stopped

\* Callbacks of earlier clients.  A connection that died before the stub was started
\* is never replaced, and no callback matters any more.  Otherwise: a started stub
\* has a callback exactly if its client is gone, and no goroutine that would start it
\* again; a goroutine that is about to start it finds no callback left; and between
\* the two there is one callback at most, until Stop adds that of the client it closes.
CallbackInv ==
  /\ started => /\ pc["recon"] \in {"none", "clear"}
                /\ notifying = 0
                /\ closing = IF client = "open" THEN 0 ELSE 1
  /\ ~started /\ conn # "dead" =>
       /\ \/ pc["main"] \in StartPC \/ pc["recon"] \in Calling
          \/ pc["recon"] = "check" /\ ~stopped
          => closing = 0 /\ notifying = 0
       /\ ~stopped => closing + notifying <= 1

NRIInv ==
  TypeOK /\ MutexInv /\ ConnInv /\ MainInv /\ CallbackInv /\ ReconnectAccounted

----------------------------------------------------------------------------
\* A step, by the action it is.
LEMMA NextSplit ==
  ASSUME NEW P, [Next]_vars,
         ASSUME NEW t \in Thread, StartLock(t) PROVE P,
         ASSUME NEW t \in Thread, Connect(t) PROVE P,
         ASSUME NEW t \in Thread, Register(t) PROVE P,
         ASSUME NEW t \in Thread, RegisterFails(t) PROVE P,
         ASSUME NEW t \in Thread, Configured(t) PROVE P,
         ClientEnds => P, ConnClosed => P, OnClose => P,
         Reconnect => P, Signal => P, StopStub => P, Exit => P,
         Drop => P, EngineUp => P, UNCHANGED vars => P
  PROVE  P
  BY DEF Next, StubStart, Callback

\* The initial state satisfies the inductive invariant.
LEMMA InitInv == Init => NRIInv
<1> SUFFICES ASSUME Init PROVE NRIInv
  OBVIOUS
<1> USE DEF Init, Thread, StartPC
<1>1. TypeOK
  <2>1. drops \in 0 .. MaxDrops /\ timeouts \in 0 .. MaxRegisterTimeouts
    BY BoundsAssumption
  <2>2. pc \in [Thread -> PC]
    BY DEF PC
  <2> QED BY <2>1, <2>2 DEF TypeOK
<1>2. MutexInv /\ ConnInv /\ MainInv /\ CallbackInv /\ ReconnectAccounted
  BY DEF MutexInv, MainPC, ReconPC, Locked, ConnInv, NoLeakedConnection, MainInv,
     CallbackInv, Calling, ReconnectAccounted
<1> QED BY <1>1, <1>2 DEF NRIInv

\* Every step keeps the types.
LEMMA StepType == NRIInv /\ [Next]_vars => TypeOK'
<1> SUFFICES ASSUME NRIInv, [Next]_vars PROVE TypeOK'
  OBVIOUS
<1> USE DEF NRIInv, TypeOK, MutexInv, MainPC, ReconPC, Locked, Thread, StartPC, Goto, Alive,
        plugin, stub, callbacks, faults
<1>1. ASSUME NEW t \in Thread, StartLock(t) PROVE TypeOK'
  BY <1>1 DEF StartLock, StartFailed, PC
<1>2. ASSUME NEW t \in Thread, Connect(t) PROVE TypeOK'
  BY <1>2 DEF Connect, StartFailed, PC
<1>3. ASSUME NEW t \in Thread, Register(t) PROVE TypeOK'
  BY <1>3 DEF Register, PC
<1>4. ASSUME NEW t \in Thread, RegisterFails(t) PROVE TypeOK'
  <2>1. closing' \in Nat /\ timeouts' \in 0 .. MaxRegisterTimeouts
    BY <1>4, BoundsAssumption DEF RegisterFails, StartFailed
  <2>2. pc' \in [Thread -> PC]
    BY <1>4 DEF RegisterFails, StartFailed, PC
  <2> QED BY <1>4, <2>1, <2>2 DEF RegisterFails, StartFailed
<1>5. ASSUME NEW t \in Thread, Configured(t) PROVE TypeOK'
  BY <1>5 DEF Configured, StartSucceeded, PC
<1>6. ASSUME ClientEnds PROVE TypeOK'
  BY <1>6 DEF ClientEnds, PC
<1>7. ASSUME ConnClosed PROVE TypeOK'
  <2>1. closing' \in Nat /\ notifying' \in Nat
    BY <1>7 DEF ConnClosed, Close
  <2>2. pc' \in [Thread -> PC]
    BY <1>7 DEF ConnClosed, Close, PC
  <2> QED BY <1>7, <2>1, <2>2 DEF ConnClosed, Close
<1>8. ASSUME OnClose PROVE TypeOK'
  <2>1. notifying' \in Nat
    BY <1>8 DEF OnClose
  <2>2. pc' \in [Thread -> PC]
    BY <1>8 DEF OnClose, PC
  <2> QED BY <1>8, <2>1, <2>2 DEF OnClose
<1>9. ASSUME Reconnect PROVE TypeOK'
  BY <1>9 DEF Reconnect, CheckStopped, BackoffOver, RetryOrStop, ClearInProgress, PC
<1>10. ASSUME Signal PROVE TypeOK'
  BY <1>10 DEF Signal, PC
<1>11. ASSUME StopStub PROVE TypeOK'
  <2>1. closing' \in Nat
    BY <1>11 DEF StopStub, Close
  <2>2. pc' \in [Thread -> PC]
    BY <1>11 DEF StopStub, Close, PC
  <2> QED BY <1>11, <2>1, <2>2 DEF StopStub, Close
<1>12. ASSUME Exit PROVE TypeOK'
  BY <1>12 DEF Exit, PC
<1>13. ASSUME Drop PROVE TypeOK'
  <2>1. drops' \in 0 .. MaxDrops
    BY <1>13, BoundsAssumption DEF Drop
  <2>2. pc' \in [Thread -> PC]
    BY <1>13 DEF Drop, PC
  <2> QED BY <1>13, <2>1, <2>2 DEF Drop
<1>14. ASSUME EngineUp PROVE TypeOK'
  BY <1>14 DEF EngineUp, PC
<1>15. ASSUME UNCHANGED vars PROVE TypeOK'
  BY <1>15 DEF vars, PC
<1> QED BY <1>1, <1>2, <1>3, <1>4, <1>5, <1>6, <1>7, <1>8, <1>9, <1>10, <1>11, <1>12, <1>13, <1>14, <1>15, NextSplit

\* Every step keeps the mutex with the goroutine that is in Start.
LEMMA StepMutexInv == NRIInv /\ [Next]_vars => MutexInv'
<1> SUFFICES ASSUME NRIInv, [Next]_vars PROVE MutexInv'
  OBVIOUS
<1> USE DEF NRIInv, TypeOK, MutexInv, MainPC, ReconPC, Locked, Thread, StartPC, Goto, Alive,
        plugin, stub, callbacks, faults
<1>1. ASSUME NEW t \in Thread, StartLock(t) PROVE MutexInv'
  BY <1>1 DEF StartLock, StartFailed
<1>2. ASSUME NEW t \in Thread, Connect(t) PROVE MutexInv'
  BY <1>2 DEF Connect, StartFailed
<1>3. ASSUME NEW t \in Thread, Register(t) PROVE MutexInv'
  BY <1>3 DEF Register
<1>4. ASSUME NEW t \in Thread, RegisterFails(t) PROVE MutexInv'
  BY <1>4 DEF RegisterFails, StartFailed
<1>5. ASSUME NEW t \in Thread, Configured(t) PROVE MutexInv'
  BY <1>5 DEF Configured, StartSucceeded
<1>6. ASSUME ClientEnds PROVE MutexInv'
  BY <1>6 DEF ClientEnds
<1>7. ASSUME ConnClosed PROVE MutexInv'
  BY <1>7 DEF ConnClosed, Close
<1>8. ASSUME OnClose PROVE MutexInv'
  BY <1>8 DEF OnClose, ReconnectAccounted
<1>9. ASSUME Reconnect PROVE MutexInv'
  BY <1>9 DEF Reconnect, CheckStopped, BackoffOver, RetryOrStop, ClearInProgress
<1>10. ASSUME Signal PROVE MutexInv'
  BY <1>10 DEF Signal
<1>11. ASSUME StopStub PROVE MutexInv'
  BY <1>11 DEF StopStub, Close
<1>12. ASSUME Exit PROVE MutexInv'
  BY <1>12 DEF Exit
<1>13. ASSUME Drop PROVE MutexInv'
  BY <1>13 DEF Drop
<1>14. ASSUME EngineUp PROVE MutexInv'
  BY <1>14 DEF EngineUp
<1>15. ASSUME UNCHANGED vars PROVE MutexInv'
  BY <1>15 DEF vars
<1> QED BY <1>1, <1>2, <1>3, <1>4, <1>5, <1>6, <1>7, <1>8, <1>9, <1>10, <1>11, <1>12, <1>13, <1>14, <1>15, NextSplit

\* Every step keeps connection and client together.
LEMMA StepConnInv == NRIInv /\ [Next]_vars => ConnInv'
<1> SUFFICES ASSUME NRIInv, [Next]_vars PROVE ConnInv'
  OBVIOUS
<1> USE DEF NRIInv, TypeOK, MutexInv, MainPC, ReconPC, Locked, Thread, StartPC, Goto, Alive,
        plugin, stub, callbacks, faults
<1>1. ASSUME NEW t \in Thread, StartLock(t) PROVE ConnInv'
  BY <1>1 DEF StartLock, StartFailed, ConnInv, NoLeakedConnection
<1>2. ASSUME NEW t \in Thread, Connect(t) PROVE ConnInv'
  BY <1>2 DEF Connect, StartFailed, ConnInv, NoLeakedConnection
<1>3. ASSUME NEW t \in Thread, Register(t) PROVE ConnInv'
  BY <1>3 DEF Register, ConnInv, NoLeakedConnection
<1>4. ASSUME NEW t \in Thread, RegisterFails(t) PROVE ConnInv'
  BY <1>4 DEF RegisterFails, StartFailed, ConnInv, NoLeakedConnection
<1>5. ASSUME NEW t \in Thread, Configured(t) PROVE ConnInv'
  BY <1>5 DEF Configured, StartSucceeded, ConnInv, NoLeakedConnection
<1>6. ASSUME ClientEnds PROVE ConnInv'
  BY <1>6 DEF ClientEnds, ConnInv, NoLeakedConnection
<1>7. ASSUME ConnClosed PROVE ConnInv'
  BY <1>7 DEF ConnClosed, Close, ConnInv, NoLeakedConnection
<1>8. ASSUME OnClose PROVE ConnInv'
  BY <1>8 DEF OnClose, ConnInv, NoLeakedConnection
<1>9. ASSUME Reconnect PROVE ConnInv'
  BY <1>9 DEF Reconnect, CheckStopped, BackoffOver, RetryOrStop, ClearInProgress, ConnInv, NoLeakedConnection
<1>10. ASSUME Signal PROVE ConnInv'
  BY <1>10 DEF Signal, ConnInv, NoLeakedConnection
<1>11. ASSUME StopStub PROVE ConnInv'
  BY <1>11 DEF StopStub, Close, ConnInv, NoLeakedConnection
<1>12. ASSUME Exit PROVE ConnInv'
  BY <1>12 DEF Exit, ConnInv, NoLeakedConnection
<1>13. ASSUME Drop PROVE ConnInv'
  BY <1>13 DEF Drop, ConnInv, NoLeakedConnection
<1>14. ASSUME EngineUp PROVE ConnInv'
  BY <1>14 DEF EngineUp, ConnInv, NoLeakedConnection
<1>15. ASSUME UNCHANGED vars PROVE ConnInv'
  BY <1>15 DEF vars, ConnInv, NoLeakedConnection
<1> QED BY <1>1, <1>2, <1>3, <1>4, <1>5, <1>6, <1>7, <1>8, <1>9, <1>10, <1>11, <1>12, <1>13, <1>14, <1>15, NextSplit

\* No reconnect begins before Run has left its Start.
LEMMA StepMainInv == NRIInv /\ [Next]_vars => MainInv'
<1> SUFFICES ASSUME NRIInv, [Next]_vars PROVE MainInv'
  OBVIOUS
<1> USE DEF NRIInv, TypeOK, MutexInv, MainPC, ReconPC, Locked, Thread, StartPC, Goto, Alive,
        plugin, stub, callbacks, faults
<1>1. ASSUME NEW t \in Thread, StartLock(t) PROVE MainInv'
  BY <1>1 DEF StartLock, StartFailed, MainInv, CallbackInv, ReconnectAccounted
<1>2. ASSUME NEW t \in Thread, Connect(t) PROVE MainInv'
  BY <1>2 DEF Connect, StartFailed, MainInv, CallbackInv, ReconnectAccounted
<1>3. ASSUME NEW t \in Thread, Register(t) PROVE MainInv'
  BY <1>3 DEF Register, MainInv, CallbackInv, ReconnectAccounted
<1>4. ASSUME NEW t \in Thread, RegisterFails(t) PROVE MainInv'
  BY <1>4 DEF RegisterFails, StartFailed, MainInv, CallbackInv, ReconnectAccounted
<1>5. ASSUME NEW t \in Thread, Configured(t) PROVE MainInv'
  BY <1>5 DEF Configured, StartSucceeded, MainInv, CallbackInv, ReconnectAccounted
<1>6. ASSUME ClientEnds PROVE MainInv'
  BY <1>6 DEF ClientEnds, MainInv, CallbackInv, ReconnectAccounted
<1>7. ASSUME ConnClosed PROVE MainInv'
  BY <1>7 DEF ConnClosed, Close, MainInv, CallbackInv, ReconnectAccounted
<1>8. ASSUME OnClose PROVE MainInv'
  BY <1>8 DEF OnClose, MainInv, CallbackInv, ReconnectAccounted
<1>9. ASSUME Reconnect PROVE MainInv'
  BY <1>9 DEF Reconnect, CheckStopped, BackoffOver, RetryOrStop, ClearInProgress, MainInv, CallbackInv, ReconnectAccounted
<1>10. ASSUME Signal PROVE MainInv'
  BY <1>10 DEF Signal, MainInv, CallbackInv, ReconnectAccounted
<1>11. ASSUME StopStub PROVE MainInv'
  BY <1>11 DEF StopStub, Close, MainInv, CallbackInv, ReconnectAccounted
<1>12. ASSUME Exit PROVE MainInv'
  BY <1>12 DEF Exit, MainInv, CallbackInv, ReconnectAccounted
<1>13. ASSUME Drop PROVE MainInv'
  BY <1>13 DEF Drop, MainInv, CallbackInv, ReconnectAccounted
<1>14. ASSUME EngineUp PROVE MainInv'
  BY <1>14 DEF EngineUp, MainInv, CallbackInv, ReconnectAccounted
<1>15. ASSUME UNCHANGED vars PROVE MainInv'
  BY <1>15 DEF vars, MainInv, CallbackInv, ReconnectAccounted
<1> QED BY <1>1, <1>2, <1>3, <1>4, <1>5, <1>6, <1>7, <1>8, <1>9, <1>10, <1>11, <1>12, <1>13, <1>14, <1>15, NextSplit

\* Every step keeps count of the callbacks that are on their way.
LEMMA StepCallbackInv == NRIInv /\ [Next]_vars => CallbackInv'
<1> SUFFICES ASSUME NRIInv, [Next]_vars PROVE CallbackInv'
  OBVIOUS
<1> USE DEF NRIInv, TypeOK, MutexInv, MainPC, ReconPC, Locked, Thread, StartPC, Goto, Alive,
        plugin, stub, callbacks, faults
<1>1. ASSUME NEW t \in Thread, StartLock(t) PROVE CallbackInv'
  BY <1>1 DEF StartLock, StartFailed, ConnInv, NoLeakedConnection, MainInv, CallbackInv, Calling
<1>2. ASSUME NEW t \in Thread, Connect(t) PROVE CallbackInv'
  BY <1>2 DEF Connect, StartFailed, ConnInv, NoLeakedConnection, MainInv, CallbackInv, Calling
<1>3. ASSUME NEW t \in Thread, Register(t) PROVE CallbackInv'
  BY <1>3 DEF Register, ConnInv, NoLeakedConnection, MainInv, CallbackInv, Calling
<1>4. ASSUME NEW t \in Thread, RegisterFails(t) PROVE CallbackInv'
  BY <1>4 DEF RegisterFails, StartFailed, ConnInv, NoLeakedConnection, MainInv, CallbackInv, Calling
<1>5. ASSUME NEW t \in Thread, Configured(t) PROVE CallbackInv'
  BY <1>5 DEF Configured, StartSucceeded, ConnInv, NoLeakedConnection, MainInv, CallbackInv, Calling
<1>6. ASSUME ClientEnds PROVE CallbackInv'
  BY <1>6 DEF ClientEnds, ConnInv, NoLeakedConnection, MainInv, CallbackInv, Calling
<1>7. ASSUME ConnClosed PROVE CallbackInv'
  BY <1>7 DEF ConnClosed, Close, ConnInv, NoLeakedConnection, MainInv, CallbackInv, Calling
<1>8. ASSUME OnClose PROVE CallbackInv'
  BY <1>8 DEF OnClose, ConnInv, NoLeakedConnection, MainInv, CallbackInv, Calling
<1>9. ASSUME Reconnect PROVE CallbackInv'
  BY <1>9 DEF Reconnect, CheckStopped, BackoffOver, RetryOrStop, ClearInProgress, ConnInv, NoLeakedConnection, MainInv, CallbackInv, Calling
<1>10. ASSUME Signal PROVE CallbackInv'
  BY <1>10 DEF Signal, ConnInv, NoLeakedConnection, MainInv, CallbackInv, Calling
<1>11. ASSUME StopStub PROVE CallbackInv'
  BY <1>11 DEF StopStub, Close, ConnInv, NoLeakedConnection, MainInv, CallbackInv, Calling
<1>12. ASSUME Exit PROVE CallbackInv'
  BY <1>12 DEF Exit, ConnInv, NoLeakedConnection, MainInv, CallbackInv, Calling
<1>13. ASSUME Drop PROVE CallbackInv'
  BY <1>13 DEF Drop, ConnInv, NoLeakedConnection, MainInv, CallbackInv, Calling
<1>14. ASSUME EngineUp PROVE CallbackInv'
  BY <1>14 DEF EngineUp, ConnInv, NoLeakedConnection, MainInv, CallbackInv, Calling
<1>15. ASSUME UNCHANGED vars PROVE CallbackInv'
  BY <1>15 DEF vars, ConnInv, NoLeakedConnection, MainInv, CallbackInv, Calling
<1> QED BY <1>1, <1>2, <1>3, <1>4, <1>5, <1>6, <1>7, <1>8, <1>9, <1>10, <1>11, <1>12, <1>13, <1>14, <1>15, NextSplit

\* Every step keeps reconnectInProgress in step with the goroutine.
LEMMA StepAccounted == NRIInv /\ [Next]_vars => ReconnectAccounted'
<1> SUFFICES ASSUME NRIInv, [Next]_vars PROVE ReconnectAccounted'
  OBVIOUS
<1> USE DEF NRIInv, TypeOK, MutexInv, MainPC, ReconPC, Locked, Thread, StartPC, Goto, Alive,
        plugin, stub, callbacks, faults
<1>1. ASSUME NEW t \in Thread, StartLock(t) PROVE ReconnectAccounted'
  BY <1>1 DEF StartLock, StartFailed, MainInv, ReconnectAccounted
<1>2. ASSUME NEW t \in Thread, Connect(t) PROVE ReconnectAccounted'
  BY <1>2 DEF Connect, StartFailed, MainInv, ReconnectAccounted
<1>3. ASSUME NEW t \in Thread, Register(t) PROVE ReconnectAccounted'
  BY <1>3 DEF Register, MainInv, ReconnectAccounted
<1>4. ASSUME NEW t \in Thread, RegisterFails(t) PROVE ReconnectAccounted'
  BY <1>4 DEF RegisterFails, StartFailed, MainInv, ReconnectAccounted
<1>5. ASSUME NEW t \in Thread, Configured(t) PROVE ReconnectAccounted'
  BY <1>5 DEF Configured, StartSucceeded, MainInv, ReconnectAccounted
<1>6. ASSUME ClientEnds PROVE ReconnectAccounted'
  BY <1>6 DEF ClientEnds, MainInv, ReconnectAccounted
<1>7. ASSUME ConnClosed PROVE ReconnectAccounted'
  BY <1>7 DEF ConnClosed, Close, MainInv, ReconnectAccounted
<1>8. ASSUME OnClose PROVE ReconnectAccounted'
  BY <1>8 DEF OnClose, MainInv, ReconnectAccounted
<1>9. ASSUME Reconnect PROVE ReconnectAccounted'
  BY <1>9 DEF Reconnect, CheckStopped, BackoffOver, RetryOrStop, ClearInProgress, MainInv, ReconnectAccounted
<1>10. ASSUME Signal PROVE ReconnectAccounted'
  BY <1>10 DEF Signal, MainInv, ReconnectAccounted
<1>11. ASSUME StopStub PROVE ReconnectAccounted'
  BY <1>11 DEF StopStub, Close, MainInv, ReconnectAccounted
<1>12. ASSUME Exit PROVE ReconnectAccounted'
  BY <1>12 DEF Exit, MainInv, ReconnectAccounted
<1>13. ASSUME Drop PROVE ReconnectAccounted'
  BY <1>13 DEF Drop, MainInv, ReconnectAccounted
<1>14. ASSUME EngineUp PROVE ReconnectAccounted'
  BY <1>14 DEF EngineUp, MainInv, ReconnectAccounted
<1>15. ASSUME UNCHANGED vars PROVE ReconnectAccounted'
  BY <1>15 DEF vars, MainInv, ReconnectAccounted
<1> QED BY <1>1, <1>2, <1>3, <1>4, <1>5, <1>6, <1>7, <1>8, <1>9, <1>10, <1>11, <1>12, <1>13, <1>14, <1>15, NextSplit

----------------------------------------------------------------------------
\* NRIInv is an invariant: the parts are proved together, because what is known of
\* callbacks rests on the mutex, on the connection and on where the goroutines are.
THEOREM NRIInvariant == Spec => []NRIInv
<1>1. Init => NRIInv
  BY InitInv
<1>2. NRIInv /\ [Next]_vars => NRIInv'
  BY StepType, StepMutexInv, StepConnInv, StepMainInv, StepCallbackInv, StepAccounted
  DEF NRIInv
<1> QED BY <1>1, <1>2, PTL DEF Spec

\* The variables keep their types.
THEOREM TypeCorrect == Spec => []TypeOK
<1>1. NRIInv => TypeOK
  BY DEF NRIInv
<1> QED BY <1>1, NRIInvariant, PTL

\* Neither a failed Start nor close leaves an open connection (stub.go:380-427, 481-505).
THEOREM ConnectionsDoNotLeak == Spec => []NoLeakedConnection
<1>1. NRIInv => NoLeakedConnection
  BY DEF NRIInv, ConnInv
<1> QED BY <1>1, NRIInvariant, PTL

\* A started stub that has lost its client has a callback to report it (stub.go:416-421,
\* 600-608).
THEOREM LossesAreReported == Spec => []LostClientIsReported
<1>1. NRIInv => LostClientIsReported
  BY DEF NRIInv, CallbackInv, LostClientIsReported
<1> QED BY <1>1, NRIInvariant, PTL

\* No callback of an earlier client closes the connection of a later one (stub.go:600).
THEOREM CallbacksAreNotStale == Spec => []NoStaleCallback
<1>1. NRIInv => NoStaleCallback
  BY DEF NRIInv, CallbackInv, NoStaleCallback
<1> QED BY <1>1, NRIInvariant, PTL

\* There is never more than one reconnect goroutine (plugin.go:56-57, 157-161).
THEOREM OneReconnect == Spec => []ReconnectAccounted
<1>1. NRIInv => ReconnectAccounted
  BY DEF NRIInv
<1> QED BY <1>1, NRIInvariant, PTL
============================================================================
