-------------------------- MODULE SupervisorProofs --------------------------
(***************************************************************************)
(* Safety of Supervisor for any number of connections, of the process that *)
(* runs it (TunnelServer), of the log streams of its management service    *)
(* for any number of clients (ManagementLogs), and of the lock files that  *)
(* any number of Access processes share (AccessTokens).                    *)
(***************************************************************************)
EXTENDS Supervisor, TunnelServer, ManagementLogs, AccessTokens, FiniteSetTheorems, TLAPS

\* While initialize runs nothing waits, and exactly the connections it has
\* started have a goroutine.
InitPhase ==
    run \in {"init", "cancelledInit", "starting"} =>
        /\ waiting = {} /\ ~timer /\ ~initByEnd
        /\ run # "starting" => started = 1 /\ connecting = {} /\ nextConnected = None
        /\ \A i \in Conns : gor[i] # "none" <=> i < started

\* After initialize took the end of the first tunnel for a connection, there
\* is no goroutine at all, and the program is being shut down.
EndedPhase ==
    initByEnd =>
        /\ graceful /\ run \in {"loop", "draining", "returned"}
        /\ waiting = {} /\ ~timer /\ connecting = {} /\ nextConnected = None
        /\ \A i \in Conns : gor[i] = "none"

\* A tunnel ends with nil only in a shutdown, of which Run may know.
ErrInv ==
    /\ \A i \in Conns : gor[i] \in {"backoff", "sending"} /\ err[i] = "nil" => graceful
    /\ shuttingDown => graceful

\* The backoff timer is set exactly while tunnels wait.
TimerInv == run = "loop" => (timer <=> waiting # {})

Kept ==
    run = "loop" /\ ~graceful /\ ~ctxDone => \A i \in Conns : i \in Live \/ i \in waiting

\* A running tunnel whose signal Run has not seen is in tunnelsConnecting, and
\* Run watches one of those.
SignalInv ==
    /\ nextConnected = None => connecting = {}
    /\ run \in {"starting", "loop"} /\ ~initByEnd =>
          \A i \in Live : sig[i] = "closed" \/ i \in connecting

IInv ==
    /\ TypeOK /\ InitPhase /\ EndedPhase /\ ErrInv /\ TimerInv /\ Kept
    /\ SignalInv /\ ActiveIsLive

USE HAAssumption

\* A set of connections is finite and has at most HAConnections members.
LEMMA ConnsCard ==
  ASSUME NEW S \in SUBSET Conns
  PROVE  IsFiniteSet(S) /\ Cardinality(S) \in 0 .. HAConnections
<1>1. 0 \in Int /\ HAConnections - 1 \in Int OBVIOUS
<1>2. IsFiniteSet(Conns) /\ Cardinality(Conns) = HAConnections
  BY <1>1, FS_Interval DEF Conns
<1>3. IsFiniteSet(S) /\ Cardinality(S) <= Cardinality(Conns)
  BY <1>2, FS_Subset
<1>4. Cardinality(S) \in Nat BY <1>3, FS_CardinalityType
<1> QED BY <1>2, <1>3, <1>4

\* All connections are HAConnections many.
LEMMA AllConns == Cardinality(Conns) = HAConnections
<1>1. 0 \in Int /\ HAConnections - 1 \in Int OBVIOUS
<1> QED BY <1>1, FS_Interval DEF Conns

\* Receiving the error of a tunnel ends one goroutine.
LEMMA ReceivedTakesOne ==
  ASSUME TypeOK, NEW i \in Conns, gor[i] = "sending", Received(i)
  PROVE  /\ Live' = Live \ {i} /\ i \in Live
         /\ Cardinality(Live') = Cardinality(Live) - 1
         /\ Cardinality(Live) \in 1 .. HAConnections
<1>1. Live' = Live \ {i} /\ i \in Live BY DEF Live, Received, TypeOK
<1>2. Live \in SUBSET Conns BY DEF Live
<1>3. IsFiniteSet(Live) /\ Cardinality(Live) \in 0 .. HAConnections BY <1>2, ConnsCard
<1>4. Cardinality(Live') = Cardinality(Live) - 1 BY <1>1, <1>3, FS_RemoveElement
<1>5. Cardinality(Live) # 0 BY <1>1, <1>3, FS_EmptySet
<1> QED BY <1>1, <1>3, <1>4, <1>5

\* waitForNextTunnel chooses a connecting tunnel unless there is none.
LEMMA NextIsConnecting ==
  ASSUME TypeOK, NEW i, WaitForNextTunnel(i)
  PROVE  /\ connecting' = connecting \ {i} /\ connecting' \subseteq Conns
         /\ nextConnected' \in Conns \cup {None}
         /\ nextConnected' = None <=> connecting' = {}
<1>1. \A j \in Conns : j # None BY DEF Conns
<1>2. connecting' = connecting \ {i} /\ connecting' \subseteq Conns
  BY DEF WaitForNextTunnel, TypeOK
<1> QED BY <1>1, <1>2 DEF WaitForNextTunnel

\* Run starts with the goroutine of the first tunnel only.
LEMMA InitIInv == Init => IInv
<1> SUFFICES ASSUME Init PROVE IInv OBVIOUS
<1>1. TypeOK
  <2>1. started \in 1 .. HAConnections /\ active \in 0 .. HAConnections BY DEF Init
  <2>2. /\ gor \in [Conns -> {"none", "serving", "connected", "backoff", "sending"}]
        /\ err \in [Conns -> Errs] /\ sig \in [Conns -> {"open", "fused", "closed"}]
    BY DEF Init, Errs
  <2> QED BY <2>1, <2>2 DEF Init, TypeOK
<1>2. InitPhase BY DEF Init, InitPhase, Conns
<1>3. EndedPhase /\ ErrInv /\ TimerInv /\ Kept /\ SignalInv /\ ActiveIsLive
  BY DEF Init, EndedPhase, ErrInv, TimerInv, Kept, SignalInv, ActiveIsLive
<1> QED BY <1>1, <1>2, <1>3 DEF IInv

\* A step of a connection neither starts nor ends its goroutine, and changes
\* nothing of Run.
LEMMA GoroutineIInv ==
  ASSUME IInv, NEW i \in Conns, Goroutine(i)
  PROVE  IInv'
<1> USE DEF IInv
<1>1. UNCHANGED <<mainVars, connVars, envVars>>
  BY DEF Goroutine, Connect, Notify, NoAddress, BackoffEnds, ServeEnds
<1>2. /\ gor' \in [Conns -> {"none", "serving", "connected", "backoff", "sending"}]
      /\ \A j \in Conns : gor'[j] = "none" <=> gor[j] = "none"
  BY DEF Goroutine, Connect, Notify, NoAddress, BackoffEnds, ServeEnds, Returned, TypeOK
<1>3. err' \in [Conns -> Errs]
  BY DEF Goroutine, Connect, Notify, NoAddress, BackoffEnds, ServeEnds, Returned, TypeOK, Errs
<1>4. /\ sig' \in [Conns -> {"open", "fused", "closed"}]
      /\ \A j \in Conns : sig[j] = "closed" => sig'[j] = "closed"
      /\ firstLoop' = firstLoop
  BY DEF Goroutine, Connect, Notify, NoAddress, BackoffEnds, ServeEnds, TypeOK
<1>5. Live' = Live BY <1>2 DEF Live
<1>6. TypeOK' BY <1>1, <1>2, <1>3, <1>4 DEF TypeOK, mainVars, connVars, envVars
<1>7. ErrInv'
  BY <1>1 DEF ErrInv, TypeOK, mainVars, envVars, Goroutine, Connect, Notify,
     NoAddress, BackoffEnds, ServeEnds, Returned
<1>8. InitPhase' /\ EndedPhase' BY <1>1, <1>2 DEF InitPhase, EndedPhase, mainVars, connVars, envVars
<1>9. TimerInv' /\ Kept' /\ ActiveIsLive'
  BY <1>1, <1>5 DEF TimerInv, Kept, ActiveIsLive, mainVars, connVars, envVars
<1>10. SignalInv'
  <2>1. Live \subseteq Conns BY DEF Live
  <2> QED BY <1>1, <1>4, <1>5, <2>1 DEF SignalInv, mainVars, connVars
<1> QED BY <1>6, <1>7, <1>8, <1>9, <1>10

\* The steps of initialize keep the invariant.
LEMMA InitializeIInv ==
  ASSUME IInv,
         \/ InitConnected \/ InitFirstEnds \/ InitShutdown \/ InitCancelled
         \/ CancelledInitReceives \/ StartNext \/ EnterLoop
  PROVE  IInv'
<1> USE DEF IInv, mainVars, connVars, gorVars, envVars
<1>0. 0 \in Conns /\ \A i \in Conns : i \in Nat /\ i < HAConnections BY DEF Conns
<1>1. CASE InitConnected
  <2>1. Live = {0} BY <1>0, <1>1 DEF InitConnected, InitPhase, Live, Conns
  <2> QED BY <1>1, <2>1 DEF InitConnected, TypeOK, InitPhase, EndedPhase, ErrInv,
             TimerInv, Kept, SignalInv, ActiveIsLive, Live
<1>2. CASE InitFirstEnds
  <2>1. /\ gor' \in [Conns -> {"none", "serving", "connected", "backoff", "sending"}]
        /\ \A j \in Conns : gor'[j] = "none"
        /\ err' \in [Conns -> Errs]
    BY <1>0, <1>2 DEF InitFirstEnds, Received, InitPhase, TypeOK, Errs, Conns
  <2>2. ErrInv' BY <1>2, <2>1 DEF InitFirstEnds, ErrInv
  <2>3. CASE err[0] = "nil"
    <3>1. graceful BY <1>0, <1>2, <2>3 DEF InitFirstEnds, ErrInv
    <3> QED BY <1>2, <2>1, <2>2, <2>3, <3>1 DEF InitFirstEnds, TypeOK, InitPhase, EndedPhase,
             TimerInv, Kept, SignalInv, ActiveIsLive
  <2>4. CASE err[0] # "nil"
    BY <1>2, <2>1, <2>2, <2>4 DEF InitFirstEnds, TypeOK, InitPhase, EndedPhase,
             TimerInv, Kept, SignalInv, ActiveIsLive
  <2> QED BY <2>3, <2>4
<1>3. CASE InitShutdown
  BY <1>3 DEF InitShutdown, TypeOK, InitPhase, EndedPhase, ErrInv, TimerInv, Kept,
     SignalInv, ActiveIsLive, Live
<1>4. CASE InitCancelled
  BY <1>4 DEF InitCancelled, TypeOK, InitPhase, EndedPhase, ErrInv, TimerInv, Kept,
     SignalInv, ActiveIsLive, Live
<1>5. CASE CancelledInitReceives
  <2>1. /\ gor' \in [Conns -> {"none", "serving", "connected", "backoff", "sending"}]
        /\ err' \in [Conns -> Errs]
        /\ \A j \in Conns : gor'[j] # "none" => gor'[j] = gor[j] /\ err'[j] = err[j]
    BY <1>0, <1>5 DEF CancelledInitReceives, Received, TypeOK, Errs
  <2> QED BY <1>5, <2>1 DEF CancelledInitReceives, TypeOK, InitPhase, EndedPhase,
             ErrInv, TimerInv, Kept, SignalInv, ActiveIsLive
<1>6. CASE StartNext
  <2>1. started \in Conns /\ started + 1 \in 1 .. HAConnections
    BY <1>6 DEF StartNext, TypeOK, Conns
  <2>2. /\ gor' \in [Conns -> {"none", "serving", "connected", "backoff", "sending"}]
        /\ \A j \in Conns : gor'[j] # "none" <=> j < started + 1
    BY <1>0, <1>6, <2>1 DEF StartNext, StartTunnels, TypeOK, InitPhase, Conns
  <2>3. TypeOK' BY <1>6, <2>1, <2>2 DEF StartNext, StartTunnels, TypeOK, Errs
  <2>4. InitPhase' BY <1>6, <2>2 DEF StartNext, StartTunnels, InitPhase
  <2>5. ErrInv' BY <1>6 DEF StartNext, StartTunnels, ErrInv, TypeOK
  <2>6. SignalInv'
    BY <1>6, <2>1 DEF StartNext, StartTunnels, SignalInv, InitPhase, Live, TypeOK, Conns
  <2> QED BY <1>6, <2>3, <2>4, <2>5, <2>6 DEF StartNext, EndedPhase, TimerInv, Kept,
             ActiveIsLive, InitPhase
<1>7. CASE EnterLoop
  <2>1. Live = Conns BY <1>0, <1>7 DEF EnterLoop, InitPhase, Live
  <2>2. Live' = Live BY <1>7 DEF EnterLoop, Live
  <2>3. ActiveIsLive' BY <1>7, <2>1, <2>2, AllConns DEF EnterLoop, ActiveIsLive, InitPhase
  <2> QED BY <1>7, <2>1, <2>2, <2>3 DEF EnterLoop, TypeOK, InitPhase, EndedPhase, ErrInv,
             TimerInv, Kept, SignalInv
<1> QED BY <1>1, <1>2, <1>3, <1>4, <1>5, <1>6, <1>7

\* Run receives an error, of a tunnel that then waits or has ended for good.
LEMMA ReceiveErrorIInv ==
  ASSUME IInv, NEW i \in Conns, ReceiveError(i)
  PROVE  IInv'
<1> USE DEF IInv, mainVars, connVars, gorVars, envVars
<1>1. run = "loop" /\ gor[i] = "sending" /\ Received(i) /\ active' = active - 1
  BY DEF ReceiveError
<1>2. ~initByEnd BY <1>1 DEF EndedPhase
<1>3. /\ Live' = Live \ {i} /\ i \in Live
      /\ Cardinality(Live') = Cardinality(Live) - 1
      /\ Cardinality(Live) \in 1 .. HAConnections
  BY <1>1, ReceivedTakesOne
<1>4. active = Cardinality(Live) /\ waiting \cap Live = {} BY <1>1, <1>2 DEF ActiveIsLive
<1>5. active' \in 0 .. HAConnections /\ active' = Cardinality(Live') BY <1>1, <1>3, <1>4
<1>6. /\ gor' \in [Conns -> {"none", "serving", "connected", "backoff", "sending"}]
      /\ err' \in [Conns -> Errs]
      /\ \A j \in Conns : gor'[j] # "none" => gor'[j] = gor[j] /\ err'[j] = err[j]
  BY <1>1 DEF Received, TypeOK, Errs
<1>7. UNCHANGED <<envVars, sig, firstLoop, started, shuttingDown, initByEnd>>
  BY DEF ReceiveError
<1>8. ErrInv' BY <1>6, <1>7 DEF ErrInv
<1>9. Live \subseteq Conns BY DEF Live
<1>10. CASE err[i] # "nil" /\ ~shuttingDown /\ ~ctxDone
  <2>1. /\ run' = run /\ waiting' = waiting \cup {i} /\ timer' = TRUE /\ grace' \in BOOLEAN
        /\ WaitForNextTunnel(i)
    BY <1>10 DEF ReceiveError, BackoffTimer, TypeOK
  <2>2. /\ connecting' = connecting \ {i} /\ nextConnected' \in Conns \cup {None}
        /\ nextConnected' = None => connecting' = {}
    BY <2>1, NextIsConnecting
  <2>3. TypeOK' BY <1>5, <1>6, <1>7, <2>1, <2>2 DEF TypeOK
  <2>4. SignalInv' BY <1>1, <1>2, <1>3, <1>7, <2>1, <2>2 DEF SignalInv
  <2>5. ActiveIsLive' BY <1>3, <1>4, <1>5, <2>1 DEF ActiveIsLive
  <2>6. Kept' BY <1>1, <1>3, <1>7, <2>1 DEF Kept
  <2> QED BY <1>1, <1>2, <1>7, <1>8, <2>1, <2>3, <2>4, <2>5, <2>6
          DEF InitPhase, EndedPhase, TimerInv
<1>11. CASE ~(err[i] # "nil" /\ ~shuttingDown /\ ~ctxDone)
  <2>1. UNCHANGED <<connVars, waiting, timer, grace>> /\ run' \in {run, "returned"}
    BY <1>11 DEF ReceiveError
  <2>2. graceful \/ ctxDone BY <1>1, <1>11 DEF ErrInv
  <2>3. TypeOK' BY <1>1, <1>5, <1>6, <1>7, <2>1 DEF TypeOK
  <2>4. SignalInv' BY <1>1, <1>2, <1>3, <1>7, <2>1 DEF SignalInv
  <2>5. ActiveIsLive' BY <1>3, <1>4, <1>5, <2>1 DEF ActiveIsLive
  <2>6. Kept' BY <1>7, <2>2 DEF Kept
  <2> QED BY <1>1, <1>2, <1>7, <1>8, <2>1, <2>3, <2>4, <2>5, <2>6
          DEF InitPhase, EndedPhase, TimerInv
<1> QED BY <1>10, <1>11

\* A tunnel that asked to reconnect is started again; their number stays.
LEMMA ReceiveReconnectIInv ==
  ASSUME IInv, NEW i \in Conns, ReceiveReconnect(i)
  PROVE  IInv'
<1> USE DEF IInv, mainVars, connVars, gorVars, envVars
<1>1. /\ run = "loop" /\ gor[i] = "sending" /\ StartTunnels({i}, i)
      /\ UNCHANGED <<envVars, mainVars>>
  BY DEF ReceiveReconnect
<1>2. ~initByEnd BY <1>1 DEF EndedPhase
<1>3. Live' = Live BY <1>1 DEF StartTunnels, Live
<1>4. TypeOK' BY <1>1 DEF StartTunnels, TypeOK, Errs
<1>5. ErrInv' BY <1>1 DEF StartTunnels, ErrInv, TypeOK
<1>6. SignalInv'
  <2>1. \A j \in Live : j \in Conns BY DEF Live
  <2>2. i # None BY DEF Conns
  <2> QED BY <1>1, <1>2, <1>3, <2>1, <2>2 DEF StartTunnels, SignalInv
<1> QED BY <1>1, <1>2, <1>3, <1>4, <1>5, <1>6
        DEF InitPhase, EndedPhase, TimerInv, Kept, ActiveIsLive

\* The backoff timer starts every waiting tunnel; none of them was running.
LEMMA TimerFiresIInv ==
  ASSUME IInv, TimerFires
  PROVE  IInv'
<1> USE DEF IInv, mainVars, connVars, gorVars, envVars
<1>1. /\ run = "loop" /\ timer /\ timer' = FALSE /\ waiting' = {}
      /\ active' = active + Cardinality(waiting)
      /\ UNCHANGED <<envVars, run, started, shuttingDown, grace, initByEnd>>
  BY DEF TimerFires
<1>2. PICK last \in waiting : StartTunnels(waiting, last) BY DEF TimerFires
<1>3. ~initByEnd BY <1>1 DEF EndedPhase
<1>4. active = Cardinality(Live) /\ waiting \cap Live = {} BY <1>1, <1>3 DEF ActiveIsLive
<1>5. waiting \in SUBSET Conns /\ Live \in SUBSET Conns BY DEF TypeOK, Live
<1>6. Live' = Live \cup waiting BY <1>2, <1>5 DEF StartTunnels, Live
<1>7. active' = Cardinality(Live') /\ active' \in 0 .. HAConnections
  <2>1. IsFiniteSet(waiting) /\ IsFiniteSet(Live) BY <1>5, ConnsCard
  <2>2. Cardinality(waiting) \in Nat /\ Cardinality(Live) \in Nat BY <1>5, ConnsCard
  <2>3. Cardinality(Live \cap waiting) = 0 BY <1>4, FS_EmptySet
  <2>4. Cardinality(Live \cup waiting) = Cardinality(Live) + Cardinality(waiting)
    BY <2>1, <2>2, <2>3, FS_Union
  <2>5. Live \cup waiting \in SUBSET Conns BY <1>5
  <2>6. Cardinality(Live \cup waiting) \in 0 .. HAConnections BY <2>5, ConnsCard
  <2> QED BY <1>1, <1>4, <1>6, <2>4, <2>6
<1>8. TypeOK' BY <1>1, <1>2, <1>5, <1>7 DEF StartTunnels, TypeOK, Errs
<1>9. ErrInv' BY <1>1, <1>2 DEF StartTunnels, ErrInv, TypeOK
<1>10. SignalInv'
  <2>1. last # None BY <1>5 DEF Conns
  <2>2. \A j \in Live' : sig'[j] = "closed" \/ j \in connecting'
    BY <1>1, <1>2, <1>3, <1>5, <1>6 DEF StartTunnels, SignalInv
  <2> QED BY <1>1, <1>2, <2>1, <2>2 DEF StartTunnels, SignalInv
<1>11. Kept' BY <1>1, <1>6 DEF Kept
<1>12. ActiveIsLive' BY <1>1, <1>7 DEF ActiveIsLive
<1> QED BY <1>1, <1>3, <1>8, <1>9, <1>10, <1>11, <1>12 DEF InitPhase, EndedPhase, TimerInv

\* After the cancellation Run receives the error of every goroutine.
LEMMA DrainIInv ==
  ASSUME IInv, Drain
  PROVE  IInv'
<1> USE DEF IInv, mainVars, connVars, gorVars, envVars
<1>1. PICK i \in Conns : gor[i] = "sending" /\ Received(i) BY DEF Drain
<1>2. ~initByEnd BY <1>1 DEF EndedPhase
<1>3. /\ Live' = Live \ {i}
      /\ Cardinality(Live') = Cardinality(Live) - 1
      /\ Cardinality(Live) \in 1 .. HAConnections
  BY <1>1, ReceivedTakesOne
<1>4. active = Cardinality(Live) /\ waiting \cap Live = {}
  BY <1>2 DEF Drain, ActiveIsLive
<1>5. active' \in 0 .. HAConnections /\ active' = Cardinality(Live') BY <1>3, <1>4 DEF Drain
<1>6. /\ gor' \in [Conns -> {"none", "serving", "connected", "backoff", "sending"}]
      /\ err' \in [Conns -> Errs]
      /\ \A j \in Conns : gor'[j] # "none" => gor'[j] = gor[j] /\ err'[j] = err[j]
  BY <1>1 DEF Received, TypeOK, Errs
<1>7. /\ run' \in {"draining", "returned"}
      /\ UNCHANGED <<envVars, connVars, sig, firstLoop, started, shuttingDown, waiting, timer, grace, initByEnd>>
  BY DEF Drain
<1>8. TypeOK' BY <1>5, <1>6, <1>7 DEF TypeOK
<1>9. ErrInv' BY <1>6, <1>7 DEF ErrInv
<1>10. ActiveIsLive' BY <1>3, <1>4, <1>5, <1>7 DEF ActiveIsLive
<1> QED BY <1>2, <1>7, <1>8, <1>9, <1>10
        DEF InitPhase, EndedPhase, TimerInv, Kept, SignalInv

\* The other steps of Run, and those of waitToShutdown, leave the goroutines
\* alone.
LEMMA QuietIInv ==
  ASSUME IInv,
         \/ TunnelConnected \/ SeeShutdown \/ SeeCancelled \/ Shutdown \/ Cancel
         \/ UNCHANGED vars
  PROVE  IInv'
<1> USE DEF IInv, mainVars, connVars, gorVars, envVars
<1>1. UNCHANGED gorVars
  BY DEF TunnelConnected, SeeShutdown, SeeCancelled, Shutdown, Cancel, vars
<1>2. Live' = Live BY <1>1 DEF Live
<1>3. CASE TunnelConnected
  <2>1. WaitForNextTunnel(nextConnected) /\ grace' \in BOOLEAN
    BY <1>3 DEF TunnelConnected, TypeOK
  <2>2. /\ connecting' = connecting \ {nextConnected} /\ connecting' \subseteq Conns
        /\ nextConnected' \in Conns \cup {None}
        /\ nextConnected' = None <=> connecting' = {}
    BY <2>1, NextIsConnecting
  <2>3. TypeOK' BY <1>1, <1>3, <2>1, <2>2 DEF TunnelConnected, TypeOK
  <2>4. SignalInv' BY <1>1, <1>2, <1>3, <2>2 DEF TunnelConnected, SignalInv
  <2>5. ~initByEnd BY <1>3 DEF TunnelConnected, EndedPhase
  <2> QED BY <1>1, <1>2, <1>3, <2>3, <2>4, <2>5 DEF TunnelConnected, InitPhase, EndedPhase,
             ErrInv, TimerInv, Kept, ActiveIsLive
<1>4. CASE SeeShutdown
  BY <1>1, <1>2, <1>4 DEF SeeShutdown, TypeOK, InitPhase, EndedPhase, ErrInv, TimerInv,
     Kept, SignalInv, ActiveIsLive
<1>5. CASE SeeCancelled
  BY <1>1, <1>2, <1>5 DEF SeeCancelled, TypeOK, InitPhase, EndedPhase, ErrInv, TimerInv,
     Kept, SignalInv, ActiveIsLive
<1>6. CASE Shutdown \/ Cancel
  <2>1. /\ UNCHANGED <<mainVars, connVars>>
        /\ graceful' \in BOOLEAN /\ ctxDone' \in BOOLEAN
        /\ (graceful => graceful') /\ (ctxDone => ctxDone')
    BY <1>6 DEF Shutdown, Cancel, TypeOK
  <2>2. TypeOK' BY <1>1, <2>1 DEF TypeOK
  <2>3. InitPhase' /\ EndedPhase' /\ TimerInv' BY <1>1, <2>1 DEF InitPhase, EndedPhase, TimerInv
  <2>4. ErrInv' BY <1>1, <2>1 DEF ErrInv
  <2>5. Kept' /\ SignalInv' /\ ActiveIsLive'
    BY <1>1, <1>2, <2>1 DEF Kept, SignalInv, ActiveIsLive
  <2> QED BY <2>2, <2>3, <2>4, <2>5
<1>7. CASE UNCHANGED vars
  BY <1>1, <1>2, <1>7 DEF vars, TypeOK, InitPhase, EndedPhase, ErrInv, TimerInv, Kept,
     SignalInv, ActiveIsLive
<1> QED BY <1>3, <1>4, <1>5, <1>6, <1>7

\* Every step of Run, of a connection or of waitToShutdown keeps the invariant.
LEMMA NextIInv == IInv /\ [Next]_vars => IInv'
<1> SUFFICES ASSUME IInv, [Next]_vars PROVE IInv' OBVIOUS
<1>1. CASE \E i \in Conns : Goroutine(i) BY <1>1, GoroutineIInv
<1>2. CASE Main
  <2>1. CASE \/ InitConnected \/ InitFirstEnds \/ InitShutdown \/ InitCancelled
             \/ CancelledInitReceives \/ StartNext \/ EnterLoop
    BY <2>1, InitializeIInv
  <2>2. CASE \E i \in Conns : ReceiveError(i) \/ ReceiveReconnect(i)
    BY <2>2, ReceiveErrorIInv, ReceiveReconnectIInv
  <2>3. CASE TimerFires BY <2>3, TimerFiresIInv
  <2>4. CASE TunnelConnected \/ SeeShutdown \/ SeeCancelled BY <2>4, QuietIInv
  <2>5. CASE Drain BY <2>5, DrainIInv
  <2> QED BY <1>2, <2>1, <2>2, <2>3, <2>4, <2>5 DEF Main
<1>3. CASE Shutdown \/ Cancel \/ UNCHANGED vars BY <1>3, QuietIInv
<1> QED BY <1>1, <1>2, <1>3 DEF Next, Terminated

\* IInv holds in every reachable state.
LEMMA Invariance == Spec => []IInv
  BY InitIInv, NextIInv, PTL DEF Spec

\* Every variable keeps its type; in particular tunnelsActive never goes below
\* zero or above HAConnections, although it is only counted up and down.
THEOREM TypeCorrect == Spec => []TypeOK
<1>1. IInv => TypeOK BY DEF IInv
<1> QED BY <1>1, Invariance, PTL

\* tunnelsActive is the number of goroutines whose error Run will receive, and
\* no waiting tunnel is running.
LEMMA Counting == Spec => []ActiveIsLive
<1>1. IInv => ActiveIsLive BY DEF IInv
<1> QED BY <1>1, Invariance, PTL

\* Outside a shutdown every connection is running, or waits with the backoff
\* timer set.
LEMMA Retention == Spec => []NoneForgotten
<1>1. IInv => NoneForgotten BY DEF IInv, Kept, TimerInv, NoneForgotten
<1> QED BY <1>1, Invariance, PTL

\* For any number of connections tunnelsActive is the number of running
\* goroutines and, outside a shutdown, every connection runs or waits.
THEOREM TunnelAccounting == Spec => []TunnelsCounted
BY Counting, Retention, PTL DEF TunnelsCounted

\* Run starts the grace period that resets the backoff only when every running
\* tunnel has connected.
THEOREM GraceStart == Spec => GraceAfterAllConnected
<1> DEFINE Good == ~grace /\ grace' => \A i \in Live : sig[i] = "closed"
<1>1. IInv /\ [Next]_vars => [Good]_vars
  <2> SUFFICES ASSUME IInv, Next, ~grace, grace' PROVE \A i \in Live : sig[i] = "closed"
    OBVIOUS
  <2> USE DEF IInv, mainVars, connVars, gorVars, envVars
  <2>1. TunnelConnected
    BY DEF Next, Main, Goroutine, InitConnected, InitFirstEnds, InitShutdown, InitCancelled,
       CancelledInitReceives, StartNext, EnterLoop, ReceiveError, ReceiveReconnect, TimerFires,
       SeeShutdown, SeeCancelled, Drain, BackoffTimer, Shutdown, Cancel, Terminated, vars,
       Connect, Notify, NoAddress, BackoffEnds, ServeEnds, TypeOK
  <2>2. WaitForNextTunnel(nextConnected) /\ nextConnected' = None /\ run = "loop"
        /\ sig[nextConnected] = "closed"
    BY <2>1 DEF TunnelConnected, TypeOK
  <2>3. connecting \ {nextConnected} = {} BY <2>2, NextIsConnecting
  <2>4. ~initByEnd BY <2>1 DEF TunnelConnected, EndedPhase
  <2> QED BY <2>2, <2>3, <2>4 DEF SignalInv
<1>2. GraceAfterAllConnected <=> [][Good]_vars BY PTL DEF GraceAfterAllConnected
<1> HIDE DEF Good
<1> QED BY <1>1, <1>2, Invariance, PTL DEF Spec

-----------------------------------------------------------------------------
(* The process of a tunnel *)

\* What CleanExit needs of the states before: the goroutines are started one
\* after the other, all of them before waitToShutdown, which stops waiting
\* after a signal or an error: nil is sent only after a signal, or once main has
\* cancelled the context of the server.
States == {"off", "runs", "error", "nil", "gone"}
Waiting == {"wait", "grace", "cancel", "join"}
ServerInv ==
    /\ daemons \in [Daemons -> States]
    /\ exitWith \in {"-", "ok", "error"}
    /\ mainAt \in Waiting \union {"prepare", "listen", "connect"} => daemons["updater"] # "off"
    /\ mainAt \in Waiting \union {"connect"} => daemons["metrics"] # "off"
    /\ mainAt \in Waiting => daemons["supervisor"] # "off"
    /\ serverCtx => mainAt \in {"join", "returned", "failed"}
    /\ \A d \in Daemons : daemons[d] = "nil" => graceC \/ serverCtx
    /\ mainAt = "grace" => graceC
    /\ mainAt \in {"cancel", "join"} => graceC \/ exitWith = "error"
    /\ exitWith = "ok" => mainAt = "returned"
    /\ CleanExit

\* A step that moves one goroutine keeps what was started.
LEMMA DaemonMoves ==
  ASSUME ServerInv, NEW d \in Daemons, NEW s \in States \ {"off"},
         daemons' = [daemons EXCEPT ![d] = s]
  PROVE  /\ daemons' \in [Daemons -> States]
         /\ daemons'[d] = s
         /\ \A e \in Daemons : e # d => daemons'[e] = daemons[e]
         /\ \A e \in Daemons : daemons[e] # "off" => daemons'[e] # "off"
BY DEF ServerInv

\* While a goroutine has not ended waitToShutdown has not returned.
LEMMA NotOver ==
  ASSUME ServerInv, NEW d \in Daemons, daemons[d] # "gone"
  PROVE  mainAt # "returned" /\ exitWith # "ok"
BY DEF ServerInv, CleanExit

LEMMA Names == "updater" \in Daemons /\ "metrics" \in Daemons /\ "supervisor" \in Daemons
BY DEF Daemons

\* An early return with an error keeps the invariant.
LEMMA EarlyReturn ==
  ASSUME ServerInv, ReturnError, UNCHANGED <<daemons, graceC, drainer>>
  PROVE  ServerInv'
BY DEF ServerInv, ReturnError, CleanExit, Waiting

\* The steps that start nothing.
LEMMA ServerPrepares ==
  ASSUME ServerInv, TunnelCommand \/ RunAdhocNamedTunnel \/ RunQuickTunnel \/ Prepare
  PROVE  ServerInv'
<1>1. exitWith # "ok" BY DEF ServerInv, TunnelCommand, RunAdhocNamedTunnel, RunQuickTunnel, Prepare
<1>2. UNCHANGED <<daemons, graceC, drainer>>
  BY DEF TunnelCommand, RunAdhocNamedTunnel, RunQuickTunnel, Prepare
<1>3. CASE ReturnError BY <1>2, <1>3, EarlyReturn
<1>4. CASE ~ReturnError
  <2>1. UNCHANGED <<exitWith, serverCtx>>
    BY <1>4 DEF TunnelCommand, RunAdhocNamedTunnel, RunQuickTunnel, Prepare
  <2>2. mainAt' \in {"adhoc", "quick", "start"} \/ (mainAt = "prepare" /\ mainAt' = "listen")
    BY <1>4 DEF TunnelCommand, RunAdhocNamedTunnel, RunQuickTunnel, Prepare
  <2>3. mainAt \in {"command", "adhoc", "quick", "prepare"}
    BY DEF TunnelCommand, RunAdhocNamedTunnel, RunQuickTunnel, Prepare
  <2>4. ~serverCtx BY <2>3 DEF ServerInv
  <2> QED BY <1>1, <1>2, <2>1, <2>2, <2>3, <2>4 DEF ServerInv, CleanExit, Waiting
<1> QED BY <1>3, <1>4

\* The steps that start a goroutine.
LEMMA ServerSpawns ==
  ASSUME ServerInv, NEW d \in Daemons, Spawn(d), exitWith' = exitWith, exitWith # "ok",
         UNCHANGED <<serverCtx, graceC, drainer>>,
         \/ d = "updater" /\ mainAt = "start" /\ mainAt' = "prepare"
         \/ d = "metrics" /\ mainAt = "listen" /\ mainAt' = "connect"
         \/ d = "supervisor" /\ mainAt = "connect" /\ mainAt' = "wait"
  PROVE  ServerInv'
<1>1. /\ daemons' \in [Daemons -> States]
      /\ daemons'[d] = "runs"
      /\ \A e \in Daemons : e # d => daemons'[e] = daemons[e]
  BY DaemonMoves DEF Spawn, States
<1> QED BY <1>1, Names DEF ServerInv, CleanExit, Waiting

\* A goroutine goes on to send on errC, or what it sends is received.
LEMMA ServerDaemons ==
  ASSUME ServerInv, NEW d \in Daemons, daemons[d] # "gone",
         NEW s \in {"error", "nil", "gone"}, daemons' = [daemons EXCEPT ![d] = s],
         s = "nil" => graceC \/ serverCtx,
         UNCHANGED <<mainAt, serverCtx, graceC, drainer, exitWith>>
  PROVE  ServerInv'
<1>1. /\ daemons' \in [Daemons -> States]
      /\ daemons'[d] = s
      /\ \A e \in Daemons : e # d => daemons'[e] = daemons[e]
  BY DaemonMoves DEF States
<1>2. mainAt # "returned" /\ exitWith # "ok" BY NotOver
<1>3. \A e \in Daemons : daemons[e] # "off" => daemons'[e] # "off" BY <1>1
<1>4. \A e \in Daemons : daemons'[e] = "nil" => graceC \/ serverCtx BY <1>1 DEF ServerInv
<1> QED BY <1>1, <1>2, <1>3, <1>4, Names DEF ServerInv, CleanExit, Waiting

\* waitToShutdown.
LEMMA ServerWaits ==
  ASSUME ServerInv, FirstError \/ GraceStarts \/ GraceEnds
  PROVE  ServerInv'
<1>1. mainAt \in {"wait", "grace"} /\ mainAt' \in {"grace", "cancel"} /\ UNCHANGED <<serverCtx, graceC, drainer>>
  BY DEF FirstError, GraceStarts, GraceEnds
<1>2. exitWith # "ok" /\ exitWith' \in {exitWith, "error"}
  BY <1>1 DEF ServerInv, FirstError, GraceStarts, GraceEnds
<1>3. ASSUME NEW d \in Daemons, Receive(d)
      PROVE  /\ daemons' \in [Daemons -> States] /\ daemons'[d] = "gone"
             /\ \A e \in Daemons : e # d => daemons'[e] = daemons[e]
  BY <1>3, DaemonMoves DEF Receive, States
<1>4. /\ daemons' \in [Daemons -> States]
      /\ \A e \in Daemons : daemons[e] # "off" => daemons'[e] # "off"
      /\ \A e \in Daemons : daemons'[e] = "nil" => daemons[e] = "nil"
  <2>1. CASE UNCHANGED daemons BY <2>1 DEF ServerInv
  <2>2. ASSUME NEW d \in Daemons, Receive(d)
        PROVE  /\ daemons' \in [Daemons -> States]
               /\ \A e \in Daemons : daemons[e] # "off" => daemons'[e] # "off"
               /\ \A e \in Daemons : daemons'[e] = "nil" => daemons[e] = "nil"
    BY <2>2, <1>3
  <2> QED BY <2>1, <2>2 DEF FirstError, GraceStarts, GraceEnds
<1>5. graceC \/ exitWith' = "error"
  <2>1. CASE FirstError
    <3>1. PICK d \in Daemons : Receive(d) /\ exitWith' = IF daemons[d] = "error" THEN "error" ELSE exitWith
      BY <2>1 DEF FirstError
    <3>2. daemons[d] = "nil" => graceC BY <1>1 DEF ServerInv
    <3> QED BY <3>1, <3>2 DEF Receive
  <2>2. CASE GraceStarts \/ GraceEnds BY <2>2 DEF ServerInv, GraceStarts, GraceEnds
  <2> QED BY <2>1, <2>2
<1>6. mainAt' = "grace" => graceC BY DEF GraceStarts, FirstError, GraceEnds
<1>7. ~serverCtx BY <1>1 DEF ServerInv
<1> QED BY <1>1, <1>2, <1>4, <1>5, <1>6, <1>7, Names DEF ServerInv, CleanExit, Waiting

LEMMA ServerNextInv == ServerInv /\ [ServerNext]_serverVars => ServerInv'
<1> SUFFICES ASSUME ServerInv, [ServerNext]_serverVars PROVE ServerInv'
  OBVIOUS
<1>1. CASE TunnelCommand \/ RunAdhocNamedTunnel \/ RunQuickTunnel \/ Prepare BY <1>1, ServerPrepares
<1>2. CASE StartUpdater
  <2>1. CASE ReturnError /\ UNCHANGED daemons BY <1>2, <2>1, EarlyReturn DEF StartUpdater
  <2>2. CASE mainAt' = "prepare" /\ Spawn("updater") /\ UNCHANGED <<exitWith, serverCtx>>
    <3>1. exitWith # "ok" /\ mainAt = "start" /\ UNCHANGED <<graceC, drainer>>
      BY <1>2 DEF ServerInv, StartUpdater
    <3> QED BY <2>2, <3>1, ServerSpawns, Names
  <2> QED BY <1>2, <2>1, <2>2 DEF StartUpdater
<1>3. CASE ListenMetrics
  <2>1. CASE ReturnError /\ UNCHANGED daemons BY <1>3, <2>1, EarlyReturn DEF ListenMetrics
  <2>2. CASE mainAt' = "connect" /\ Spawn("metrics") /\ UNCHANGED <<exitWith, serverCtx>>
    <3>1. exitWith # "ok" BY <1>3 DEF ServerInv, ListenMetrics
    <3> QED BY <1>3, <2>2, <3>1, ServerSpawns, Names DEF ListenMetrics
  <2> QED BY <1>3, <2>1, <2>2 DEF ListenMetrics
<1>4. CASE StartDaemon
  <2>1. exitWith # "ok" BY <1>4 DEF ServerInv, StartDaemon
  <2> QED BY <1>4, <2>1, ServerSpawns, Names DEF StartDaemon
<1>5. CASE Signal BY <1>5 DEF Signal, ServerInv, CleanExit
<1>6. CASE Connected \/ NotifyReady BY <1>6 DEF Connected, NotifyReady, ServerInv, CleanExit
<1>7. ASSUME NEW d \in Daemons, NEW v \in {"error", "nil"}, Ends(d, v), v = "nil" => graceC \/ serverCtx
      PROVE  ServerInv'
  BY <1>7, ServerDaemons DEF Ends
<1>8. CASE UpdaterEnds \/ MetricsEnds \/ SupervisorEnds
  <2>1. CASE UpdaterEnds BY <1>7, <2>1, Names DEF UpdaterEnds
  <2>2. CASE MetricsEnds BY <1>7, <2>2, Names DEF MetricsEnds
  <2>3. CASE SupervisorEnds BY <1>7, <2>3, Names DEF SupervisorEnds
  <2> QED BY <1>8, <2>1, <2>2, <2>3
<1>9. CASE FirstError \/ GraceStarts \/ GraceEnds BY <1>9, ServerWaits
<1>10. CASE CancelServer BY <1>10 DEF CancelServer, ServerInv, CleanExit, Waiting
<1>11. CASE Discard
  <2>1. PICK d \in Daemons : Receive(d) BY <1>11 DEF Discard
  <2> QED BY <1>11, <2>1, ServerDaemons DEF Discard, Receive
<1>12. CASE Join
  <2>1. \A d \in Daemons : daemons[d] = "gone"
    BY <1>12, Names DEF Join, ServerInv, Waiting, Daemons
  <2>2. exitWith' \in {"ok", "error"} /\ (exitWith' = "ok" => graceC /\ serverCtx)
    BY <1>12 DEF Join, ServerInv, CleanExit
  <2> QED BY <1>12, <2>1, <2>2 DEF Join, ServerInv, CleanExit, Waiting
<1>13. CASE UNCHANGED serverVars BY <1>13 DEF serverVars, ServerInv, CleanExit, Waiting
<1> QED BY <1>1, <1>2, <1>3, <1>4, <1>5, <1>6, <1>8, <1>9, <1>10, <1>11, <1>12, <1>13 DEF ServerNext

\* In every behaviour of the process waitToShutdown reports success only after a
\* signal, although errC may carry nil; it returns, with success or an error, only
\* when the three goroutines have ended, and never waits for goroutines that were
\* not told to stop or whose results nobody receives.
THEOREM ServerExitsCleanly == ServerInit /\ [][ServerNext]_serverVars => []CleanExit
<1>1. ServerInit => ServerInv BY DEF ServerInit, ServerInv, CleanExit, Waiting, States
<1>2. ServerInv => CleanExit BY DEF ServerInv
<1> QED BY <1>1, <1>2, ServerNextInv, PTL
-----------------------------------------------------------------------------
(* The log streams of the management service *)

\* Goroutines are counted, and every active session has one.
MgmtInv ==
    /\ activeSessions \subseteq Clients /\ streaming \in [Clients -> Nat]
    /\ SessionsStreamed

\* A goroutine ends: the others of its session go on, and it leaves the session
\* inactive.
LEMMA StreamEnds ==
  ASSUME MgmtInv, NEW c \in Clients, streaming[c] > 0, Streams(c, streaming[c] - 1),
         activeSessions' \subseteq activeSessions \ {c}
  PROVE  MgmtInv'
<1>1. streaming' \in [Clients -> Nat] /\ \A d \in Clients : d # c => streaming'[d] = streaming[d]
  BY DEF MgmtInv, Streams
<1> QED BY <1>1 DEF MgmtInv, SessionsStreamed

\* No goroutine begins or ends, and no session becomes active.
LEMMA StreamsStay ==
  ASSUME MgmtInv, streaming' = streaming, activeSessions' \subseteq activeSessions
  PROVE  MgmtInv'
BY DEF MgmtInv, SessionsStreamed

LEMMA MgmtNextInv == MgmtInv /\ [MgmtNext]_mgmtVars => MgmtInv'
<1>1. ASSUME MgmtInv, UNCHANGED mgmtVars PROVE MgmtInv' BY <1>1, StreamsStay DEF mgmtVars
<1>2. ASSUME MgmtInv, NEW c \in Clients,
             \/ Accept(c) \/ ClientCloses(c) \/ RequestEnds(c) \/ ReaderEnds(c)
             \/ (\E e \in {"start", "stop"} : ReadEvent(c, e))
             \/ LogsReturns(c) \/ CountActive(c) \/ SessionLimitExceeded(c)
      PROVE  MgmtInv'
  <2>1. streaming' = streaming /\ activeSessions' = activeSessions
    BY <1>2 DEF Accept, ClientCloses, RequestEnds, ReaderEnds, ReadEvent, LogsReturns, CountActive, SessionLimitExceeded
  <2> QED BY <1>2, <2>1, StreamsStay
<1>3. ASSUME MgmtInv, NEW c \in Clients, TakeEvent(c) \/ Preempt(c) PROVE MgmtInv'
  <2>1. streaming' = streaming /\ activeSessions' \subseteq activeSessions
    BY <1>3 DEF TakeEvent, Preempt
  <2> QED BY <1>3, <2>1, StreamsStay
<1>4. ASSUME MgmtInv, NEW c \in Clients, Listen(c) PROVE MgmtInv'
  <2>1. /\ streaming' \in [Clients -> Nat] /\ streaming'[c] > 0
        /\ \A d \in Clients : d # c => streaming'[d] = streaming[d]
    BY <1>4 DEF MgmtInv, Listen
  <2>2. activeSessions' = activeSessions \union {c} BY <1>4 DEF Listen
  <2> QED BY <1>4, <2>1, <2>2 DEF MgmtInv, SessionsStreamed
<1>5. ASSUME MgmtInv, NEW c \in Clients, StreamCancelled(c) \/ StreamStopped(c) PROVE MgmtInv'
  <2>1. /\ streaming[c] > 0 /\ Streams(c, streaming[c] - 1)
        /\ activeSessions' \subseteq activeSessions \ {c}
    BY <1>5 DEF StreamCancelled, StreamStopped
  <2> QED BY <1>5, <2>1, StreamEnds
<1>6. ASSUME MgmtInv, NEW c \in Clients, StreamEvent(c) PROVE MgmtInv'
  <2>1. CASE UNCHANGED <<activeSessions, streaming, ws>> BY <1>6, <2>1, StreamsStay
  <2>2. CASE activeSessions' = activeSessions \ {c} /\ Streams(c, streaming[c] - 1)
    BY <1>6, <2>2, StreamEnds DEF StreamEvent
  <2> QED BY <1>6, <2>1, <2>2 DEF StreamEvent
<1> QED BY <1>1, <1>2, <1>3, <1>4, <1>5, <1>6 DEF MgmtNext

\* For any number of clients and actors, no session stays active, and counted
\* against the limit, without a goroutine that will stop it.
THEOREM NoSessionAbandoned == MgmtInit /\ [][MgmtNext]_mgmtVars => []SessionsStreamed
<1>1. MgmtInit => MgmtInv BY DEF MgmtInit, MgmtInv, SessionsStreamed
<1>2. MgmtInv => SessionsStreamed BY DEF MgmtInv
<1> QED BY <1>1, <1>2, MgmtNextInv, PTL
-----------------------------------------------------------------------------
(* The lock files of Access *)

Kinds == {"app", "org"}
Places == {"idle", "read", "reread", "use", "print", "removeToken", "create", "writeLock", "check", "reclaim", "sleep",
           "org", "exchange", "transfer", "writeOrg", "writeApp", "session", "failed", "dead"}
Requests ==
    [at : Places, cmd : {"stream", "login", "curl", "once"}, kind : Kinds, slept : BOOLEAN, retry : BOOLEAN,
     save : BOOLEAN, token : {"none", "good", "revoked"}]
Locks == [owner : AccessProcs \union {"none"}, written : BOOLEAN, old : BOOLEAN]

\* A process at one of these places is no rival for a lock.
Calm == Places \ {"reclaim", "writeLock"}

AccInv ==
    /\ appToken \in {"none", "good", "revoked", "expired"}
    /\ acc \in [AccessProcs -> Requests] /\ lock \in [Kinds -> Locks]

\* The step that LocksKept allows.
Keeps ==
    \A k \in {"app", "org"} :
       Firm(lock[k]) =>
          /\ Rivals(k)' \subseteq Rivals(k)
          /\ lock'[k].owner # lock[k].owner => Rivals(k)' # Rivals(k)

\* A step of p: only its own request changes, and goes on.
Requested(p) == acc' = [acc EXCEPT ![p] = acc'[p]] /\ acc'[p] \in Requests
\* A step of p that touches no lock.
Quiet(p) ==
    /\ lock' = lock /\ Requested(p) /\ acc'[p].at \in Calm
    /\ appToken' \in {"none", "good", "revoked", "expired"}

LEMMA NotStartedTyped == NotStarted \in Requests /\ \A at \in Places : [NotStarted EXCEPT !.at = at] \in Requests
<1>1. NotStarted \in Requests BY DEF NotStarted, Requests, Kinds, Places
<1> QED BY <1>1 DEF Requests

LEMMA AccAtTyped ==
  ASSUME AccInv, NEW p \in AccessProcs, NEW at \in Places, AccAt(p, at)
  PROVE  Requested(p) /\ acc'[p].at = at
<1> DEFINE new == IF at \in {"session", "failed", "dead"} THEN [NotStarted EXCEPT !.at = at] ELSE [acc[p] EXCEPT !.at = at]
<1>1. acc[p] \in Requests BY DEF AccInv
<1>2. [acc[p] EXCEPT !.at = at] \in Requests /\ [acc[p] EXCEPT !.at = at].at = at BY <1>1 DEF Requests
<1>3. [NotStarted EXCEPT !.at = at].at = at BY DEF NotStarted
<1>4. new \in Requests /\ new.at = at BY <1>2, <1>3, NotStartedTyped
<1>5. acc' = [acc EXCEPT ![p] = new] BY DEF AccAt
<1> HIDE DEF new
<1>6. acc'[p] = new BY <1>5 DEF AccInv
<1> QED BY <1>4, <1>5, <1>6 DEF Requested

\* A process that is no rival afterwards may have taken the locks that it was a
\* rival for.
LEMMA RivalLeaves ==
  ASSUME AccInv, NEW p \in AccessProcs, Requested(p), acc'[p].at \in Calm,
         \A k \in Kinds : lock'[k].owner # lock[k].owner => p \in Rivals(k)
  PROVE  Keeps
<1>1. \A q \in AccessProcs : q # p => acc'[q] = acc[q] BY DEF AccInv, Requested
<1>2. ASSUME NEW k \in Kinds PROVE p \notin Rivals(k)' /\ Rivals(k)' \subseteq Rivals(k)
  BY <1>1 DEF Rivals, Calm
<1> QED BY <1>2 DEF Keeps, Kinds

\* A step that touches no lock keeps everybody's.
LEMMA QuietInv ==
  ASSUME AccInv, NEW p \in AccessProcs, Quiet(p)
  PROVE  AccInv' /\ Keeps
<1>1. acc' \in [AccessProcs -> Requests] BY DEF AccInv, Quiet, Requested
<1>2. Keeps BY RivalLeaves DEF Quiet
<1> QED BY <1>1, <1>2 DEF AccInv, Quiet

\* A step that gives p a new request, or moves it to another place.
LEMMA QuietNew ==
  ASSUME AccInv, NEW p \in AccessProcs, NEW new \in Requests, new.at \in Calm,
         acc' = [acc EXCEPT ![p] = new], lock' = lock,
         appToken' \in {"none", "good", "revoked", "expired"}
  PROVE  Quiet(p)
<1>1. acc'[p] = new BY DEF AccInv
<1> QED BY <1>1 DEF Quiet, Requested

LEMMA QuietAt ==
  ASSUME AccInv, NEW p \in AccessProcs, NEW at \in Calm, AccAt(p, at), lock' = lock,
         appToken' \in {"none", "good", "revoked", "expired"}
  PROVE  Quiet(p)
<1>1. at \in Places BY DEF Calm
<1>2. Requested(p) /\ acc'[p].at = at BY <1>1, AccAtTyped
<1> QED BY <1>2 DEF Quiet

\* What getTokenIfExists leaves of the application's token.
LEMMA NoTokenTyped == ASSUME NoToken PROVE appToken' \in {"none", "good", "revoked", "expired"}
BY DEF NoToken

LEMMA CommandQuiet ==
  ASSUME AccInv, NEW p \in AccessProcs, NEW cmd \in {"stream", "login", "curl", "once"}, Command(p, cmd)
  PROVE  Quiet(p)
<1>1. PICK at \in {"read", "failed"} : acc' = [acc EXCEPT ![p] = [NotStarted EXCEPT !.at = at, !.cmd = cmd]]
  BY DEF Command
<1> DEFINE new == [NotStarted EXCEPT !.at = at, !.cmd = cmd]
<1>2. new \in Requests /\ new.at \in Calm
  BY <1>1 DEF NotStarted, Requests, Kinds, Places, Calm
<1>3. acc' = [acc EXCEPT ![p] = new] BY <1>1
<1> HIDE DEF new
<1> QED BY <1>2, <1>3, QuietNew DEF Command, AccInv

LEMMA StartQuiet ==
  ASSUME AccInv, NEW p \in AccessProcs,
         Login(p) \/ Curl(p) \/ SshGen(p) \/ Ssh(p) \/ ServeConnection(p) \/ GenerateToken(p)
  PROVE  Quiet(p)
<1>1. CASE \E cmd \in {"stream", "login", "curl", "once"} : Command(p, cmd) BY <1>1, CommandQuiet
<1>2. ASSUME NEW at \in {"session", "failed"}, acc[p].at = "idle", AccAt(p, at), UNCHANGED <<appToken, orgToken, lock>>
      PROVE  Quiet(p)
  <2>1. at \in Calm BY DEF Places, Calm
  <2> QED BY <1>2, <2>1, QuietAt DEF AccInv
<1>3. CASE GenerateToken(p)
  <2>1. "session" \in Calm BY DEF Places, Calm
  <2>2. appToken' \in {"none", "good", "revoked", "expired"} BY <1>3, NoTokenTyped DEF GenerateToken, AccInv
  <2> QED BY <1>3, <2>1, <2>2, QuietAt DEF GenerateToken
<1> QED BY <1>1, <1>2, <1>3 DEF Login, Curl, SshGen, Ssh, ServeConnection, CreateWebsocketStream

LEMMA ReadAppTokenQuiet ==
  ASSUME AccInv, NEW p \in AccessProcs, ReadAppToken(p)
  PROVE  Quiet(p)
<1>0. acc[p] \in Requests BY DEF AccInv
<1>1. CASE appToken \in {"good", "revoked"} /\ acc' = [acc EXCEPT ![p].at = "use", ![p].token = appToken] /\ UNCHANGED appToken
  <2> DEFINE new == [acc[p] EXCEPT !.at = "use", !.token = appToken]
  <2>1. acc' = [acc EXCEPT ![p] = new] BY <1>1 DEF AccInv
  <2>2. new \in Requests /\ new.at \in Calm BY <1>0, <1>1 DEF Requests, Places, Calm
  <2> HIDE DEF new
  <2> QED BY <1>1, <2>1, <2>2, QuietNew DEF ReadAppToken, AccInv
<1>2. CASE /\ NoToken
           /\ acc' = [acc EXCEPT ![p].at = IF acc[p].at = "read" THEN "create" ELSE "org",
                                 ![p].kind = "app", ![p].slept = FALSE, ![p].save = FALSE]
  <2> DEFINE new == [acc[p] EXCEPT !.at = IF acc[p].at = "read" THEN "create" ELSE "org",
                                   !.kind = "app", !.slept = FALSE, !.save = FALSE]
  <2>1. acc' = [acc EXCEPT ![p] = new] BY <1>2 DEF AccInv
  <2>2. new \in Requests /\ new.at \in Calm BY <1>0 DEF Requests, Places, Kinds, Calm
  <2> HIDE DEF new
  <2>3. appToken' \in {"none", "good", "revoked", "expired"} BY <1>2, NoTokenTyped
  <2> QED BY <2>1, <2>2, <2>3, QuietNew DEF ReadAppToken
<1> QED BY <1>1, <1>2 DEF ReadAppToken

LEMMA UseQuiet ==
  ASSUME AccInv, NEW p \in AccessProcs, VerifyToken(p) \/ AccessWebSocketStream(p)
  PROVE  Quiet(p)
<1>1. lock' = lock /\ appToken' = appToken BY DEF VerifyToken, AccessWebSocketStream
<1>2. \E at \in {"session", "print", "failed", "removeToken"} : AccAt(p, at)
  BY DEF VerifyToken, AccessWebSocketStream, IsAccessResponse
<1>3. {"session", "print", "failed", "removeToken"} \subseteq Calm BY DEF Places, Calm
<1> QED BY <1>1, <1>2, <1>3, QuietAt DEF AccInv

LEMMA PrintQuiet ==
  ASSUME AccInv, NEW p \in AccessProcs, PrintLogin(p) \/ PrintCurl(p)
  PROVE  Quiet(p)
<1>1. lock' = lock BY DEF PrintLogin, PrintCurl
<1>2. appToken' \in {"none", "good", "revoked", "expired"} BY NoTokenTyped DEF PrintLogin, PrintCurl, AccInv
<1>3. CASE \E at \in {"session", "failed"} : AccAt(p, at)
  <2>1. {"session", "failed"} \subseteq Calm BY DEF Places, Calm
  <2> QED BY <1>1, <1>2, <1>3, <2>1, QuietAt
<1>4. CASE acc' = [acc EXCEPT ![p] = [NotStarted EXCEPT !.at = "read", !.cmd = "once"]]
  <2> DEFINE new == [NotStarted EXCEPT !.at = "read", !.cmd = "once"]
  <2>1. new \in Requests /\ new.at \in Calm BY DEF NotStarted, Requests, Kinds, Places, Calm
  <2>2. acc' = [acc EXCEPT ![p] = new] BY <1>4
  <2> HIDE DEF new
  <2> QED BY <1>1, <1>2, <2>1, <2>2, QuietNew
<1> QED BY <1>3, <1>4 DEF PrintLogin, PrintCurl

LEMMA RetryQuiet ==
  ASSUME AccInv, NEW p \in AccessProcs, RemoveToken(p) \/ Sleep(p)
  PROVE  Quiet(p)
<1>0. acc[p] \in Requests BY DEF AccInv
<1>1. CASE RemoveToken(p)
  <2>1. CASE AccAt(p, "failed") /\ UNCHANGED appToken
    <3>1. "failed" \in Calm BY DEF Places, Calm
    <3> QED BY <1>1, <2>1, <3>1, QuietAt DEF RemoveToken, AccInv
  <2>2. CASE appToken' = "none" /\ acc' = [acc EXCEPT ![p].at = "read", ![p].retry = TRUE]
    <3> DEFINE new == [acc[p] EXCEPT !.at = "read", !.retry = TRUE]
    <3>1. acc' = [acc EXCEPT ![p] = new] BY <2>2 DEF AccInv
    <3>2. new \in Requests /\ new.at \in Calm BY <1>0 DEF Requests, Places, Calm
    <3> HIDE DEF new
    <3> QED BY <1>1, <2>2, <3>1, <3>2, QuietNew DEF RemoveToken
  <2> QED BY <1>1, <2>1, <2>2 DEF RemoveToken
<1>2. CASE Sleep(p)
  <2> DEFINE new == [acc[p] EXCEPT !.at = "create", !.slept = TRUE]
  <2>1. acc' = [acc EXCEPT ![p] = new] BY <1>2 DEF Sleep, AccInv
  <2>2. new \in Requests /\ new.at \in Calm BY <1>0 DEF Requests, Places, Calm
  <2> HIDE DEF new
  <2> QED BY <1>2, <2>1, <2>2, QuietNew DEF Sleep, AccInv
<1> QED BY <1>1, <1>2

LEMMA ReadOrgTokenQuiet ==
  ASSUME AccInv, NEW p \in AccessProcs, ReadOrgToken(p)
  PROVE  Quiet(p)
<1>0. acc[p] \in Requests BY DEF AccInv
<1>1. lock' = lock /\ appToken' = appToken BY DEF ReadOrgToken
<1>2. CASE AccAt(p, "exchange")
  <2>1. "exchange" \in Calm BY DEF Places, Calm
  <2> QED BY <1>1, <1>2, <2>1, QuietAt DEF AccInv
<1>3. CASE acc' = [acc EXCEPT ![p].at = "exchange", ![p].save = (acc[p].kind = "org")]
  <2> DEFINE new == [acc[p] EXCEPT !.at = "exchange", !.save = (acc[p].kind = "org")]
  <2>1. acc' = [acc EXCEPT ![p] = new] BY <1>3 DEF AccInv
  <2>2. new \in Requests /\ new.at \in Calm BY <1>0 DEF Requests, Places, Calm
  <2> HIDE DEF new
  <2> QED BY <1>1, <2>1, <2>2, QuietNew DEF AccInv
<1>4. CASE acc' = [acc EXCEPT ![p].at = IF acc[p].kind = "app" THEN "create" ELSE "transfer",
                              ![p].kind = "org", ![p].slept = FALSE, ![p].save = TRUE]
  <2> DEFINE new == [acc[p] EXCEPT !.at = IF acc[p].kind = "app" THEN "create" ELSE "transfer",
                                   !.kind = "org", !.slept = FALSE, !.save = TRUE]
  <2>1. acc' = [acc EXCEPT ![p] = new] BY <1>4 DEF AccInv
  <2>2. new \in Requests /\ new.at \in Calm BY <1>0 DEF Requests, Places, Kinds, Calm
  <2> HIDE DEF new
  <2> QED BY <1>1, <2>1, <2>2, QuietNew DEF AccInv
<1> QED BY <1>2, <1>3, <1>4 DEF ReadOrgToken

\* The steps of getToken that end with a token, in a login or in a failure.
LEMMA FetchQuiet ==
  ASSUME AccInv, NEW p \in AccessProcs,
         Exchange(p) \/ Transfer(p) \/ WriteOrg(p) \/ WriteApp(p) \/ ReclaimFails(p) \/ GiveUp(p)
  PROVE  Quiet(p)
<1>0. acc[p] \in Requests BY DEF AccInv
<1>1. lock' = lock /\ appToken' \in {"none", "good", "revoked", "expired"}
  BY DEF Exchange, Transfer, WriteOrg, WriteApp, ReclaimFails, GiveUp, AccInv
<1>2. CASE \E at \in {"transfer", "failed", "writeOrg", "writeApp", "sleep"} : AccAt(p, at)
  <2>1. {"transfer", "failed", "writeOrg", "writeApp", "sleep"} \subseteq Calm BY DEF Places, Calm
  <2> QED BY <1>1, <1>2, <2>1, QuietAt
<1>3. CASE acc' = [acc EXCEPT ![p].at = "use", ![p].token = "good"]
  <2> DEFINE new == [acc[p] EXCEPT !.at = "use", !.token = "good"]
  <2>1. acc' = [acc EXCEPT ![p] = new] BY <1>3 DEF AccInv
  <2>2. new \in Requests /\ new.at \in Calm BY <1>0 DEF Requests, Places, Calm
  <2> HIDE DEF new
  <2> QED BY <1>1, <2>1, <2>2, QuietNew
<1> QED BY <1>2, <1>3 DEF Exchange, Transfer, Polled, WriteOrg, WriteApp, ReclaimFails, GiveUp

\* Who looks at a firm lock does not become a rival for it.
LEMMA CheckLockInv ==
  ASSUME AccInv, NEW p \in AccessProcs, CheckLock(p)
  PROVE  AccInv' /\ Keeps
<1> DEFINE stale == Held(p) # Free /\ Stale(Held(p))
<1>1. lock' = lock /\ appToken' = appToken /\ AccAt(p, IF stale THEN "reclaim" ELSE "sleep") BY DEF CheckLock
<1>2. CASE ~stale
  <2>1. "sleep" \in Calm BY DEF Places, Calm
  <2>2. Quiet(p) BY <1>1, <1>2, <2>1, QuietAt DEF AccInv
  <2> QED BY <2>2, QuietInv
<1>3. CASE stale
  <2>1. "reclaim" \in Places BY DEF Places
  <2>2. AccAt(p, "reclaim") BY <1>1, <1>3
  <2>3. Requested(p) BY <2>1, <2>2, AccAtTyped
  <2>4. acc'[p].kind = acc[p].kind /\ acc[p].kind \in Kinds BY <2>2 DEF AccAt, AccInv, Requests
  <2>5. ~Firm(lock[acc[p].kind]) BY <1>3 DEF Firm, Stale, Held
  <2>6. acc' \in [AccessProcs -> Requests] /\ \A q \in AccessProcs : q # p => acc'[q] = acc[q]
    BY <2>3 DEF AccInv, Requested
  <2>7. ASSUME NEW k \in Kinds, Firm(lock[k]) PROVE Rivals(k)' \subseteq Rivals(k)
    <3>1. k # acc'[p].kind BY <2>4, <2>5, <2>7
    <3> QED BY <2>6, <3>1 DEF Rivals
  <2>8. Keeps BY <1>1, <2>7 DEF Keeps, Kinds
  <2> QED BY <1>1, <2>6, <2>8 DEF AccInv
<1> QED BY <1>2, <1>3

\* A step of p that leaves the lock of its kind as l and the other alone.
LEMMA LockStep ==
  ASSUME AccInv, NEW p \in AccessProcs, NEW l \in Locks, SetLock(p, l), Requested(p), appToken' = appToken
  PROVE  AccInv' /\ \A k \in Kinds : lock'[k] # lock[k] => k = acc[p].kind
<1>1. acc' \in [AccessProcs -> Requests] BY DEF AccInv, Requested
<1>2. acc[p].kind \in Kinds BY DEF AccInv, Requests
<1>3. lock' \in [Kinds -> Locks] /\ \A k \in Kinds : k # acc[p].kind => lock'[k] = lock[k]
  BY <1>2 DEF AccInv, SetLock
<1> QED BY <1>1, <1>3 DEF AccInv

LEMMA FreeLock == Free \in Locks
BY DEF Free, Locks

\* A rival that takes the lock is none afterwards.
LEMMA TakeLock ==
  ASSUME AccInv, NEW p \in AccessProcs, NEW l \in Locks, NEW at \in Calm, acc[p].at \in {"reclaim", "writeLock"},
         SetLock(p, l), AccAt(p, at), appToken' = appToken
  PROVE  AccInv' /\ Keeps
<1>1. at \in Places BY DEF Calm
<1>2. Requested(p) /\ acc'[p].at = at BY <1>1, AccAtTyped
<1>3. AccInv' /\ \A k \in Kinds : lock'[k] # lock[k] => k = acc[p].kind BY <1>2, LockStep
<1>4. p \in Rivals(acc[p].kind) BY DEF Rivals
<1>5. Keeps BY <1>2, <1>3, <1>4, RivalLeaves
<1> QED BY <1>3, <1>5

\* A lock is created where there is none, so that no firm one gets a rival.
LEMMA CreateLockInv ==
  ASSUME AccInv, NEW p \in AccessProcs, CreateLock(p)
  PROVE  AccInv' /\ Keeps
<1>1. appToken' = appToken BY DEF CreateLock
<1>2. CASE Held(p) = Free /\ SetLock(p, [Free EXCEPT !.owner = p]) /\ AccAt(p, "writeLock")
  <2> DEFINE l == [Free EXCEPT !.owner = p]
  <2>1. l \in Locks BY DEF Free, Locks
  <2>2. "writeLock" \in Places BY DEF Places
  <2>3. Requested(p) BY <1>2, <2>2, AccAtTyped
  <2>4. acc'[p].kind = acc[p].kind BY <1>2 DEF AccAt, AccInv, Requests
  <2>5. SetLock(p, l) BY <1>2
  <2> HIDE DEF l
  <2>6. AccInv' /\ \A k \in Kinds : lock'[k] # lock[k] => k = acc[p].kind BY <1>1, <2>1, <2>3, <2>5, LockStep
  <2>7. ~Firm(lock[acc[p].kind]) BY <1>2 DEF Firm, Held, Free
  <2>8. \A q \in AccessProcs : q # p => acc'[q] = acc[q] BY <2>3 DEF AccInv, Requested
  <2>9. ASSUME NEW k \in Kinds, Firm(lock[k]) PROVE Rivals(k)' \subseteq Rivals(k) /\ lock'[k] = lock[k]
    <3>1. k # acc[p].kind BY <2>7, <2>9
    <3> QED BY <2>4, <2>6, <2>8, <3>1 DEF Rivals
  <2> QED BY <2>6, <2>9 DEF Keeps, Kinds
<1>3. CASE \E at \in {"check", "failed"} : AccAt(p, at) /\ UNCHANGED lock
  <2>1. {"check", "failed"} \subseteq Calm BY DEF Places, Calm
  <2> QED BY <1>1, <1>3, <2>1, QuietAt, QuietInv DEF AccInv
<1> QED BY <1>2, <1>3 DEF CreateLock

LEMMA WriteLockInv ==
  ASSUME AccInv, NEW p \in AccessProcs, WriteLock(p)
  PROVE  AccInv' /\ Keeps
<1>1. acc[p].at = "writeLock" /\ appToken' = appToken /\ Held(p) \in Locks BY DEF WriteLock, AccInv, Held, Requests
<1>2. {"failed", "reread", "org"} \subseteq Calm BY DEF Places, Calm
<1>3. CASE SetLock(p, Free) /\ AccAt(p, "failed") BY <1>1, <1>2, <1>3, FreeLock, TakeLock
<1>4. CASE /\ IF Held(p).owner = p THEN SetLock(p, [Held(p) EXCEPT !.written = TRUE]) ELSE UNCHANGED lock
           /\ AccAt(p, IF acc[p].kind = "app" THEN "reread" ELSE "org")
  <2> DEFINE at == IF acc[p].kind = "app" THEN "reread" ELSE "org"
  <2>1. at \in Calm /\ AccAt(p, at) BY <1>2, <1>4
  <2> HIDE DEF at
  <2>2. CASE Held(p).owner = p
    <3> DEFINE l == [Held(p) EXCEPT !.written = TRUE]
    <3>1. l \in Locks /\ SetLock(p, l) BY <1>1, <1>4, <2>2 DEF Locks
    <3> HIDE DEF l
    <3> QED BY <1>1, <2>1, <3>1, TakeLock
  <2>3. CASE Held(p).owner # p
    <3>1. Quiet(p) BY <1>1, <1>4, <2>1, <2>3, QuietAt DEF AccInv
    <3> QED BY <3>1, QuietInv
  <2> QED BY <2>2, <2>3
<1> QED BY <1>3, <1>4 DEF WriteLock

LEMMA ReclaimInv ==
  ASSUME AccInv, NEW p \in AccessProcs, Reclaim(p)
  PROVE  AccInv' /\ Keeps
<1>1. "create" \in Calm BY DEF Places, Calm
<1> QED BY <1>1, FreeLock, TakeLock DEF Reclaim

\* A process dies; its lock files stay.
LEMMA ExitInv ==
  ASSUME AccInv, NEW p \in AccessProcs, Exit(p)
  PROVE  AccInv' /\ Keeps
<1>1. "dead" \in Calm BY DEF Places, Calm
<1>2. Quiet(p) BY <1>1, QuietAt DEF Exit, AccInv
<1> QED BY <1>2, QuietInv

LEMMA LockAgesInv ==
  ASSUME AccInv, NEW k \in Kinds, LockAges(k)
  PROVE  AccInv' /\ Keeps
<1> DEFINE l == [lock[k] EXCEPT !.old = TRUE]
<1>1. lock[k] \in Locks BY DEF AccInv
<1>2. l \in Locks /\ l.owner = lock[k].owner BY <1>1 DEF Locks
<1>3. lock' = [lock EXCEPT ![k] = l] BY DEF LockAges, AccInv
<1> HIDE DEF l
<1>4. lock' \in [Kinds -> Locks] /\ \A j \in Kinds : lock'[j].owner = lock[j].owner
  BY <1>2, <1>3 DEF AccInv
<1>5. acc' = acc /\ appToken' = appToken BY DEF LockAges
<1>6. Keeps BY <1>4, <1>5 DEF Keeps, Rivals, Kinds
<1> QED BY <1>4, <1>5, <1>6 DEF AccInv

LEMMA RevokeInv ==
  ASSUME AccInv, Revoke
  PROVE  AccInv' /\ Keeps
<1> DEFINE new(q) == [acc[q] EXCEPT !.token = IF @ = "good" THEN "revoked" ELSE @]
<1>1. ASSUME NEW q \in AccessProcs
      PROVE  new(q) \in Requests /\ new(q).at = acc[q].at /\ new(q).kind = acc[q].kind
  <2>1. acc[q] \in Requests BY DEF AccInv
  <2> QED BY <2>1 DEF Requests
<1>2. acc' = [q \in AccessProcs |-> new(q)] BY DEF Revoke
<1> HIDE DEF new
<1>3. acc' \in [AccessProcs -> Requests] /\ \A q \in AccessProcs : acc'[q].at = acc[q].at /\ acc'[q].kind = acc[q].kind
  BY <1>1, <1>2
<1>4. lock' = lock /\ appToken' = "revoked" BY DEF Revoke
<1>5. Keeps BY <1>3, <1>4 DEF Keeps, Rivals
<1> QED BY <1>3, <1>4, <1>5 DEF AccInv

LEMMA AccNextInv == AccInv /\ [AccNext]_accVars => AccInv' /\ [Keeps]_accVars
<1>1. ASSUME AccInv, UNCHANGED accVars PROVE AccInv' BY <1>1 DEF accVars, AccInv
<1>2. ASSUME AccInv, NEW p \in AccessProcs,
             \/ Login(p) \/ Curl(p) \/ SshGen(p) \/ Ssh(p) \/ ServeConnection(p) \/ GenerateToken(p)
      PROVE  AccInv' /\ Keeps
  BY <1>2, StartQuiet, QuietInv
<1>3. ASSUME AccInv, NEW p \in AccessProcs, AccStep(p) \/ GiveUp(p) PROVE AccInv' /\ Keeps
  <2>1. CASE CreateLock(p) BY <1>3, <2>1, CreateLockInv
  <2>2. CASE WriteLock(p) BY <1>3, <2>2, WriteLockInv
  <2>3. CASE CheckLock(p) BY <1>3, <2>3, CheckLockInv
  <2>4. CASE Reclaim(p) BY <1>3, <2>4, ReclaimInv
  <2>5. CASE ~CreateLock(p) /\ ~WriteLock(p) /\ ~CheckLock(p) /\ ~Reclaim(p)
    <3>1. Quiet(p)
      BY <1>3, <2>5, ReadAppTokenQuiet, UseQuiet, PrintQuiet, RetryQuiet, ReadOrgTokenQuiet, FetchQuiet DEF AccStep
    <3> QED BY <1>3, <3>1, QuietInv
  <2> QED BY <2>1, <2>2, <2>3, <2>4, <2>5
<1>4. ASSUME AccInv, NEW p \in AccessProcs, Exit(p) PROVE AccInv' /\ Keeps BY <1>4, ExitInv
<1>5. ASSUME AccInv, NEW k \in Kinds, LockAges(k) PROVE AccInv' /\ Keeps BY <1>5, LockAgesInv
<1>6. ASSUME AccInv, Revoke PROVE AccInv' /\ Keeps BY <1>6, RevokeInv
<1> QED BY <1>1, <1>2, <1>3, <1>4, <1>5, <1>6 DEF AccNext, Kinds

\* For any number of processes, nobody who looks at a lock that acquireLockFile has
\* given to a live process, and that is not old, takes it: only those can who had
\* looked at an earlier lock file or cannot write their own, and each of them once.
THEOREM LocksRespected == AccInit /\ [][AccNext]_accVars => LocksKept
<1>1. AccInit => AccInv
  <2> SUFFICES ASSUME AccInit PROVE AccInv
    OBVIOUS
  <2>1. acc \in [AccessProcs -> Requests] BY NotStartedTyped DEF AccInit
  <2>2. lock \in [Kinds -> Locks] BY FreeLock DEF AccInit, Kinds
  <2> QED BY <2>1, <2>2 DEF AccInv, AccInit
<1>2. LocksKept <=> [][Keeps]_accVars BY PTL DEF LocksKept, Keeps
<1> QED BY <1>1, <1>2, AccNextInv, PTL
=============================================================================
