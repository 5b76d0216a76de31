----------------------------- MODULE Supervisor -----------------------------
(***************************************************************************)
(* supervisor.Supervisor: the goroutine of Run, which keeps HAConnections  *)
(* connections to the edge, and one goroutine per connection, startTunnel  *)
(* (for the first one startFirstTunnel), which calls Serve and sends the   *)
(* outcome on the unbuffered channel tunnelErrors.  Outcomes are classes   *)
(* of errors:                                                              *)
(*   "nil"        graceful end                                             *)
(*   "reconnect"  a ReconnectSignal                                        *)
(*   "retry"      an error startFirstTunnel tries again after              *)
(*   "fatal"      any other error                                          *)
(*   "cancelled"  the context was cancelled                                *)
(* A select of Go is a choice between the cases that are ready.            *)
(***************************************************************************)
EXTENDS Naturals, Integers, FiniteSets

CONSTANTS
    HAConnections,  \* connections to keep, after the cut to AvailableAddrs
    None            \* nil nextConnectedSignal

ASSUME HAAssumption == HAConnections \in Nat \ {0} /\ None \notin Nat

Conns == 0 .. (HAConnections - 1)

VARIABLES
    run,          \* where Run is: "init", "cancelledInit", "starting",
                  \* "loop", "draining" or "returned"
    started,      \* connections started so far by initialize
    graceful,     \* gracefulShutdownC is closed
    ctxDone,      \* the context is cancelled
    shuttingDown, \* Run has received from gracefulShutdownC
    active,       \* tunnelsActive
    waiting,      \* tunnelsWaiting
    timer,        \* backoffTimer # nil
    grace,        \* the backoff has a reset deadline
    connecting,   \* the keys of tunnelsConnecting
    nextConnected,\* nextConnectedIndex, None when nextConnectedSignal is nil
    gor,          \* the goroutine of a connection: "none", "serving",
                  \* "connected", "backoff" or "sending" (on tunnelErrors)
    err,          \* its error
    sig,          \* its connectedSignal: "open", "fused" or "closed"
    firstLoop,    \* connection 0 is still served by startFirstTunnel
    initByEnd     \* history: initialize returned the nil of an ended tunnel

mainVars == <<run, started, shuttingDown, active, waiting, timer, grace, initByEnd>>
connVars == <<connecting, nextConnected>>
gorVars == <<gor, err, sig, firstLoop>>
envVars == <<graceful, ctxDone>>
vars == <<mainVars, connVars, gorVars, envVars>>

Errs == {"nil", "reconnect", "retry", "fatal", "cancelled"}

Init ==
    /\ run = "init" /\ started = 1
    /\ graceful \in BOOLEAN  \* a signal may come while addresses are resolved
    /\ ctxDone = FALSE /\ shuttingDown = FALSE
    /\ active = 0 /\ waiting = {} /\ timer = FALSE /\ grace = FALSE
    /\ connecting = {} /\ nextConnected = None
    /\ gor = [i \in Conns |-> IF i = 0 THEN "serving" ELSE "none"]
    /\ err = [i \in Conns |-> "nil"]
    /\ sig = [i \in Conns |-> "open"]
    /\ firstLoop = TRUE /\ initByEnd = FALSE
-----------------------------------------------------------------------------
(* The goroutines of the connections *)

\* Serve returns e: startFirstTunnel calls it again after some errors, the
\* other goroutines send e on tunnelErrors.  (err is kept only until it is
\* used, to save states.)
Returned(i, e) ==
    LET again == i = 0 /\ firstLoop /\ ~ctxDone /\ e = "retry" IN
    /\ err' = [err EXCEPT ![i] = IF again THEN "nil" ELSE e]
    /\ gor' = [gor EXCEPT ![i] = IF again THEN "serving" ELSE "sending"]

\* The control stream registers the connection: connectedFuse.
Connect(i) ==
    /\ gor[i] = "serving"
    /\ gor' = [gor EXCEPT ![i] = "connected"]
    /\ sig' = [sig EXCEPT ![i] = IF @ = "open" THEN "fused" ELSE @]
    /\ UNCHANGED <<mainVars, connVars, envVars, err, firstLoop>>

\* The goroutine that awaits the fuse notifies the signal.
Notify(i) ==
    /\ sig[i] = "fused"
    /\ sig' = [sig EXCEPT ![i] = "closed"]
    /\ UNCHANGED <<mainVars, connVars, envVars, gor, err, firstLoop>>

\* GetAddr or GetDifferentAddr finds no address: Serve returns at once.  The
\* first tunnel tries again when the addresses were configured (isStaticEdge).
NoAddress(i) ==
    /\ gor[i] \in {"serving", "connected"}
    /\ \E e \in {"fatal", "retry"} : Returned(i, e)
    /\ UNCHANGED <<mainVars, connVars, envVars, sig, firstLoop>>

\* serveTunnel ends.  It returns nil only after a graceful shutdown, and
\* Serve does not back off once the context is cancelled.
ServeEnds(i, e) ==
    /\ gor[i] \in {"serving", "connected"}
    /\ e = "nil" => graceful /\ gor[i] = "connected"
    /\ e = "cancelled" => ctxDone
    /\ IF ctxDone
       THEN Returned(i, e)
       ELSE /\ err' = [err EXCEPT ![i] = e]
            /\ gor' = [gor EXCEPT ![i] = "backoff"]
    /\ UNCHANGED <<mainVars, connVars, envVars, sig, firstLoop>>

\* The select at the end of Serve: cancellation, shutdown, or the timer.
BackoffEnds(i) ==
    /\ gor[i] = "backoff"
    /\ \/ ctxDone /\ Returned(i, "cancelled")
       \/ graceful /\ Returned(i, "nil")
       \/ Returned(i, err[i])
    /\ UNCHANGED <<mainVars, connVars, envVars, sig, firstLoop>>
-----------------------------------------------------------------------------
(* The goroutine of Run *)

\* newConnectedTunnelSignal(i) for every i of S, the last one being chosen,
\* and go startTunnel.
StartTunnels(S, last) ==
    /\ gor' = [i \in Conns |-> IF i \in S THEN "serving" ELSE gor[i]]
    /\ sig' = [i \in Conns |-> IF i \in S THEN "open" ELSE sig[i]]
    /\ firstLoop' = (firstLoop /\ 0 \notin S)
    /\ connecting' = connecting \cup S
    /\ nextConnected' = last
    /\ err' = [i \in Conns |-> IF i \in S THEN "nil" ELSE err[i]]

\* Mutant: no other connecting tunnel is chosen.
WaitForNextForgets(i) ==
    /\ connecting' = connecting \ {i}
    /\ nextConnected' = None

\* waitForNextTunnel(i): any of the other connecting tunnels is next.
WaitForNextTunnel(i) ==
    /\ connecting' = connecting \ {i}
    /\ IF connecting \ {i} = {} THEN nextConnected' = None
       ELSE nextConnected' \in connecting \ {i}

\* The rendezvous on tunnelErrors: the goroutine ends.
Received(i) ==
    /\ gor' = [gor EXCEPT ![i] = "none"]
    /\ err' = [err EXCEPT ![i] = "nil"]

\* initialize: the select on the first tunnel.
InitConnected ==
    /\ run = "init" /\ sig[0] = "closed"
    /\ run' = "starting"
    /\ UNCHANGED <<connVars, gorVars, envVars, started, shuttingDown, active, waiting, timer, grace, initByEnd>>

\* It returns the error of the first tunnel; when that is nil, Run goes on as
\* if the tunnels had been started.
InitFirstEnds ==
    /\ run = "init" /\ gor[0] = "sending"
    /\ Received(0)
    /\ IF err[0] = "nil"
       THEN run' = "loop" /\ active' = HAConnections /\ initByEnd' = TRUE
       ELSE run' = "returned" /\ UNCHANGED <<active, initByEnd>>
    /\ UNCHANGED <<connVars, envVars, sig, firstLoop, started, shuttingDown, waiting, timer, grace>>

InitShutdown ==
    /\ run = "init" /\ graceful
    /\ run' = "returned"
    /\ UNCHANGED <<connVars, gorVars, envVars, started, shuttingDown, active, waiting, timer, grace, initByEnd>>

InitCancelled ==
    /\ run = "init" /\ ctxDone
    /\ run' = "cancelledInit"
    /\ UNCHANGED <<connVars, gorVars, envVars, started, shuttingDown, active, waiting, timer, grace, initByEnd>>

CancelledInitReceives ==
    /\ run = "cancelledInit" /\ gor[0] = "sending"
    /\ Received(0)
    /\ run' = "returned"
    /\ UNCHANGED <<connVars, envVars, sig, firstLoop, started, shuttingDown, active, waiting, timer, grace, initByEnd>>

\* initialize starts the other tunnels, one per registrationInterval.
StartNext ==
    /\ run = "starting" /\ started < HAConnections
    /\ StartTunnels({started}, started)
    /\ started' = started + 1
    /\ UNCHANGED <<envVars, run, shuttingDown, active, waiting, timer, grace, initByEnd>>

EnterLoop ==
    /\ run = "starting" /\ started = HAConnections
    /\ run' = "loop" /\ active' = HAConnections
    /\ UNCHANGED <<connVars, gorVars, envVars, started, shuttingDown, waiting, timer, grace, initByEnd>>

\* Mutant: retryForever is not set and the retries are used up.
BackoffTimerExhausted ==
    /\ timer' \in BOOLEAN
    /\ grace' \in {grace, FALSE}

\* BackoffTimer: retryForever is set, so there is a timer; a reset deadline
\* that has passed is cleared.
BackoffTimer ==
    /\ timer' = TRUE
    /\ grace' \in {grace, FALSE}

\* case tunnelError := <-s.tunnelErrors, for errors that are queued and for
\* the end of a tunnel during a shutdown.
ReceiveError(i) ==
    /\ run = "loop" /\ gor[i] = "sending"
    /\ err[i] = "reconnect" => shuttingDown
    /\ Received(i) /\ active' = active - 1
    /\ IF err[i] # "nil" /\ ~shuttingDown
       THEN /\ IF ctxDone
               THEN UNCHANGED <<waiting, timer, grace, connVars>>
               ELSE /\ waiting' = waiting \cup {i}
                    /\ WaitForNextTunnel(i)
                    /\ IF timer THEN UNCHANGED <<timer, grace>> ELSE BackoffTimer
            /\ UNCHANGED run
       ELSE /\ run' = IF active' = 0 THEN "returned" ELSE run
            /\ UNCHANGED <<connVars, waiting, timer, grace>>
    /\ UNCHANGED <<envVars, sig, firstLoop, started, shuttingDown, initByEnd>>

\* Mutant: tunnelsActive is not incremented for the restarted tunnel.
ReceiveReconnectUncounted(i) ==
    /\ run = "loop" /\ gor[i] = "sending" /\ err[i] = "reconnect" /\ ~shuttingDown
    /\ StartTunnels({i}, i)
    /\ active' = active - 1
    /\ UNCHANGED <<envVars, run, started, shuttingDown, waiting, timer, grace, initByEnd>>

\* The same case for a ReconnectSignal: the tunnel is started again at once;
\* tunnelsActive is decremented and incremented.
ReceiveReconnect(i) ==
    /\ run = "loop" /\ gor[i] = "sending" /\ err[i] = "reconnect" /\ ~shuttingDown
    /\ StartTunnels({i}, i)
    /\ UNCHANGED <<envVars, mainVars>>

\* case <-backoffTimer: every waiting tunnel is started.
TimerFires ==
    /\ run = "loop" /\ timer
    /\ timer' = FALSE
    /\ \E last \in waiting : StartTunnels(waiting, last)
    /\ active' = active + Cardinality(waiting)
    /\ waiting' = {}
    /\ UNCHANGED <<envVars, run, started, shuttingDown, grace, initByEnd>>

\* case <-s.nextConnectedSignal: the grace period starts when no tunnel is
\* connecting or waiting.
TunnelConnected ==
    /\ run = "loop" /\ nextConnected # None /\ sig[nextConnected] = "closed"
    /\ WaitForNextTunnel(nextConnected)
    /\ grace' = (grace \/ (nextConnected' = None /\ waiting = {}))
    /\ UNCHANGED <<envVars, gorVars, run, started, shuttingDown, active, waiting, timer, initByEnd>>

\* case <-s.gracefulShutdownC: the closed channel stays ready, so Run keeps
\* receiving from it; only the first time changes anything.
SeeShutdown ==
    /\ run = "loop" /\ graceful /\ ~shuttingDown
    /\ shuttingDown' = TRUE
    /\ UNCHANGED <<envVars, connVars, gorVars, run, started, active, waiting, timer, grace, initByEnd>>

\* case <-ctx.Done(): tunnelsActive errors are received before Run returns.
SeeCancelled ==
    /\ run = "loop" /\ ctxDone
    /\ run' = IF active > 0 THEN "draining" ELSE "returned"
    /\ UNCHANGED <<envVars, connVars, gorVars, started, shuttingDown, active, waiting, timer, grace, initByEnd>>

Drain ==
    /\ run = "draining"
    /\ \E i \in Conns : gor[i] = "sending" /\ Received(i)
    /\ active' = active - 1
    /\ run' = IF active' > 0 THEN run ELSE "returned"
    /\ UNCHANGED <<envVars, connVars, sig, firstLoop, started, shuttingDown, waiting, timer, grace, initByEnd>>
-----------------------------------------------------------------------------
(* waitToShutdown, which holds the other ends of the channels *)

Shutdown ==
    /\ run # "returned" /\ ~graceful
    /\ graceful' = TRUE
    /\ UNCHANGED <<mainVars, connVars, gorVars, ctxDone>>

\* The grace period has passed, or another server of the process failed.
Cancel ==
    /\ run # "returned" /\ ~ctxDone
    /\ ctxDone' = TRUE
    /\ UNCHANGED <<mainVars, connVars, gorVars, graceful>>

Main ==
    \/ InitConnected \/ InitFirstEnds \/ InitShutdown \/ InitCancelled
    \/ CancelledInitReceives \/ StartNext \/ EnterLoop
    \/ \E i \in Conns : ReceiveError(i) \/ ReceiveReconnect(i)
    \/ TimerFires \/ TunnelConnected \/ SeeShutdown \/ SeeCancelled \/ Drain

Goroutine(i) ==
    \/ Connect(i) \/ Notify(i) \/ NoAddress(i) \/ BackoffEnds(i)
    \/ \E e \in Errs : ServeEnds(i, e)

\* Run has returned, or waits for errors that nobody will send.
Terminated ==
    /\ run = "returned" \/ (run = "draining" /\ initByEnd)
    /\ UNCHANGED vars

Next ==
    \/ run # "returned" /\ (Main \/ \E i \in Conns : Goroutine(i))
    \/ Shutdown \/ Cancel \/ Terminated

Spec == Init /\ [][Next]_vars

\* Run and the goroutines are scheduled, timers fire, every blocking call of a
\* connection returns once the context is cancelled, and waitToShutdown cancels
\* it at the end of the grace period.  A select that is always ready for one
\* case takes it at some time, because Go chooses among the ready cases at
\* random.
Fairness ==
    /\ WF_vars(InitConnected \/ InitFirstEnds \/ InitShutdown \/ InitCancelled)
    /\ WF_vars(CancelledInitReceives) /\ WF_vars(StartNext) /\ WF_vars(EnterLoop)
    /\ WF_vars(TimerFires) /\ WF_vars(SeeShutdown) /\ WF_vars(SeeCancelled) /\ WF_vars(Drain)
    /\ WF_vars(TunnelConnected)
    /\ WF_vars(graceful /\ Cancel)
    /\ \A i \in Conns :
          /\ WF_vars(ReceiveError(i) \/ ReceiveReconnect(i))
          /\ WF_vars(run # "returned" /\ (Notify(i) \/ BackoffEnds(i)))
          /\ WF_vars(run # "returned" /\ ctxDone /\ ServeEnds(i, "cancelled"))
-----------------------------------------------------------------------------
(* Properties *)

TypeOK ==
    /\ run \in {"init", "cancelledInit", "starting", "loop", "draining", "returned"}
    /\ started \in 1 .. HAConnections
    /\ graceful \in BOOLEAN /\ ctxDone \in BOOLEAN /\ shuttingDown \in BOOLEAN
    /\ active \in 0 .. HAConnections /\ waiting \subseteq Conns
    /\ timer \in BOOLEAN /\ grace \in BOOLEAN
    /\ connecting \subseteq Conns /\ nextConnected \in Conns \cup {None}
    /\ gor \in [Conns -> {"none", "serving", "connected", "backoff", "sending"}]
    /\ err \in [Conns -> Errs]
    /\ sig \in [Conns -> {"open", "fused", "closed"}]
    /\ firstLoop \in BOOLEAN /\ initByEnd \in BOOLEAN

Live == {i \in Conns : gor[i] # "none"}

\* tunnelsActive counts the goroutines whose error Run has yet to receive, so
\* that Run returns only when none is left and never waits for one that is not
\* there; and no waiting tunnel is still running, so that restarting it never
\* makes a second goroutine for its index.
ActiveIsLive ==
    run \in {"loop", "draining"} /\ ~initByEnd =>
        active = Cardinality(Live) /\ waiting \cap Live = {}

\* Unless the program is being shut down, every connection is running or is
\* waiting with the backoff timer set: none is forgotten after an error,
\* whatever the order in which errors, signals and timers are received.
NoneForgotten ==
    run = "loop" /\ ~graceful /\ ~ctxDone =>
        \A i \in Conns : i \in Live \/ (i \in waiting /\ timer)

\* The supervisor knows its tunnels.
TunnelsCounted == ActiveIsLive /\ NoneForgotten

\* The grace period that resets the backoff starts only when every running
\* tunnel has connected, although Run watches the signal of one tunnel at a
\* time.
GraceAfterAllConnected ==
    [][~grace /\ grace' => \A i \in Live : sig[i] = "closed"]_vars

\* A graceful shutdown ends, whatever the connections are doing when it comes.
\* (Not when initialize took the end of the first tunnel for a connection.)
ShutdownEnds == graceful ~> (run = "returned" \/ initByEnd)

\* A waiting tunnel is started again or Run ends.
WaitingRestarts == \A i \in Conns : (i \in waiting) ~> (i \in Live \/ run = "returned")

\* Run always gets on: it shuts down, or restarts what waits.
SupervisorProgresses == ShutdownEnds /\ WaitingRestarts

\* initialize: "Returns nil if initialization succeeded", and Run counts on
\* HAConnections tunnels from then on.
NilMeansStarted ==
    [][(run = "init" \/ run = "starting") /\ run' = "loop" => Live' = Conns]_vars
=============================================================================
