---------------------------- MODULE TunnelServer ----------------------------
(***************************************************************************)
(* The process that runs a tunnel: TunnelCommand and StartServer start the *)
(* auto-updater, the metrics server and the supervisor, which report their *)
(* end on one unbuffered channel, and waitToShutdown ends the process on a *)
(* signal or with the first of them.                                       *)
(***************************************************************************)
EXTENDS Naturals

VARIABLES
    mainAt,     \* where TunnelCommand is
    graceSet,   \* --grace-period is not zero
    daemons,    \* goroutine -> off, runs, gone, or what it sends on errC: error or nil
    serverCtx,  \* the context of the server is cancelled
    graceC,     \* graceShutdownC is closed
    drainer,    \* the goroutine that discards errors runs
    connected,  \* a connection is up; waits for it: systemd's notification, the pid file
    exitWith    \* what the process ends with

serverVars == <<mainAt, graceSet, daemons, serverCtx, graceC, drainer, connected, exitWith>>

Daemons == {"updater", "metrics", "supervisor"}

ServerInit ==
    /\ mainAt = "command" /\ graceSet \in BOOLEAN /\ daemons = [d \in Daemons |-> "off"]
    /\ serverCtx = FALSE /\ graceC = FALSE /\ drainer = FALSE /\ connected = "no" /\ exitWith = "-"

Spawn(d) == daemons' = [daemons EXCEPT ![d] = "runs"]
\* An early return cancels the context and leaves what was started behind.
ReturnError == mainAt' = "failed" /\ exitWith' = "error" /\ serverCtx' = TRUE

\* A name, or the address of an origin; anything else is refused.
TunnelCommand ==
    /\ mainAt = "command"
    /\ \/ mainAt' \in {"adhoc", "quick"} /\ UNCHANGED <<exitWith, serverCtx>>
       \/ ReturnError
    /\ UNCHANGED <<graceSet, daemons, graceC, drainer, connected>>

\* The tunnel is found or created, and run even if it could not be routed.
RunAdhocNamedTunnel ==
    /\ mainAt = "adhoc"
    /\ \/ mainAt' = "start" /\ UNCHANGED <<exitWith, serverCtx>>
       \/ ReturnError
    /\ UNCHANGED <<graceSet, daemons, graceC, drainer, connected>>

\* The tunnel is asked for; the answer may not be understood.
RunQuickTunnel ==
    /\ mainAt = "quick"
    /\ \/ mainAt' = "start" /\ UNCHANGED <<exitWith, serverCtx>>
       \/ ReturnError
    /\ UNCHANGED <<graceSet, daemons, graceC, drainer, connected>>

\* Sentry or the trace file may fail before the first goroutine is started.
StartUpdater ==
    /\ mainAt = "start"
    /\ \/ mainAt' = "prepare" /\ Spawn("updater") /\ UNCHANGED <<exitWith, serverCtx>>
       \/ ReturnError /\ UNCHANGED daemons
    /\ UNCHANGED <<graceSet, graceC, drainer, connected>>

\* prepareTunnelConfig and the orchestrator may fail.
Prepare ==
    /\ mainAt = "prepare"
    /\ \/ mainAt' = "listen" /\ UNCHANGED <<exitWith, serverCtx>>
       \/ ReturnError
    /\ UNCHANGED <<graceSet, daemons, graceC, drainer, connected>>

\* CreateMetricsListener tries the known ports, then any.
ListenMetrics ==
    /\ mainAt = "listen"
    /\ \/ mainAt' = "connect" /\ Spawn("metrics") /\ UNCHANGED <<exitWith, serverCtx>>
       \/ ReturnError /\ UNCHANGED daemons
    /\ UNCHANGED <<graceSet, graceC, drainer, connected>>

\* The grace period is valid here: prepareTunnelConfig has checked it.
StartDaemon ==
    /\ mainAt = "connect" /\ mainAt' = "wait" /\ Spawn("supervisor")
    /\ UNCHANGED <<graceSet, serverCtx, graceC, drainer, connected, exitWith>>

\* waitForSignal; the worker's own shutdown closes the channel as well.
Signal ==
    /\ mainAt \notin {"command", "adhoc", "quick", "returned", "failed"} /\ ~graceC /\ graceC' = TRUE
    /\ UNCHANGED <<mainAt, graceSet, daemons, serverCtx, drainer, connected, exitWith>>

Connected ==
    /\ daemons["supervisor"] = "runs" /\ connected = "no" /\ connected' = "yes"
    /\ UNCHANGED <<mainAt, graceSet, daemons, serverCtx, graceC, drainer, exitWith>>
NotifyReady ==
    /\ connected = "yes" /\ connected' = "notified"
    /\ UNCHANGED <<mainAt, graceSet, daemons, serverCtx, graceC, drainer, exitWith>>

Ends(d, result) ==
    /\ daemons[d] = "runs" /\ daemons' = [daemons EXCEPT ![d] = result]
    /\ UNCHANGED <<mainAt, graceSet, serverCtx, graceC, drainer, connected, exitWith>>
\* The updater ends with an update or the context, either of which is an error.
UpdaterEnds == Ends("updater", "error")
\* The supervisor ends with an error at any time, and without one only after a
\* graceful shutdown or with the context.
SupervisorEnds == Ends("supervisor", "error") \/ ((graceC \/ serverCtx) /\ Ends("supervisor", "nil"))
\* ServeMetrics waits for the context, even if its server failed long before.
MetricsEnds == serverCtx /\ \E result \in {"error", "nil"} : Ends("metrics", result)

Receive(d) == daemons[d] \in {"error", "nil"} /\ daemons' = [daemons EXCEPT ![d] = "gone"]

\* What is received first need not be an error: it is what main returns.
FirstError ==
    /\ mainAt = "wait" /\ mainAt' = "cancel"
    /\ \E d \in Daemons : Receive(d) /\ exitWith' = IF daemons[d] = "error" THEN "error" ELSE exitWith
    /\ UNCHANGED <<graceSet, serverCtx, graceC, drainer, connected>>
GraceStarts ==
    /\ mainAt = "wait" /\ graceC /\ mainAt' = IF graceSet THEN "grace" ELSE "cancel"
    /\ UNCHANGED <<graceSet, daemons, serverCtx, graceC, drainer, connected, exitWith>>
\* The period passes, or one of the three ends before; its error is dropped.
GraceEnds ==
    /\ mainAt = "grace" /\ mainAt' = "cancel"
    /\ UNCHANGED daemons \/ \E d \in Daemons : Receive(d)
    /\ UNCHANGED <<graceSet, serverCtx, graceC, drainer, connected, exitWith>>

\* Mutant: nobody receives from errC any more.
CancelServerOnly ==
    /\ mainAt = "cancel" /\ mainAt' = "join" /\ serverCtx' = TRUE
    /\ UNCHANGED <<graceSet, daemons, graceC, drainer, connected, exitWith>>
CancelServer ==
    /\ mainAt = "cancel" /\ mainAt' = "join" /\ serverCtx' = TRUE /\ drainer' = TRUE
    /\ UNCHANGED <<graceSet, daemons, graceC, connected, exitWith>>

Discard ==
    /\ drainer /\ \E d \in Daemons : Receive(d)
    /\ UNCHANGED <<mainAt, graceSet, serverCtx, graceC, drainer, connected, exitWith>>

\* wg.Wait
Join ==
    /\ mainAt = "join" /\ \A d \in Daemons : daemons[d] \in {"off", "gone"}
    /\ mainAt' = "returned" /\ drainer' = FALSE /\ exitWith' = IF exitWith = "-" THEN "ok" ELSE exitWith
    /\ UNCHANGED <<graceSet, daemons, serverCtx, graceC, connected>>

ServerNext ==
    \/ TunnelCommand \/ RunAdhocNamedTunnel \/ RunQuickTunnel \/ StartUpdater \/ Prepare \/ ListenMetrics \/ StartDaemon
    \/ Signal \/ Connected \/ NotifyReady \/ UpdaterEnds \/ MetricsEnds \/ SupervisorEnds
    \/ FirstError \/ GraceStarts \/ GraceEnds \/ CancelServer \/ Discard \/ Join

\* main and the drain loop run; the daemons stop once the context is cancelled.
ServerFairness ==
    /\ WF_serverVars(StartUpdater \/ Prepare \/ ListenMetrics \/ StartDaemon \/ FirstError \/ GraceStarts \/ GraceEnds \/ CancelServer \/ Join)
    /\ WF_serverVars(Discard) /\ WF_serverVars(MetricsEnds)
    /\ WF_serverVars(serverCtx /\ UpdaterEnds) /\ WF_serverVars(serverCtx /\ SupervisorEnds)
-----------------------------------------------------------------------------
\* waitToShutdown reports success only after a signal: what ends its wait without
\* one is an error, although errC may also carry nil.  Whatever it reports, it
\* leaves no goroutine behind, each having sent its result to somebody; and while
\* it waits for them their context has ended and somebody receives.
CleanExit ==
    /\ exitWith = "ok" => mainAt = "returned" /\ graceC
    /\ mainAt = "returned" => serverCtx /\ \A d \in Daemons : daemons[d] = "gone"
    /\ mainAt = "join" => serverCtx /\ drainer

\* A signal, at whatever point of the start, ends the process: the three
\* goroutines cannot end without somebody to receive what they send on errC,
\* and waitToShutdown cannot end without them.
SignalEndsServer == graceC ~> (mainAt \in {"returned", "failed"})
=============================================================================
