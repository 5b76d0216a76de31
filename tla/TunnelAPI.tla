------------------------------ MODULE TunnelAPI ------------------------------
(***************************************************************************)
(* The HTTP API of cmd/cloudflared/main.go: one worker process per quick   *)
(* tunnel, the map `running` of tunnel handles guarded by runningMu, the   *)
(* hub of URL channels, the start, stop and callback handlers, the Wait    *)
(* goroutine of each worker, and the shutdown goroutine of main.           *)
(*                                                                         *)
(* A tunnel t is the start request that creates it: randID gives every     *)
(* request an id of its own.  A step is one critical section or one system *)
(* call; between two steps of a handler any other goroutine may run.       *)
(***************************************************************************)
EXTENDS Naturals, FiniteSets

CONSTANTS
    Tunnels,        \* the start requests, one fresh id each
    Stoppers,       \* the stop requests
    MaxTunnels,     \* cfg.MaxTunnels
    Concurrent,     \* bound: start requests handled at the same time
    NoTarget,       \* the id of a stop request that has not been read
    ShutsDown       \* bound: whether main receives SIGINT or SIGTERM

ASSUME TunnelsAssumption == IsFiniteSet(Tunnels)
ASSUME BoundsAssumption == MaxTunnels \in Nat /\ Concurrent \in Nat \ {0}
ASSUME ShutsDownAssumption == ShutsDown \in BOOLEAN

VARIABLES
    running,    \* ids in the map `running`
    hub,        \* hub.ch: absent, or a channel of capacity 1
    status,     \* tunnelHandle.status
    failed,     \* tunnelHandle.err # nil
    start,      \* where the start handler is
    outcome,    \* the answer the start handler wrote
    waiter,     \* the goroutine that calls cmd.Wait; "closed" = h.done closed
    worker,     \* the worker process
    exitErr,    \* cmd.Wait will return an error
    sig,        \* strongest signal the worker has received
    cb,         \* the worker's callbacks, by kind
    stop,       \* where the stop handler is
    target,     \* the id a stop request names
    server,     \* main and its shutdown goroutine
    missed      \* history: tunnels a stop or the sweep could not signal

handleVars == <<status, failed>>
startVars  == <<start, outcome>>
workerVars == <<worker, exitErr, sig>>
stopVars   == <<stop, target>>
vars == <<running, hub, handleVars, startVars, waiter, workerVars, cb,
          stopVars, server, missed>>

Statuses == {"starting", "started", "stopped", "error", "timeout"}
StartPcs == {"new", "admitted", "registered", "inserted", "spawned", "waiting",
             "gotURL", "exitedErr", "exitedOk", "timedOut", "killed", "done"}
Outcomes == {"none", "rejected", "limit", "internal", "started", "exited",
             "stopped", "timeout"}
StopPcs  == {"new", "found", "marked", "waiting", "exited", "expired",
             "stopped", "missing"}
Kinds    == {"url", "error"}

\* The start handlers that have passed the capacity check and not returned.
InFlight == {t \in Tunnels : start[t] \notin {"new", "done"}}

Alive(t) == worker[t] \in {"boot", "serving", "exiting"}

\* What GET /tunnel/list returns.
Listed == [t \in running |-> status[t]]

Up == server # "gone"
\* runningMu is held across steps by the shutdown goroutine only.
LockFree == server \notin {"holding", "gone"}

Init ==
    /\ running = {}
    /\ hub = [t \in Tunnels |-> "none"]
    /\ status = [t \in Tunnels |-> "starting"]
    /\ failed = [t \in Tunnels |-> FALSE]
    /\ start = [t \in Tunnels |-> "new"]
    /\ outcome = [t \in Tunnels |-> "none"]
    /\ waiter = [t \in Tunnels |-> "none"]
    /\ worker = [t \in Tunnels |-> "none"]
    /\ exitErr = [t \in Tunnels |-> FALSE]
    /\ sig = [t \in Tunnels |-> "none"]
    /\ cb = [t \in Tunnels |-> [k \in Kinds |-> "none"]]
    /\ stop = [s \in Stoppers |-> "new"]
    /\ target = [s \in Stoppers |-> NoTarget]
    /\ server = "up"
    /\ missed = {}
-----------------------------------------------------------------------------
(* handleStartQuickTunnel *)

\* The handler returns the answer `o`; its deferred hub.unregister runs.
Answer(t, o) ==
    /\ start' = [start EXCEPT ![t] = "done"]
    /\ outcome' = [outcome EXCEPT ![t] = o]
    /\ hub' = [hub EXCEPT ![t] = "none"]

Goto(t, pc) ==
    /\ start' = [start EXCEPT ![t] = pc]
    /\ UNCHANGED outcome

\* Wrong method, unreadable body, invalid JSON or a request validate refuses.
RejectRequest(t) ==
    /\ Up /\ start[t] = "new"
    /\ Answer(t, "rejected")
    /\ UNCHANGED <<running, handleVars, waiter, workerVars, cb, stopVars, server, missed>>

\* Mutant: `>` for `>=` in the capacity check.
CheckCapacityOffByOne(t) ==
    /\ LockFree /\ start[t] = "new"
    /\ Cardinality(InFlight) < Concurrent
    /\ IF Cardinality(running) > MaxTunnels
       THEN Answer(t, "limit")
       ELSE Goto(t, "admitted") /\ UNCHANGED hub
    /\ UNCHANGED <<running, handleVars, waiter, workerVars, cb, stopVars, server, missed>>

\* tunnelCount is read under runningMu, and the mutex released.
CheckCapacity(t) ==
    /\ LockFree /\ start[t] = "new"
    /\ Cardinality(InFlight) < Concurrent
    /\ IF Cardinality(running) >= MaxTunnels
       THEN Answer(t, "limit")
       ELSE Goto(t, "admitted") /\ UNCHANGED hub
    /\ UNCHANGED <<running, handleVars, waiter, workerVars, cb, stopVars, server, missed>>

RegisterURLChannel(t) ==
    /\ Up /\ start[t] = "admitted"
    /\ Goto(t, "registered")
    /\ hub' = [hub EXCEPT ![t] = "empty"]
    /\ UNCHANGED <<running, handleVars, waiter, workerVars, cb, stopVars, server, missed>>

NoExecutable(t) ==
    /\ Up /\ start[t] = "registered"
    /\ Answer(t, "internal")
    /\ UNCHANGED <<running, handleVars, waiter, workerVars, cb, stopVars, server, missed>>

\* The handle enters the map.  One inserted after the shutdown sweep is missed.
InsertHandle(t) ==
    /\ LockFree /\ start[t] = "registered"
    /\ Goto(t, "inserted")
    /\ running' = running \cup {t}
    /\ missed' = IF server = "up" THEN missed ELSE missed \cup {t}
    /\ UNCHANGED <<hub, handleVars, waiter, workerVars, cb, stopVars, server>>

\* cmd.Start succeeds: the process exists.
SpawnWorker(t) ==
    /\ Up /\ start[t] = "inserted"
    /\ Goto(t, "spawned")
    /\ worker' = [worker EXCEPT ![t] = "boot"]
    /\ UNCHANGED <<running, hub, handleVars, waiter, exitErr, sig, cb, stopVars, server, missed>>

SpawnFails(t) ==
    /\ LockFree /\ start[t] = "inserted"
    /\ Answer(t, "internal")
    /\ running' = running \ {t}
    /\ UNCHANGED <<handleVars, waiter, workerVars, cb, stopVars, server, missed>>

\* h.pid is stored under h.mu and the goroutine that calls cmd.Wait starts.
PublishProcess(t) ==
    /\ Up /\ start[t] = "spawned"
    /\ Goto(t, "waiting")
    /\ waiter' = [waiter EXCEPT ![t] = "waiting"]
    /\ UNCHANGED <<running, hub, handleVars, workerVars, cb, stopVars, server, missed>>

TakeURL(t) ==
    /\ Up /\ start[t] = "waiting" /\ hub[t] = "full"
    /\ Goto(t, "gotURL")
    /\ hub' = [hub EXCEPT ![t] = "empty"]
    /\ UNCHANGED <<running, handleVars, waiter, workerVars, cb, stopVars, server, missed>>

MarkStarted(t) ==
    /\ Up /\ start[t] = "gotURL"
    /\ Answer(t, "started")
    /\ status' = [status EXCEPT ![t] = "started"]
    /\ UNCHANGED <<running, failed, waiter, workerVars, cb, stopVars, server, missed>>

\* h.done is closed; the snapshot decides between 500 and 200 "stopped".
SeeDone(t) ==
    /\ Up /\ start[t] = "waiting" /\ waiter[t] = "closed"
    /\ Goto(t, IF failed[t] THEN "exitedErr" ELSE "exitedOk")
    /\ UNCHANGED <<running, hub, handleVars, waiter, workerVars, cb, stopVars, server, missed>>

\* time.After(cfg.TunnelTimeout)
StartTimesOut(t) ==
    /\ Up /\ start[t] = "waiting"
    /\ Goto(t, "timedOut")
    /\ status' = [status EXCEPT ![t] = "timeout"]
    /\ UNCHANGED <<running, hub, failed, waiter, workerVars, cb, stopVars, server, missed>>

Signal(t, s) ==
    sig' = IF Alive(t) /\ sig[t] # "kill" THEN [sig EXCEPT ![t] = s] ELSE sig

KillTimedOut(t) ==
    /\ Up /\ start[t] = "timedOut"
    /\ Goto(t, "killed")
    /\ Signal(t, "kill")
    /\ UNCHANGED <<running, hub, handleVars, waiter, worker, exitErr, cb, stopVars, server, missed>>

\* Mutant: a worker that exited is left in the map.
DropFailedKeepsHandle(t) ==
    /\ LockFree
    /\ \/ start[t] = "exitedErr" /\ Answer(t, "exited") /\ UNCHANGED running
       \/ start[t] = "exitedOk" /\ Answer(t, "stopped") /\ UNCHANGED running
       \/ start[t] = "killed" /\ Answer(t, "timeout") /\ running' = running \ {t}
    /\ UNCHANGED <<handleVars, waiter, workerVars, cb, stopVars, server, missed>>

\* The failed start leaves the map and answers.
DropFailed(t) ==
    /\ LockFree
    /\ \/ start[t] = "exitedErr" /\ Answer(t, "exited")
       \/ start[t] = "exitedOk" /\ Answer(t, "stopped")
       \/ start[t] = "killed" /\ Answer(t, "timeout")
    /\ running' = running \ {t}
    /\ UNCHANGED <<handleVars, waiter, workerVars, cb, stopVars, server, missed>>
-----------------------------------------------------------------------------
(* The goroutine that waits for the worker *)

RecordExit(t) ==
    /\ Up /\ waiter[t] = "waiting" /\ worker[t] = "dead"
    /\ waiter' = [waiter EXCEPT ![t] = "recorded"]
    /\ failed' = [failed EXCEPT ![t] = @ \/ exitErr[t]]
    /\ status' = [status EXCEPT ![t] =
          IF ~exitErr[t] THEN "stopped"
          ELSE IF @ \in {"timeout", "stopped"} THEN @ ELSE "error"]
    /\ UNCHANGED <<running, hub, startVars, workerVars, cb, stopVars, server, missed>>

CloseDone(t) ==
    /\ Up /\ waiter[t] = "recorded"
    /\ waiter' = [waiter EXCEPT ![t] = "closed"]
    /\ UNCHANGED <<running, hub, handleVars, startVars, workerVars, cb, stopVars, server, missed>>
-----------------------------------------------------------------------------
(* The worker process: workerMain, RunQuickTunnel and StartServer *)

WorkerStep(t) ==
    UNCHANGED <<running, hub, handleVars, startVars, waiter, stopVars, server, missed>>

\* RunQuickTunnel has its tunnel and StartServer has installed waitForSignal.
WorkerServes(t) ==
    /\ worker[t] = "boot" /\ sig[t] = "none"
    /\ worker' = [worker EXCEPT ![t] = "serving"]
    /\ WorkerStep(t) /\ UNCHANGED <<exitErr, sig, cb>>

\* OnQuickTunnelURL posts the URL, once.
WorkerPostsURL(t) ==
    /\ worker[t] = "serving" /\ sig[t] # "kill" /\ cb[t]["url"] = "none"
    /\ cb' = [cb EXCEPT ![t]["url"] = "sent"]
    /\ WorkerStep(t) /\ UNCHANGED workerVars

\* app.RunContext returns an error: workerMain posts it and sleeps 150 ms.
WorkerFails(t) ==
    /\ \/ worker[t] = "boot" /\ sig[t] = "none"
       \/ worker[t] = "serving" /\ sig[t] # "kill"
    /\ worker' = [worker EXCEPT ![t] = "exiting"]
    /\ cb' = [cb EXCEPT ![t]["error"] = "sent"]
    /\ WorkerStep(t) /\ UNCHANGED <<exitErr, sig>>

WorkerDies(t, err) ==
    /\ worker' = [worker EXCEPT ![t] = "dead"]
    /\ exitErr' = [exitErr EXCEPT ![t] = err]
    /\ WorkerStep(t) /\ UNCHANGED <<sig, cb>>

\* Mutant: shutdown waits for the callback to have been delivered.
WorkerExitsAfterCallback(t) ==
    /\ worker[t] = "serving" /\ sig[t] # "kill" /\ cb[t]["url"] = "over"
    /\ WorkerDies(t, FALSE)

\* waitToShutdown returns nil, after a SIGTERM or because the tunnel ended.
WorkerExits(t) ==
    /\ worker[t] = "serving" /\ sig[t] # "kill"
    /\ WorkerDies(t, FALSE)

\* The exit(1) of workerMain, a signal without handler, SIGKILL, or a crash.
WorkerAborts(t) == Alive(t) /\ WorkerDies(t, TRUE)
-----------------------------------------------------------------------------
(* handleWorkerCallback *)

\* The handler reads `running` under runningMu.
CallbackLookup(t, k) ==
    /\ LockFree /\ cb[t][k] = "sent"
    /\ cb' = [cb EXCEPT ![t][k] = IF t \in running THEN "found" ELSE "over"]
    /\ UNCHANGED <<running, hub, handleVars, startVars, waiter, workerVars, stopVars, server, missed>>

\* The handler, which holds the handle, updates it under h.mu; hub.push never
\* blocks and drops the URL when nobody registered or the channel is full.
CallbackApply(t, k) ==
    /\ Up /\ cb[t][k] = "found"
    /\ cb' = [cb EXCEPT ![t][k] = "over"]
    /\ IF k = "error"
       THEN /\ failed' = [failed EXCEPT ![t] = TRUE]
            /\ status' = [status EXCEPT ![t] = "error"]
            /\ UNCHANGED hub
       ELSE /\ hub' = [hub EXCEPT ![t] = IF @ = "empty" THEN "full" ELSE @]
            /\ UNCHANGED handleVars
    /\ UNCHANGED <<running, startVars, waiter, workerVars, stopVars, server, missed>>

\* postJSON gives up after 3 seconds and its error is ignored.
CallbackLost(t, k) ==
    /\ cb[t][k] = "sent"
    /\ cb' = [cb EXCEPT ![t][k] = "over"]
    /\ UNCHANGED <<running, hub, handleVars, startVars, waiter, workerVars, stopVars, server, missed>>
-----------------------------------------------------------------------------
(* handleStopTunnel *)

StopLookup(s, t) ==
    /\ LockFree /\ stop[s] = "new"
    /\ target' = [target EXCEPT ![s] = t]
    /\ stop' = [stop EXCEPT ![s] = IF t \in running THEN "found" ELSE "missing"]
    /\ UNCHANGED <<running, hub, handleVars, startVars, waiter, workerVars, cb, server, missed>>

StopMark(s) ==
    /\ Up /\ stop[s] = "found"
    /\ stop' = [stop EXCEPT ![s] = "marked"]
    /\ status' = [status EXCEPT ![target[s]] = "stopped"]
    /\ UNCHANGED <<running, hub, failed, startVars, waiter, workerVars, cb, target, server, missed>>

\* cmd.Process is written by cmd.Start and read by others without a lock:
\* until h.mu is taken to store the pid, a reader may see it or not.
SeesProcess(t) == IF start[t] = "spawned" THEN BOOLEAN ELSE {worker[t] # "none"}

\* Signal fails only for a process that has exited, and the Kill that follows
\* then fails as well.
StopSignal(s) ==
    /\ Up /\ stop[s] = "marked"
    /\ stop' = [stop EXCEPT ![s] = "waiting"]
    /\ \E seen \in SeesProcess(target[s]) :
          IF seen THEN Signal(target[s], "term") /\ UNCHANGED missed
                  ELSE missed' = missed \cup {target[s]} /\ UNCHANGED sig
    /\ UNCHANGED <<running, hub, handleVars, startVars, waiter, worker, exitErr, cb, target, server>>

\* Mutant: the select of the stop handler has no time limit.
StopWaitsForDone(s) ==
    /\ Up /\ stop[s] = "waiting"
    /\ waiter[target[s]] = "closed"
    /\ stop' = [stop EXCEPT ![s] = "exited"]
    /\ UNCHANGED <<running, hub, handleVars, startVars, waiter, workerVars, cb, target, server, missed>>

\* h.done is closed, or 5 seconds pass.
StopWait(s) ==
    /\ Up /\ stop[s] = "waiting"
    /\ \/ waiter[target[s]] = "closed" /\ stop' = [stop EXCEPT ![s] = "exited"]
       \/ stop' = [stop EXCEPT ![s] = "expired"]
    /\ UNCHANGED <<running, hub, handleVars, startVars, waiter, workerVars, cb, target, server, missed>>

StopRemove(s) ==
    /\ LockFree /\ stop[s] \in {"exited", "expired"}
    /\ stop' = [stop EXCEPT ![s] = "stopped"]
    /\ running' = running \ {target[s]}
    /\ UNCHANGED <<hub, handleVars, startVars, waiter, workerVars, cb, target, server, missed>>
-----------------------------------------------------------------------------
(* The shutdown goroutine of main *)

\* SIGTERM to every process the goroutine sees, under runningMu.  Steps of the
\* sweep on different handles commute, so the loop is one step.
Sweep ==
    /\ ShutsDown /\ server = "up"
    /\ server' = "swept"
    /\ \E seen \in [running -> BOOLEAN] :
          /\ \A t \in running : seen[t] \in SeesProcess(t)
          /\ sig' = [t \in Tunnels |->
                IF t \in running /\ seen[t] /\ Alive(t) /\ sig[t] # "kill"
                THEN "term" ELSE sig[t]]
          /\ missed' = missed \cup {t \in running : ~seen[t]}
    /\ status' = [t \in Tunnels |-> IF t \in running THEN "stopped" ELSE status[t]]
    /\ UNCHANGED <<running, hub, failed, startVars, waiter, worker, exitErr, cb, stopVars>>

\* The goroutine that waits, with runningMu held, for each handle.
HoldLock ==
    /\ server = "swept" /\ server' = "holding"
    /\ UNCHANGED <<running, hub, handleVars, startVars, waiter, workerVars, cb, stopVars, missed>>

\* Every h.done is closed or has been given its 3 seconds.
ReleaseLock ==
    /\ server = "holding" /\ server' = "waited"
    /\ UNCHANGED <<running, hub, handleVars, startVars, waiter, workerVars, cb, stopVars, missed>>

\* httpServer.Shutdown makes ListenAndServe return and main end at once, after
\* the wait or after 10 seconds: no handler or goroutine takes another step.
ServerExits ==
    /\ server \in {"holding", "waited"} /\ server' = "gone"
    /\ UNCHANGED <<running, hub, handleVars, startVars, waiter, workerVars, cb, stopVars, missed>>
-----------------------------------------------------------------------------
StartStep(t) ==
    \/ RejectRequest(t) \/ CheckCapacity(t) \/ RegisterURLChannel(t)
    \/ NoExecutable(t) \/ InsertHandle(t) \/ SpawnWorker(t) \/ SpawnFails(t)
    \/ PublishProcess(t) \/ TakeURL(t) \/ MarkStarted(t) \/ SeeDone(t)
    \/ StartTimesOut(t) \/ KillTimedOut(t) \/ DropFailed(t)

WaiterStep(t) == RecordExit(t) \/ CloseDone(t)

ProcessStep(t) ==
    \/ WorkerServes(t) \/ WorkerPostsURL(t) \/ WorkerFails(t)
    \/ WorkerExits(t) \/ WorkerAborts(t)

CallbackStep(t) == \E k \in Kinds : CallbackLookup(t, k) \/ CallbackApply(t, k) \/ CallbackLost(t, k)

StopStep(s) == StopMark(s) \/ StopSignal(s) \/ StopWait(s) \/ StopRemove(s)

ShutdownStep == HoldLock \/ ReleaseLock \/ ServerExits

\* Every worker has ended, no callback is on its way, and the server has
\* exited, or has answered every request and has nothing left to wait for.
Terminated ==
    /\ \A t \in Tunnels : ~Alive(t) /\ \A k \in Kinds : cb[t][k] # "sent"
    /\ \/ server = "gone"
       \/ /\ \A t \in Tunnels : start[t] = "done" /\ waiter[t] \in {"none", "closed"}
          /\ \A s \in Stoppers : stop[s] \in {"stopped", "missing"}
    /\ UNCHANGED vars

Next ==
    \/ \E t \in Tunnels :
          StartStep(t) \/ WaiterStep(t) \/ ProcessStep(t) \/ CallbackStep(t)
    \/ \E s \in Stoppers : StopStep(s) \/ \E t \in Tunnels : StopLookup(s, t)
    \/ Sweep \/ ShutdownStep
    \/ Terminated

Spec == Init /\ [][Next]_vars

\* A worker that must end: it was killed, met SIGTERM before its handler was
\* installed, or is in the last sleep of workerMain.
Ending(t) ==
    \/ sig[t] = "kill" \/ worker[t] = "exiting"
    \/ worker[t] = "boot" /\ sig[t] = "term"

\* Goroutines that can run do run and timers fire; the kernel delivers
\* signals; a SIGTERM ends waitToShutdown within the grace period.
\* Nothing makes a request arrive, a worker get its URL or a signal reach main.
Fairness ==
    /\ \A t \in Tunnels :
          /\ WF_vars(start[t] # "new" /\ StartStep(t))
          /\ WF_vars(WaiterStep(t))
          /\ WF_vars(Ending(t) /\ WorkerAborts(t))
          /\ WF_vars(sig[t] = "term" /\ WorkerExits(t))
          /\ WF_vars(CallbackStep(t))
    /\ \A s \in Stoppers : WF_vars(StopStep(s))
    /\ WF_vars(ShutdownStep)
-----------------------------------------------------------------------------
(* Properties *)

TypeOK ==
    /\ running \subseteq Tunnels
    /\ hub \in [Tunnels -> {"none", "empty", "full"}]
    /\ status \in [Tunnels -> Statuses]
    /\ failed \in [Tunnels -> BOOLEAN]
    /\ start \in [Tunnels -> StartPcs]
    /\ outcome \in [Tunnels -> Outcomes]
    /\ waiter \in [Tunnels -> {"none", "waiting", "recorded", "closed"}]
    /\ worker \in [Tunnels -> {"none", "boot", "serving", "exiting", "dead"}]
    /\ exitErr \in [Tunnels -> BOOLEAN]
    /\ sig \in [Tunnels -> {"none", "term", "kill"}]
    /\ cb \in [Tunnels -> [Kinds -> {"none", "sent", "found", "over"}]]
    /\ stop \in [Stoppers -> StopPcs]
    /\ target \in [Stoppers -> Tunnels \cup {NoTarget}]
    /\ \A s \in Stoppers : stop[s] # "new" => target[s] \in Tunnels
    /\ server \in {"up", "swept", "holding", "waited", "gone"}
    /\ missed \subseteq Tunnels

\* The capacity check and the insertion are two critical sections, so the map
\* may exceed MaxTunnels, but by less than the number of requests in flight.
CapacityBound ==
    Cardinality(running) + 1 <= MaxTunnels + Concurrent

\* An id in `running` belongs to a start handler that will remove it or to a
\* request that was answered "started": no failed start leaves its handle.
ListedIsOwned ==
    \A t \in running :
        t \in InFlight \/ (start[t] = "done" /\ outcome[t] = "started")

\* A live worker that nobody has signalled is in `running` of a server that
\* has not begun to shut down, so that a stop or the sweep can still reach it;
\* the exceptions are the workers whose process a stop or the sweep did not
\* see, or that were started behind the sweep.
WorkersAccountedFor ==
    \A t \in Tunnels :
        Alive(t) /\ sig[t] = "none" /\ t \notin missed =>
            server = "up" /\ t \in running

\* README: "LISTS ACTIVE TUNNELS".
ActiveAreListed ==
    \A t \in Tunnels :
        Up /\ Alive(t) /\ sig[t] = "none" => t \in DOMAIN Listed

\* A start that was answered as failed has no worker left, or one that was
\* sent SIGKILL.
FailedStartLeavesNoWorker ==
    \A t \in Tunnels :
        start[t] = "done" /\ outcome[t] # "started" =>
            t \notin running /\ (Alive(t) => sig[t] = "kill")

\* A stop handler that saw h.done closed stopped a process that has exited.
StoppedMeansExited ==
    \A s \in Stoppers : stop[s] = "exited" => worker[target[s]] = "dead"

\* A start is answered "started" only when the worker of this very tunnel has
\* reported a URL, whatever else happened to it since.
StartedHasURL ==
    \A t \in Tunnels :
        start[t] = "gotURL" \/ outcome[t] = "started" => cb[t]["url"] = "over"

\* What clients and the list are told agrees with what the workers do: each
\* listed tunnel, failed start, confirmed stop, reported URL and live worker.
AnswersAndWorkersAgree ==
    /\ ListedIsOwned /\ WorkersAccountedFor /\ FailedStartLeavesNoWorker
    /\ StoppedMeansExited /\ StartedHasURL

\* Every admitted start request is answered unless the server exits.
StartIsAnswered ==
    \A t \in Tunnels : t \in InFlight ~> (start[t] = "done" \/ server = "gone")

\* Every stop request that found its tunnel is answered, and takes the tunnel
\* out of `running`, unless the server exits.
StopIsAnswered ==
    \A s \in Stoppers :
        stop[s] = "found" ~> (stop[s] = "stopped" \/ server = "gone")

\* What a client sees of the state.
Phase == [t \in Tunnels |->
    IF t \in running THEN "listed"
    ELSE IF start[t] \in {"new", "admitted", "registered"} THEN "fresh" ELSE "over"]
AnswerSeen == [t \in Tunnels |->
    IF start[t] # "done" THEN "none"
    ELSE IF outcome[t] = "started" THEN "ok" ELSE "failed"]
Proc == [t \in Tunnels |->
    IF ~Alive(t) THEN worker[t]
    ELSE IF sig[t] = "none" THEN "running" ELSE "condemned"]

Lifecycle == INSTANCE TunnelLifecycle WITH
    phase <- Phase, answer <- AnswerSeen, proc <- Proc

\* Every step of the API is a step of TunnelLifecycle or changes nothing that
\* a client sees, and a worker that was signalled ends, whether the server is
\* still there or not.
ImplementsLifecycle == Lifecycle!FairSpec

\* Once main has caught a signal it exits, whatever the workers do.
ShutdownEnds == server = "swept" ~> server = "gone"

\* Nobody waits for ever: not a start, a stop, nor the shutdown.
EveryoneIsAnswered == StartIsAnswered /\ StopIsAnswered /\ ShutdownEnds
=============================================================================
