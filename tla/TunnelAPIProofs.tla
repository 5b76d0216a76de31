--------------------------- MODULE TunnelAPIProofs ---------------------------
(***************************************************************************)
(* Safety of TunnelAPI for any finite set of requests, any MaxTunnels and  *)
(* any number of concurrent handlers.                                      *)
(***************************************************************************)
EXTENDS TunnelAPI, FiniteSetTheorems, TLAPS

Unborn == {"new", "admitted", "registered", "inserted"}
NeverSpawned == {"rejected", "limit", "internal"}

\* A request has an outcome exactly when its handler has returned, and a
\* worker exactly when cmd.Start has succeeded for it.
OutcomeInv ==
    \A t \in Tunnels :
        /\ start[t] = "done" <=> outcome[t] # "none"
        /\ worker[t] = "none" <=> start[t] \in Unborn \/ outcome[t] \in NeverSpawned
        /\ sig[t] # "none" => worker[t] # "none"

\* What the goroutine that waits has seen is true, and what the handler has
\* concluded from it still is.
ExitInv ==
    \A t \in Tunnels :
        /\ waiter[t] \in {"recorded", "closed"} => worker[t] = "dead"
        /\ start[t] \in {"exitedErr", "exitedOk"} \/ outcome[t] \in {"exited", "stopped"}
              => worker[t] = "dead"
        /\ start[t] = "killed" \/ outcome[t] = "timeout" => (Alive(t) => sig[t] = "kill")

\* The entries of the map are past their insertion and not of a failed start.
ListInv ==
    \A t \in running :
        /\ start[t] \notin {"new", "admitted", "registered"}
        /\ start[t] = "done" => outcome[t] = "started"

\* A worker that runs, or is about to, and was not signalled.
Loose(t) == start[t] = "inserted" \/ (Alive(t) /\ sig[t] = "none")

\* A stop request that has looked its tunnel up found one past its insertion;
\* one that has signalled has signalled it or counted it as missed.
StopInv ==
    \A s \in Stoppers :
        /\ stop[s] \in {"found", "marked", "waiting", "exited", "expired"} =>
              start[target[s]] \notin {"new", "admitted", "registered"}
        /\ stop[s] \in {"waiting", "exited", "expired"} /\ Loose(target[s]) =>
              target[s] \in missed
        /\ stop[s] = "exited" => worker[target[s]] = "dead"

LooseInv ==
    \A t \in Tunnels :
        Loose(t) /\ t \notin missed => server = "up" /\ t \in running

URLInv ==
    \A t \in Tunnels :
        hub[t] = "full" \/ start[t] = "gotURL" \/ outcome[t] = "started" =>
            cb[t]["url"] = "over"

IInv == TypeOK /\ OutcomeInv /\ ExitInv /\ ListInv /\ StopInv /\ LooseInv /\ URLInv

\* Nothing has happened yet: every conjunct holds of the first state.
LEMMA InitIInv == Init => IInv
  BY DEF Init, IInv, TypeOK, OutcomeInv, ExitInv, ListInv, StopInv, LooseInv,
     URLInv, Loose, Alive, Statuses, StartPcs, Outcomes, StopPcs, Kinds, Unborn,
     NeverSpawned

\* No step leaves the types.
LEMMA NextTypeOK == TypeOK /\ [Next]_vars => TypeOK'
<1> SUFFICES ASSUME TypeOK, [Next]_vars PROVE TypeOK'
  OBVIOUS
<1> USE DEF TypeOK, handleVars, startVars, workerVars, stopVars, Statuses,
        StartPcs, Outcomes, StopPcs, Kinds, Answer, Goto
<1>1. ASSUME NEW t \in Tunnels, StartStep(t) PROVE TypeOK'
  <2>1. CASE RejectRequest(t) BY <2>1 DEF RejectRequest
  <2>2. CASE CheckCapacity(t)
    <3>1. CASE Answer(t, "limit") BY <2>2, <3>1 DEF CheckCapacity
    <3>2. CASE Goto(t, "admitted") /\ UNCHANGED hub BY <2>2, <3>2 DEF CheckCapacity
    <3> QED BY <2>2, <3>1, <3>2 DEF CheckCapacity
  <2>3. CASE RegisterURLChannel(t) BY <2>3 DEF RegisterURLChannel
  <2>4. CASE NoExecutable(t) BY <2>4 DEF NoExecutable
  <2>5. CASE InsertHandle(t) BY <2>5 DEF InsertHandle
  <2>6. CASE SpawnWorker(t) BY <2>6 DEF SpawnWorker
  <2>7. CASE SpawnFails(t) BY <2>7 DEF SpawnFails
  <2>8. CASE PublishProcess(t) BY <2>8 DEF PublishProcess
  <2>9. CASE TakeURL(t) BY <2>9 DEF TakeURL
  <2>10. CASE MarkStarted(t) BY <2>10 DEF MarkStarted
  <2>11. CASE SeeDone(t) BY <2>11 DEF SeeDone
  <2>12. CASE StartTimesOut(t) BY <2>12 DEF StartTimesOut
  <2>13. CASE KillTimedOut(t) BY <2>13 DEF KillTimedOut, Signal
  <2>14. CASE DropFailed(t)
    <3>1. PICK o \in {"exited", "stopped", "timeout"} : Answer(t, o)
      BY <2>14 DEF DropFailed
    <3> QED BY <2>14, <3>1 DEF DropFailed
  <2> QED BY <1>1, <2>1, <2>2, <2>3, <2>4, <2>5, <2>6, <2>7, <2>8, <2>9, <2>10,
             <2>11, <2>12, <2>13, <2>14 DEF StartStep
<1>3. ASSUME NEW t \in Tunnels, WaiterStep(t) PROVE TypeOK'
  <2>1. CASE RecordExit(t) BY <2>1 DEF RecordExit
  <2>2. CASE CloseDone(t) BY <2>2 DEF CloseDone
  <2> QED BY <1>3, <2>1, <2>2 DEF WaiterStep
<1>4. ASSUME NEW t \in Tunnels, ProcessStep(t) PROVE TypeOK'
  <2>1. CASE WorkerServes(t) BY <2>1 DEF WorkerServes, WorkerStep
  <2>2. CASE WorkerPostsURL(t) BY <2>2 DEF WorkerPostsURL, WorkerStep
  <2>3. CASE WorkerFails(t) BY <2>3 DEF WorkerFails, WorkerStep
  <2>4. CASE WorkerExits(t) BY <2>4 DEF WorkerExits, WorkerDies, WorkerStep
  <2>5. CASE WorkerAborts(t) BY <2>5 DEF WorkerAborts, WorkerDies, WorkerStep
  <2> QED BY <1>4, <2>1, <2>2, <2>3, <2>4, <2>5 DEF ProcessStep
<1>5. ASSUME NEW t \in Tunnels, CallbackStep(t) PROVE TypeOK'
  <2> PICK k \in Kinds : CallbackLookup(t, k) \/ CallbackApply(t, k) \/ CallbackLost(t, k)
    BY <1>5 DEF CallbackStep
  <2>1. CASE CallbackLookup(t, k) BY <2>1 DEF CallbackLookup
  <2>2. CASE CallbackApply(t, k)
    <3>1. CASE k = "error"
      <4>0. failed' = [failed EXCEPT ![t] = TRUE] BY <2>2, <3>1, Zenon DEF CallbackApply
      <4>1. failed' \in [Tunnels -> BOOLEAN] BY <4>0
      <4>2. status' \in [Tunnels -> Statuses] BY <2>2, <3>1 DEF CallbackApply
      <4>3. cb' \in [Tunnels -> [Kinds -> {"none", "sent", "found", "over"}]]
        BY <2>2 DEF CallbackApply
      <4> QED BY <2>2, <3>1, <4>1, <4>2, <4>3 DEF CallbackApply
    <3>2. CASE k # "error" BY <2>2, <3>2 DEF CallbackApply
    <3> QED BY <3>1, <3>2
  <2>3. CASE CallbackLost(t, k) BY <2>3 DEF CallbackLost
  <2> QED BY <2>1, <2>2, <2>3
<1>6. ASSUME NEW s \in Stoppers, StopStep(s) PROVE TypeOK'
  <2>1. CASE StopMark(s) BY <2>1 DEF StopMark
  <2>2. CASE StopSignal(s)
    <3>1. target[s] \in Tunnels BY <2>2 DEF StopSignal
    <3>2. sig' \in [Tunnels -> {"none", "term", "kill"}]
      <4>1. CASE Signal(target[s], "term") BY <3>1, <4>1 DEF Signal
      <4>2. CASE UNCHANGED sig BY <4>2
      <4> QED BY <2>2, <4>1, <4>2 DEF StopSignal
    <3>3. missed' \subseteq Tunnels BY <2>2, <3>1 DEF StopSignal
    <3> QED BY <2>2, <3>2, <3>3 DEF StopSignal
  <2>3. CASE StopWait(s)
    <3>1. PICK pc \in {"exited", "expired"} : stop' = [stop EXCEPT ![s] = pc]
      BY <2>3 DEF StopWait
    <3> QED BY <2>3, <3>1 DEF StopWait
  <2>4. CASE StopRemove(s) BY <2>4 DEF StopRemove
  <2> QED BY <1>6, <2>1, <2>2, <2>3, <2>4 DEF StopStep
<1>7. ASSUME NEW s \in Stoppers, NEW t \in Tunnels, StopLookup(s, t) PROVE TypeOK'
  BY <1>7 DEF StopLookup
<1>8. CASE Sweep BY <1>8 DEF Sweep
<1>9. CASE ShutdownStep BY <1>9 DEF ShutdownStep, HoldLock, ReleaseLock, ServerExits
<1>10. CASE UNCHANGED vars \/ Terminated BY <1>10 DEF vars, Terminated
<1> QED BY <1>1, <1>3, <1>4, <1>5, <1>6, <1>7, <1>8, <1>9, <1>10 DEF Next

\* Every step of a handler, a worker, a waiter or main keeps the invariant.
LEMMA NextIInv == IInv /\ [Next]_vars => IInv'
<1> SUFFICES ASSUME IInv, [Next]_vars PROVE IInv'
  OBVIOUS
<1> DEFINE Rest == OutcomeInv /\ ExitInv /\ ListInv /\ StopInv /\ LooseInv /\ URLInv
<1>0. TypeOK /\ TypeOK' /\ Rest
  BY NextTypeOK DEF IInv
<1> SUFFICES Rest'
  BY <1>0 DEF IInv
<1> USE DEF TypeOK, OutcomeInv, ExitInv, ListInv, StopInv, LooseInv, URLInv, Loose,
        Alive, Unborn, NeverSpawned, handleVars, startVars, workerVars, stopVars,
        StartPcs, Outcomes, StopPcs, Kinds, Answer, Goto
<1>1. ASSUME NEW t \in Tunnels, StartStep(t) PROVE Rest'
  <2>1. CASE RejectRequest(t) BY <1>0, <2>1 DEF RejectRequest
  <2>2. CASE CheckCapacity(t)
    <3>1. CASE Answer(t, "limit") BY <1>0, <2>2, <3>1 DEF CheckCapacity
    <3>2. CASE Goto(t, "admitted") /\ UNCHANGED hub BY <1>0, <2>2, <3>2 DEF CheckCapacity
    <3> QED BY <2>2, <3>1, <3>2 DEF CheckCapacity
  <2>3. CASE RegisterURLChannel(t) BY <1>0, <2>3 DEF RegisterURLChannel
  <2>4. CASE NoExecutable(t) BY <1>0, <2>4 DEF NoExecutable
  <2>5. CASE InsertHandle(t) BY <1>0, <2>5 DEF InsertHandle
  <2>6. CASE SpawnWorker(t) BY <1>0, <2>6 DEF SpawnWorker
  <2>7. CASE SpawnFails(t) BY <1>0, <2>7 DEF SpawnFails
  <2>8. CASE PublishProcess(t) BY <1>0, <2>8 DEF PublishProcess
  <2>9. CASE TakeURL(t) BY <1>0, <2>9 DEF TakeURL
  <2>10. CASE MarkStarted(t) BY <1>0, <2>10 DEF MarkStarted
  <2>11. CASE SeeDone(t) BY <1>0, <2>11 DEF SeeDone
  <2>12. CASE StartTimesOut(t) BY <1>0, <2>12 DEF StartTimesOut
  <2>13. CASE KillTimedOut(t) BY <1>0, <2>13 DEF KillTimedOut, Signal
  <2>14. CASE DropFailed(t)
    <3>1. CASE start[t] = "exitedErr" /\ Answer(t, "exited") BY <1>0, <2>14, <3>1 DEF DropFailed
    <3>2. CASE start[t] = "exitedOk" /\ Answer(t, "stopped") BY <1>0, <2>14, <3>2 DEF DropFailed
    <3>3. CASE start[t] = "killed" /\ Answer(t, "timeout") BY <1>0, <2>14, <3>3 DEF DropFailed
    <3> QED BY <2>14, <3>1, <3>2, <3>3 DEF DropFailed
  <2> QED BY <1>1, <2>1, <2>2, <2>3, <2>4, <2>5, <2>6, <2>7, <2>8, <2>9, <2>10,
             <2>11, <2>12, <2>13, <2>14 DEF StartStep
<1>3. ASSUME NEW t \in Tunnels, WaiterStep(t) PROVE Rest'
  <2>1. CASE RecordExit(t) BY <1>0, <2>1 DEF RecordExit
  <2>2. CASE CloseDone(t) BY <1>0, <2>2 DEF CloseDone
  <2> QED BY <1>3, <2>1, <2>2 DEF WaiterStep
<1>4. ASSUME NEW t \in Tunnels, ProcessStep(t) PROVE Rest'
  <2>1. CASE WorkerServes(t) BY <1>0, <2>1 DEF WorkerServes, WorkerStep
  <2>2. CASE WorkerPostsURL(t) BY <1>0, <2>2 DEF WorkerPostsURL, WorkerStep
  <2>3. CASE WorkerFails(t) BY <1>0, <2>3 DEF WorkerFails, WorkerStep
  <2>4. CASE WorkerExits(t) BY <1>0, <2>4 DEF WorkerExits, WorkerDies, WorkerStep
  <2>5. CASE WorkerAborts(t) BY <1>0, <2>5 DEF WorkerAborts, WorkerDies, WorkerStep
  <2> QED BY <1>4, <2>1, <2>2, <2>3, <2>4, <2>5 DEF ProcessStep
<1>5. ASSUME NEW t \in Tunnels, CallbackStep(t) PROVE Rest'
  <2> PICK k \in Kinds : CallbackLookup(t, k) \/ CallbackApply(t, k) \/ CallbackLost(t, k)
    BY <1>5 DEF CallbackStep
  <2>1. CASE CallbackLookup(t, k) BY <1>0, <2>1 DEF CallbackLookup
  <2>2. CASE CallbackApply(t, k)
    <3>1. CASE k = "error" BY <1>0, <2>2, <3>1 DEF CallbackApply
    <3>2. CASE k # "error" BY <1>0, <2>2, <3>2 DEF CallbackApply
    <3> QED BY <3>1, <3>2
  <2>3. CASE CallbackLost(t, k) BY <1>0, <2>3 DEF CallbackLost
  <2> QED BY <2>1, <2>2, <2>3
<1>6. ASSUME NEW s \in Stoppers, StopStep(s) PROVE Rest'
  <2>1. CASE StopMark(s) BY <1>0, <2>1 DEF StopMark
  <2>2. CASE StopSignal(s)
    <3> PICK seen \in SeesProcess(target[s]) :
            IF seen THEN Signal(target[s], "term") /\ UNCHANGED missed
                    ELSE missed' = missed \cup {target[s]} /\ UNCHANGED sig
      BY <2>2 DEF StopSignal
    <3>1. CASE seen
      <4>1. UNCHANGED <<running, hub, start, outcome, waiter, worker, cb, target, server, missed>>
        BY <2>2, <3>1 DEF StopSignal
      <4>2. Signal(target[s], "term") /\ stop' = [stop EXCEPT ![s] = "waiting"]
        BY <2>2, <3>1 DEF StopSignal
      <4>3. target[s] \in Tunnels /\ start[target[s]] \notin {"new", "admitted", "registered"}
        BY <1>0, <2>2 DEF StopSignal
      <4>4. start[target[s]] # "inserted"
        BY <1>0, <3>1, <4>3 DEF SeesProcess
      <4>5. Alive(target[s]) => sig'[target[s]] # "none"
        BY <1>0, <4>2, <4>3 DEF Signal
      <4>6. \A t \in Tunnels : /\ sig[t] # "none" => sig'[t] # "none"
                               /\ sig[t] = "kill" => sig'[t] = "kill"
        BY <1>0, <4>2, <4>3 DEF Signal
      <4>7. \A t \in Tunnels : sig'[t] # sig[t] => worker[t] # "none"
        BY <1>0, <4>2, <4>3 DEF Signal
      <4>8. (OutcomeInv /\ ExitInv /\ ListInv /\ URLInv /\ LooseInv)'
        BY <1>0, <4>1, <4>6, <4>7
      <4>9. StopInv'
        BY <1>0, <4>1, <4>2, <4>3, <4>4, <4>5, <4>6
      <4> QED BY <4>8, <4>9
    <3>2. CASE ~seen BY <1>0, <2>2, <3>2 DEF StopSignal, SeesProcess
    <3> QED BY <3>1, <3>2
  <2>3. CASE StopWait(s) BY <1>0, <2>3 DEF StopWait
  <2>4. CASE StopRemove(s) BY <1>0, <2>4 DEF StopRemove
  <2> QED BY <1>6, <2>1, <2>2, <2>3, <2>4 DEF StopStep
<1>7. ASSUME NEW s \in Stoppers, NEW t \in Tunnels, StopLookup(s, t) PROVE Rest'
  BY <1>0, <1>7 DEF StopLookup
<1>8. CASE Sweep
  <2> PICK seen \in [running -> BOOLEAN] :
          /\ \A t \in running : seen[t] \in SeesProcess(t)
          /\ sig' = [t \in Tunnels |->
                IF t \in running /\ seen[t] /\ Alive(t) /\ sig[t] # "kill"
                THEN "term" ELSE sig[t]]
          /\ missed' = missed \cup {t \in running : ~seen[t]}
    BY <1>8 DEF Sweep
  <2>1. UNCHANGED <<running, hub, start, outcome, waiter, worker, cb, stop, target>>
    BY <1>8 DEF Sweep
  <2>2. \A t \in Tunnels : sig[t] # "none" => sig'[t] # "none"
    OBVIOUS
  <2>3. \A t \in Tunnels : sig[t] = "kill" => sig'[t] = "kill"
    OBVIOUS
  <2>4. \A t \in running : Loose(t)' => t \in missed'
    BY <1>0, <2>1 DEF SeesProcess
  <2>5. (OutcomeInv /\ ExitInv /\ ListInv /\ URLInv)'
    BY <1>0, <2>1, <2>2, <2>3
  <2>6. StopInv'
    BY <1>0, <2>1, <2>2
  <2>7. LooseInv'
    BY <1>0, <2>1, <2>2, <2>4
  <2> QED BY <2>5, <2>6, <2>7
<1>9. CASE ShutdownStep BY <1>0, <1>9 DEF ShutdownStep, HoldLock, ReleaseLock, ServerExits
<1>10. CASE UNCHANGED vars \/ Terminated BY <1>0, <1>10 DEF vars, Terminated
<1> QED BY <1>1, <1>3, <1>4, <1>5, <1>6, <1>7, <1>8, <1>9, <1>10 DEF Next

\* Every variable keeps the values the code can give it; no handler uses a
\* handle its stop request did not find.
THEOREM TypeCorrect == Spec => []TypeOK
<1>1. TypeOK /\ [Next]_vars => TypeOK' BY NextTypeOK
<1>2. Init => TypeOK BY InitIInv DEF IInv
<1> QED BY <1>1, <1>2, PTL DEF Spec

\* The inductive invariant holds in every state.
LEMMA Invariance == Spec => []IInv
  BY InitIInv, NextIInv, PTL DEF Spec

\* The properties follow from the invariant.
LEMMA IInvImplies ==
  IInv => /\ ListedIsOwned /\ WorkersAccountedFor /\ FailedStartLeavesNoWorker
          /\ StoppedMeansExited /\ StartedHasURL
<1> SUFFICES ASSUME IInv
    PROVE /\ ListedIsOwned /\ WorkersAccountedFor /\ FailedStartLeavesNoWorker
          /\ StoppedMeansExited /\ StartedHasURL
  OBVIOUS
<1> USE DEF IInv, TypeOK
<1>1. ListedIsOwned BY DEF ListInv, ListedIsOwned, InFlight
<1>2. WorkersAccountedFor BY DEF LooseInv, Loose, WorkersAccountedFor
<1>3. FailedStartLeavesNoWorker
  BY DEF FailedStartLeavesNoWorker, OutcomeInv, ExitInv, ListInv, Alive, Outcomes, NeverSpawned
<1>4. StoppedMeansExited BY DEF StoppedMeansExited, StopInv
<1>5. StartedHasURL BY DEF StartedHasURL, URLInv
<1> QED BY <1>1, <1>2, <1>3, <1>4, <1>5

\* For any number of requests: no failed start leaves its handle or its worker
\* behind, a worker nobody signalled is in the map of a server that is up unless
\* its process was missed, a confirmed stop stopped a process that has exited,
\* and a started tunnel has a URL from its own worker.
THEOREM Agreement == Spec => []AnswersAndWorkersAgree
<1>1. IInv => AnswersAndWorkersAgree BY IInvImplies DEF AnswersAndWorkersAgree
<1> QED BY <1>1, Invariance, PTL
-----------------------------------------------------------------------------
(* Capacity *)

\* Past the capacity check, before the insertion.
Admitted == {t \in Tunnels : start[t] \in {"admitted", "registered"}}

CapacityInv == Cardinality(running \cup Admitted) + 1 <= MaxTunnels + Concurrent

\* Only CheckCapacity lets a new id in.
LEMMA AdmissionOnly ==
  ASSUME TypeOK, [Next]_vars, ~\E t \in Tunnels : CheckCapacity(t)
  PROVE  running' \cup Admitted' \subseteq running \cup Admitted
<1> USE DEF TypeOK, Admitted, handleVars, startVars, workerVars, stopVars, Answer, Goto
<1>1. ASSUME NEW t \in Tunnels, StartStep(t)
      PROVE running' \cup Admitted' \subseteq running \cup Admitted
  BY <1>1 DEF StartStep, RejectRequest, RegisterURLChannel, NoExecutable, InsertHandle,
     SpawnWorker, SpawnFails, PublishProcess, TakeURL, MarkStarted, SeeDone,
     StartTimesOut, KillTimedOut, DropFailed
<1>2. ASSUME NEW t \in Tunnels, WaiterStep(t)
      PROVE UNCHANGED <<running, start>>
  BY <1>2 DEF WaiterStep, RecordExit, CloseDone
<1>3. ASSUME NEW t \in Tunnels, ProcessStep(t) PROVE UNCHANGED <<running, start>>
  BY <1>3 DEF ProcessStep, WorkerServes, WorkerPostsURL, WorkerFails, WorkerExits,
     WorkerAborts, WorkerDies, WorkerStep
<1>4. ASSUME NEW t \in Tunnels, CallbackStep(t) PROVE UNCHANGED <<running, start>>
  BY <1>4 DEF CallbackStep, CallbackLookup, CallbackApply, CallbackLost
<1>5. ASSUME NEW s \in Stoppers, StopStep(s)
      PROVE running' \subseteq running /\ UNCHANGED start
  BY <1>5 DEF StopStep, StopMark, StopSignal, StopWait, StopRemove
<1>6. ASSUME NEW s \in Stoppers, NEW t \in Tunnels, StopLookup(s, t)
      PROVE UNCHANGED <<running, start>>
  BY <1>6 DEF StopLookup
<1>7. ASSUME Sweep \/ ShutdownStep \/ Terminated \/ UNCHANGED vars
      PROVE UNCHANGED <<running, start>>
  BY <1>7 DEF Sweep, ShutdownStep, HoldLock, ReleaseLock, ServerExits, Terminated, vars
<1> QED BY <1>1, <1>2, <1>3, <1>4, <1>5, <1>6, <1>7 DEF Next

\* The count of listed tunnels and admitted handlers stays within its bound.
LEMMA NextCapacity ==
  ASSUME TypeOK, CapacityInv, [Next]_vars
  PROVE  CapacityInv'
<1> DEFINE S == running \cup Admitted
<1>1. IsFiniteSet(S) /\ IsFiniteSet(running) /\ IsFiniteSet(InFlight)
  BY TunnelsAssumption, FS_Subset DEF TypeOK, Admitted, InFlight
<1>2. CASE ~\E t \in Tunnels : CheckCapacity(t)
  <2>1. S' \subseteq S BY <1>2, AdmissionOnly
  <2>2. Cardinality(S') <= Cardinality(S) /\ Cardinality(S) \in Nat /\ Cardinality(S') \in Nat
    BY <1>1, <2>1, FS_Subset, FS_CardinalityType
  <2> QED BY <2>2, BoundsAssumption DEF CapacityInv
<1>3. ASSUME NEW t \in Tunnels, CheckCapacity(t) PROVE CapacityInv'
  <2>0. Cardinality(S) \in Nat /\ Cardinality(running) \in Nat /\ Cardinality(InFlight) \in Nat
    BY <1>1, FS_CardinalityType
  <2>1. CASE Cardinality(running) >= MaxTunnels
    <3>1. S' \subseteq S
      BY <1>3, <2>1 DEF CheckCapacity, Answer, Admitted, TypeOK
    <3>2. Cardinality(S') <= Cardinality(S) /\ Cardinality(S') \in Nat
      BY <1>1, <3>1, FS_Subset, FS_CardinalityType
    <3> QED BY <2>0, <3>2, BoundsAssumption DEF CapacityInv
  <2>2. CASE ~(Cardinality(running) >= MaxTunnels)
    <3> DEFINE F == InFlight \cup {t}
    <3>1. S' \subseteq running \cup F
      BY <1>3, <2>2 DEF CheckCapacity, Goto, Admitted, InFlight, TypeOK
    <3>2. IsFiniteSet(F) /\ Cardinality(F) <= Cardinality(InFlight) + 1 /\ Cardinality(F) \in Nat
      <4>1. t \notin InFlight BY <1>3 DEF CheckCapacity, InFlight
      <4>2. IsFiniteSet(F) /\ Cardinality(F) = Cardinality(InFlight) + 1
        BY <1>1, <4>1, FS_AddElement
      <4> QED BY <2>0, <4>2
    <3>3. /\ IsFiniteSet(running \cup F)
          /\ Cardinality(running \cup F) <= Cardinality(running) + Cardinality(F)
      <4> HIDE DEF F
      <4>1. IsFiniteSet(running \cap F) /\ Cardinality(running \cap F) \in Nat
        BY <1>1, FS_Subset, FS_CardinalityType
      <4>2. /\ IsFiniteSet(running \cup F)
            /\ Cardinality(running \cup F) =
                 Cardinality(running) + Cardinality(F) - Cardinality(running \cap F)
        BY <1>1, <3>2, FS_Union
      <4> QED BY <2>0, <3>2, <4>1, <4>2
    <3>4. Cardinality(S') <= Cardinality(running \cup F) /\ Cardinality(S') \in Nat
      BY <3>1, <3>3, FS_Subset, FS_CardinalityType
    <3>5. Cardinality(running) < MaxTunnels /\ Cardinality(InFlight) < Concurrent
      BY <1>3, <2>0, <2>2, BoundsAssumption DEF CheckCapacity
    <3>6. Cardinality(running \cup F) \in Nat
      BY <3>3, FS_CardinalityType
    <3> QED BY <2>0, <3>2, <3>3, <3>4, <3>5, <3>6, BoundsAssumption DEF CapacityInv
  <2> QED BY <2>1, <2>2
<1> QED BY <1>2, <1>3

\* `running` exceeds MaxTunnels by less than the number of start requests
\* handled at the same time, and not at all when they come one at a time.
THEOREM Capacity == Spec => []CapacityBound
<1>1. Init => CapacityInv
  <2> SUFFICES ASSUME Init PROVE CapacityInv
    OBVIOUS
  <2>1. running \cup Admitted = {} BY DEF Init, Admitted
  <2>2. Cardinality({}) = 0 BY FS_EmptySet
  <2> QED BY <2>1, <2>2, BoundsAssumption DEF CapacityInv
<1>2. TypeOK /\ CapacityInv /\ [Next]_vars => CapacityInv'
  BY NextCapacity
<1>3. TypeOK /\ CapacityInv => CapacityBound
  <2> SUFFICES ASSUME TypeOK, CapacityInv PROVE CapacityBound
    OBVIOUS
  <2>1. IsFiniteSet(running \cup Admitted)
    BY TunnelsAssumption, FS_Subset DEF TypeOK, Admitted
  <2>2. /\ Cardinality(running) <= Cardinality(running \cup Admitted)
        /\ Cardinality(running) \in Nat /\ Cardinality(running \cup Admitted) \in Nat
    BY <2>1, FS_Subset, FS_CardinalityType
  <2> QED BY <2>2, BoundsAssumption DEF CapacityInv, CapacityBound
<1> QED BY <1>1, <1>2, <1>3, TypeCorrect, PTL DEF Spec
-----------------------------------------------------------------------------
(* Refinement of TunnelLifecycle *)

Stutters == UNCHANGED <<Phase, AnswerSeen, Proc>>

\* The first states map to first states of TunnelLifecycle.
LEMMA InitRefines == Init => Lifecycle!Init
  BY DEF Init, Lifecycle!Init, Phase, AnswerSeen, Proc, Alive

\* A step that only signals workers is a step of TunnelLifecycle.
LEMMA CondemnIsStep ==
  ASSUME NEW S \in SUBSET Tunnels, Lifecycle!Condemn(S)
  PROVE  Lifecycle!Next
  BY DEF Lifecycle!Next

\* A start that fails before its handle is in the map.
LEMMA EarlyFailure ==
  ASSUME IInv, NEW t \in Tunnels, NEW o \in {"rejected", "limit", "internal"},
         start[t] \in {"new", "registered"}, Answer(t, o),
         UNCHANGED <<running, worker, sig>>
  PROVE  Lifecycle!Fail(t)
<1> USE DEF IInv, TypeOK
<1>1. t \notin running /\ worker[t] = "none"
  BY DEF ListInv, OutcomeInv, Unborn
<1>2. Proc[t] # "running" /\ AnswerSeen[t] = "none"
  BY <1>1 DEF Proc, AnswerSeen, Alive
<1>3. AnswerSeen' = [AnswerSeen EXCEPT ![t] = "failed"]
  BY DEF AnswerSeen, Answer
<1>4. Phase' = [Phase EXCEPT ![t] = "over"]
  BY <1>1 DEF Phase, Answer
<1>5. Proc' = Proc
  BY DEF Proc, Alive
<1> QED BY <1>2, <1>3, <1>4, <1>5 DEF Lifecycle!Fail

\* The answer to a start whose worker has ended or was killed is a failed start
\* of TunnelLifecycle too, and the tunnel leaves the list with it.
LEMMA LateFailure ==
  ASSUME IInv, NEW t \in Tunnels, DropFailed(t)
  PROVE  Lifecycle!Fail(t)
<1> USE DEF IInv, TypeOK
<1>1. start[t] \in {"exitedErr", "exitedOk", "killed"} BY DEF DropFailed
<1>2. PICK o \in {"exited", "stopped", "timeout"} : Answer(t, o) BY DEF DropFailed
<1>3. running' = running \ {t} /\ UNCHANGED workerVars BY DEF DropFailed
<1>4. Proc[t] # "running" /\ AnswerSeen[t] = "none"
  BY <1>1 DEF Proc, AnswerSeen, Alive, ExitInv
<1>5. AnswerSeen' = [AnswerSeen EXCEPT ![t] = "failed"]
  BY <1>2 DEF AnswerSeen, Answer
<1>6. Phase' = [Phase EXCEPT ![t] = "over"]
  BY <1>2, <1>3 DEF Phase, Answer
<1>7. Proc' = Proc
  BY <1>3 DEF Proc, Alive, workerVars
<1> QED BY <1>4, <1>5, <1>6, <1>7 DEF Lifecycle!Fail

\* Every step maps to a step of TunnelLifecycle or changes nothing in it.
LEMMA NextRefines ==
  ASSUME IInv, [Next]_vars
  PROVE  Lifecycle!Next \/ Stutters
<1> USE DEF IInv, TypeOK, Phase, AnswerSeen, Proc, Alive, Stutters, StartPcs, Outcomes
<1>1. ASSUME NEW t \in Tunnels, StartStep(t) PROVE Lifecycle!Next \/ Stutters
  <2> USE DEF handleVars, startVars, workerVars, stopVars, Answer, Goto, OutcomeInv,
          Unborn, NeverSpawned
  <2>1. CASE RejectRequest(t)
    <3>1. Lifecycle!Fail(t) BY <2>1, EarlyFailure DEF RejectRequest
    <3> QED BY <3>1 DEF Lifecycle!Next
  <2>2. CASE CheckCapacity(t)
    <3>1. CASE Answer(t, "limit")
      <4>1. Lifecycle!Fail(t) BY <2>2, <3>1, EarlyFailure DEF CheckCapacity
      <4> QED BY <4>1 DEF Lifecycle!Next
    <3>2. CASE Goto(t, "admitted")
      BY <2>2, <3>2 DEF CheckCapacity
    <3> QED BY <2>2, <3>1, <3>2 DEF CheckCapacity
  <2>3. CASE RegisterURLChannel(t) BY <2>3 DEF RegisterURLChannel
  <2>4. CASE NoExecutable(t)
    <3>1. Lifecycle!Fail(t) BY <2>4, EarlyFailure DEF NoExecutable
    <3> QED BY <3>1 DEF Lifecycle!Next
  <2>5. CASE InsertHandle(t)
    <3>1. Lifecycle!Enlist(t) BY <2>5 DEF InsertHandle, Lifecycle!Enlist, ListInv
    <3> QED BY <3>1 DEF Lifecycle!Next
  <2>6. CASE SpawnWorker(t)
    <3>1. Lifecycle!Launch(t) BY <2>6 DEF SpawnWorker, Lifecycle!Launch
    <3> QED BY <3>1 DEF Lifecycle!Next
  <2>7. CASE SpawnFails(t)
    <3>1. Lifecycle!Fail(t) BY <2>7 DEF SpawnFails, Lifecycle!Fail
    <3> QED BY <3>1 DEF Lifecycle!Next
  <2>8. CASE PublishProcess(t) BY <2>8 DEF PublishProcess
  <2>9. CASE TakeURL(t) BY <2>9 DEF TakeURL
  <2>10. CASE MarkStarted(t)
    <3>1. Lifecycle!Succeed(t) BY <2>10 DEF MarkStarted, Lifecycle!Succeed
    <3> QED BY <3>1 DEF Lifecycle!Next
  <2>11. CASE SeeDone(t) BY <2>11 DEF SeeDone
  <2>12. CASE StartTimesOut(t) BY <2>12 DEF StartTimesOut
  <2>13. CASE KillTimedOut(t)
    <3>1. CASE Alive(t) /\ sig[t] = "none"
      <4>1. Lifecycle!Condemn({t})
        BY <2>13, <3>1 DEF KillTimedOut, Signal, Lifecycle!Condemn
      <4> QED BY <4>1 DEF Lifecycle!Next
    <3>2. CASE ~(Alive(t) /\ sig[t] = "none")
      BY <2>13, <3>2 DEF KillTimedOut, Signal
    <3> QED BY <3>1, <3>2
  <2>14. CASE DropFailed(t)
    <3>1. Lifecycle!Fail(t) BY <2>14, LateFailure
    <3> QED BY <3>1 DEF Lifecycle!Next
  <2> QED BY <1>1, <2>1, <2>2, <2>3, <2>4, <2>5, <2>6, <2>7, <2>8, <2>9, <2>10,
             <2>11, <2>12, <2>13, <2>14 DEF StartStep
<1>2. ASSUME NEW t \in Tunnels, WaiterStep(t) PROVE Stutters
  BY <1>2 DEF WaiterStep, RecordExit, CloseDone, workerVars, startVars
<1>3. ASSUME NEW t \in Tunnels, ProcessStep(t) PROVE Lifecycle!Next \/ Stutters
  <2> USE DEF WorkerStep, startVars, workerVars
  <2>1. CASE WorkerServes(t) BY <2>1 DEF WorkerServes
  <2>2. CASE WorkerPostsURL(t) BY <2>2 DEF WorkerPostsURL
  <2>3. CASE WorkerFails(t) BY <2>3 DEF WorkerFails
  <2>4. CASE WorkerExits(t) \/ WorkerAborts(t)
    <3>1. /\ Alive(t) /\ worker' = [worker EXCEPT ![t] = "dead"]
          /\ UNCHANGED <<running, start, outcome, sig>>
      BY <2>4 DEF WorkerExits, WorkerAborts, WorkerDies
    <3>2. Proc' = [Proc EXCEPT ![t] = "dead"] BY <3>1
    <3>3. UNCHANGED <<Phase, AnswerSeen>> BY <3>1
    <3>4. Proc[t] \in {"running", "condemned"} BY <3>1
    <3> HIDE DEF Phase, AnswerSeen, Proc
    <3>5. Lifecycle!Die(t) BY <3>2, <3>3, <3>4 DEF Lifecycle!Die
    <3> QED BY <3>5 DEF Lifecycle!Next
  <2> QED BY <1>3, <2>1, <2>2, <2>3, <2>4 DEF ProcessStep
<1>4. ASSUME NEW t \in Tunnels, CallbackStep(t) PROVE Stutters
  BY <1>4 DEF CallbackStep, CallbackLookup, CallbackApply, CallbackLost, workerVars, startVars
<1>5. ASSUME NEW s \in Stoppers, StopStep(s) PROVE Lifecycle!Next \/ Stutters
  <2> DEFINE t == target[s]
  <2> USE DEF workerVars, startVars
  <2>1. CASE StopMark(s) \/ StopWait(s) BY <2>1 DEF StopMark, StopWait
  <2>2. CASE StopSignal(s)
    <3>1. t \in Tunnels BY <2>2 DEF StopSignal
    <3>2. UNCHANGED <<running, start, outcome, worker>> BY <2>2 DEF StopSignal
    <3>3. Signal(t, "term") \/ UNCHANGED sig BY <2>2 DEF StopSignal
    <3> HIDE DEF t
    <3>4. CASE Alive(t) /\ sig[t] = "none" /\ Signal(t, "term")
      <4>1. Lifecycle!Condemn({t}) BY <3>1, <3>2, <3>4 DEF Signal, Lifecycle!Condemn
      <4> HIDE DEF Phase, AnswerSeen, Proc
      <4> QED BY <3>1, <4>1, CondemnIsStep
    <3>5. CASE ~(Alive(t) /\ sig[t] = "none") /\ Signal(t, "term")
      BY <3>1, <3>2, <3>5 DEF Signal
    <3>6. CASE UNCHANGED sig BY <3>2, <3>6
    <3> QED BY <3>3, <3>4, <3>5, <3>6
  <2>3. CASE StopRemove(s)
    <3>1. t \in Tunnels /\ start[t] \notin {"new", "admitted", "registered"}
      BY <2>3 DEF StopRemove, StopInv
    <3>2. running' = running \ {t} /\ UNCHANGED <<start, outcome, worker, sig>>
      BY <2>3 DEF StopRemove
    <3> HIDE DEF t
    <3>3. CASE t \in running
      <4>1. Lifecycle!Delist(t) BY <3>1, <3>2, <3>3 DEF Lifecycle!Delist
      <4> HIDE DEF Phase, AnswerSeen, Proc
      <4> QED BY <3>1, <4>1 DEF Lifecycle!Next
    <3>4. CASE t \notin running BY <3>2, <3>4
    <3> QED BY <3>3, <3>4
  <2> QED BY <1>5, <2>1, <2>2, <2>3 DEF StopStep
<1>6. ASSUME NEW s \in Stoppers, NEW t \in Tunnels, StopLookup(s, t) PROVE Stutters
  BY <1>6 DEF StopLookup, workerVars, startVars
<1>7. CASE Sweep
  <2> DEFINE C == {t \in Tunnels : Alive(t) /\ sig[t] = "none" /\ sig'[t] # "none"}
  <2>1. UNCHANGED <<running, start, outcome, worker>> BY <1>7 DEF Sweep, startVars
  <2>2. \A t \in Tunnels : sig[t] # "none" => sig'[t] # "none" BY <1>7 DEF Sweep
  <2>3. Lifecycle!Condemn(C) BY <2>1, <2>2 DEF Lifecycle!Condemn
  <2>4. C \in SUBSET Tunnels OBVIOUS
  <2> HIDE DEF Phase, AnswerSeen, Proc, C
  <2> QED BY <2>3, <2>4, CondemnIsStep
<1>8. CASE ShutdownStep \/ Terminated \/ UNCHANGED vars
  BY <1>8 DEF ShutdownStep, HoldLock, ReleaseLock, ServerExits, Terminated, vars,
     workerVars, startVars
<1> QED BY <1>1, <1>2, <1>3, <1>4, <1>5, <1>6, <1>7, <1>8 DEF Next

\* Every behaviour of the API is, to a client, one of TunnelLifecycle.
THEOREM Refinement == Spec => Lifecycle!Spec
<1>1. IInv /\ [Next]_vars => [Lifecycle!Next]_(Lifecycle!vars)
  BY NextRefines DEF Stutters, Lifecycle!vars
<1> QED BY <1>1, InitRefines, Invariance, PTL DEF Spec, Lifecycle!Spec
=============================================================================
