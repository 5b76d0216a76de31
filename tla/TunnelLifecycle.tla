--------------------------- MODULE TunnelLifecycle ---------------------------
(***************************************************************************)
(* What the tunnel API promises to its clients about one tunnel id, with   *)
(* no handler, lock, channel or signal handler left: an id enters the list *)
(* at most once and leaves it at most once; the start request is answered  *)
(* at most once; a process exists only for a listed id whose request was   *)
(* unanswered; and a request is answered "failed" only when its id is off  *)
(* the list and no process of it is left running undisturbed.              *)
(***************************************************************************)
CONSTANT Tunnels

VARIABLES
    phase,   \* "fresh", then "listed", then "over"
    answer,  \* "none", then "ok" or "failed"
    proc     \* "none", "running", "condemned" (signalled) and "dead"

vars == <<phase, answer, proc>>

Init ==
    /\ phase = [t \in Tunnels |-> "fresh"]
    /\ answer = [t \in Tunnels |-> "none"]
    /\ proc = [t \in Tunnels |-> "none"]

Enlist(t) ==
    /\ phase[t] = "fresh" /\ answer[t] = "none"
    /\ phase' = [phase EXCEPT ![t] = "listed"]
    /\ UNCHANGED <<answer, proc>>

Launch(t) ==
    /\ phase[t] # "fresh" /\ answer[t] = "none" /\ proc[t] = "none"
    /\ proc' = [proc EXCEPT ![t] = "running"]
    /\ UNCHANGED <<phase, answer>>

\* One request condemns one process, a shutdown several at once.
Condemn(S) ==
    /\ \A t \in S : proc[t] = "running"
    /\ proc' = [t \in Tunnels |-> IF t \in S THEN "condemned" ELSE proc[t]]
    /\ UNCHANGED <<phase, answer>>

Die(t) ==
    /\ proc[t] \in {"running", "condemned"}
    /\ proc' = [proc EXCEPT ![t] = "dead"]
    /\ UNCHANGED <<phase, answer>>

Delist(t) ==
    /\ phase[t] = "listed"
    /\ phase' = [phase EXCEPT ![t] = "over"]
    /\ UNCHANGED <<answer, proc>>

Succeed(t) ==
    /\ phase[t] # "fresh" /\ proc[t] # "none" /\ answer[t] = "none"
    /\ answer' = [answer EXCEPT ![t] = "ok"]
    /\ UNCHANGED <<phase, proc>>

Fail(t) ==
    /\ proc[t] # "running" /\ answer[t] = "none"
    /\ answer' = [answer EXCEPT ![t] = "failed"]
    /\ phase' = [phase EXCEPT ![t] = "over"]
    /\ UNCHANGED proc

Next ==
    \/ \E S \in SUBSET Tunnels : Condemn(S)
    \/ \E t \in Tunnels :
          Enlist(t) \/ Launch(t) \/ Die(t) \/ Delist(t) \/ Succeed(t) \/ Fail(t)

Spec == Init /\ [][Next]_vars

\* A condemned process dies.
FairSpec == Spec /\ \A t \in Tunnels : WF_vars(proc[t] = "condemned" /\ Die(t))
=============================================================================
