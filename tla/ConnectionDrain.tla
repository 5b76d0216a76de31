-------------------------- MODULE ConnectionDrain --------------------------
(***************************************************************************)
(* What cloudflared promises the edge about the requests it accepts, with  *)
(* no transport, control stream or context left: each is answered at most  *)
(* once and ends answered or reset as long as its connection is up; and a  *)
(* connection is closed from this side only while it drains, with no       *)
(* request on it that came before it began to, unless it is excused.       *)
(***************************************************************************)
CONSTANTS Conns, Reqs, None

VARIABLES
    line,      \* connection -> "none", then "up", then "closed" or "lost"
    draining,  \* connections that expect no more requests
    excused,   \* connections whose time is up, or that failed
    ask        \* request -> where it is, its connection, answers begun, came late

vars == <<line, draining, excused, ask>>

Init ==
    /\ line = [c \in Conns |-> "none"] /\ draining = {} /\ excused = {}
    /\ ask = [r \in Reqs |-> [at |-> "none", on |-> None, answers |-> 0, late |-> FALSE]]

\* Connections begin to drain, or are excused; neither is taken back.
Notice(D, E) ==
    /\ draining' = draining \union D /\ excused' = excused \union E
    /\ UNCHANGED <<line, ask>>

Open(c) ==
    /\ line[c] = "none" /\ line' = [line EXCEPT ![c] = "up"]
    /\ UNCHANGED <<draining, excused, ask>>

Lose(c) ==
    /\ line[c] = "up" /\ line' = [line EXCEPT ![c] = "lost"] /\ draining' = draining \union {c}
    /\ UNCHANGED <<excused, ask>>

Close(c) ==
    /\ line[c] = "up" /\ c \in draining
    /\ c \in excused \/ \A r \in Reqs : (ask[r].at = "active" /\ ask[r].on = c) => ask[r].late
    /\ line' = [line EXCEPT ![c] = "closed"]
    /\ UNCHANGED <<draining, excused, ask>>

Arrive(r, c) ==
    /\ ask[r].at = "none" /\ line[c] = "up"
    /\ ask' = [ask EXCEPT ![r] = [at |-> "active", on |-> c, answers |-> 0, late |-> c \in draining]]
    /\ UNCHANGED <<line, draining, excused>>

Begin(r) ==
    /\ ask[r].at = "active" /\ ask[r].answers = 0 /\ ask' = [ask EXCEPT ![r].answers = 1]
    /\ UNCHANGED <<line, draining, excused>>

End(r) ==
    /\ ask[r].at = "active" /\ ask[r].answers = 1 /\ ask' = [ask EXCEPT ![r].at = "done"]
    /\ UNCHANGED <<line, draining, excused>>

\* The error is the answer, or breaks off the one that was begun.
Fail(r) ==
    /\ ask[r].at = "active"
    /\ ask' = [ask EXCEPT ![r].answers = 1, ![r].at = IF ask[r].answers = 0 THEN "done" ELSE "reset"]
    /\ UNCHANGED <<line, draining, excused>>

Cut(r) ==
    /\ ask[r].at = "active" /\ line[ask[r].on] # "up" /\ ask' = [ask EXCEPT ![r].at = "cut"]
    /\ UNCHANGED <<line, draining, excused>>

Next ==
    \/ \E D, E \in SUBSET Conns : Notice(D, E)
    \/ \E c \in Conns : Open(c) \/ Lose(c) \/ Close(c) \/ \E r \in Reqs : Arrive(r, c)
    \/ \E r \in Reqs : Begin(r) \/ End(r) \/ Fail(r) \/ Cut(r)

Spec == Init /\ [][Next]_vars
=============================================================================
