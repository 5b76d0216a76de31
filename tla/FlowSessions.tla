---------------------------- MODULE FlowSessions ----------------------------
(***************************************************************************)
(* UDP flows over QUIC (quic/v3): the session manager shared by all edge   *)
(* connections, the flow limiter it shares with TCP flows, and the         *)
(* goroutines that handle registration datagrams.  The goroutine that      *)
(* creates a session serves it until it ends, so a session is named after  *)
(* its goroutine.  Registering a flow that has a session on another        *)
(* connection migrates the session to the connection that asks.            *)
(***************************************************************************)
EXTENDS Naturals, FiniteSets

CONSTANTS
    Flows,     \* request ids
    Conns,     \* connections to the edge (datagramConn)
    Index,     \* their connection index: a connection that replaces a lost
               \* one has the index of the lost one
    Handlers,  \* bound: registration datagrams
    Limits,    \* values of MaxActiveFlows, 0 for no limit
    MaxTCP,    \* bound: TCP flows
    None

ASSUME FlowsAssumption ==
    /\ IsFiniteSet(Flows) /\ IsFiniteSet(Handlers) /\ None \notin Handlers
    /\ DOMAIN Index = Conns
    /\ Limits # {} /\ Limits \subseteq Nat /\ MaxTCP \in Nat

VARIABLES
    link,     \* a connection is "new", "up" or "lost" (its context is done)
    pc,       \* where a handler is
    flow,     \* the flow of its datagram
    conn,     \* the connection that received the datagram
    target,   \* the session it migrates
    sessions, \* sessionManager.sessions
    eyeball,  \* session.eyeball
    ctx,      \* the connection whose context ends the session (connCtx)
    counter,  \* flowLimiter.activeFlowsCounter
    limit,    \* flowLimiter.maxActiveFlows
    tcp,      \* TCP flows being proxied
    leaked    \* history: flows counted whose socket could not be bound

hVars == <<pc, flow, conn, target>>
sVars == <<sessions, eyeball, ctx>>
vars == <<link, hVars, sVars, counter, limit, tcp, leaked>>

Init ==
    /\ link = [c \in Conns |-> "new"]
    /\ pc = [h \in Handlers |-> "idle"]
    /\ flow \in [Handlers -> Flows] /\ conn \in [Handlers -> Conns]
    /\ target = [h \in Handlers |-> None]
    /\ sessions = [f \in Flows |-> None]
    /\ eyeball = conn /\ ctx = conn
    /\ counter = 0 /\ limit \in Limits /\ tcp = 0 /\ leaked = 0

Goto(h, label) == pc' = [pc EXCEPT ![h] = label]

\* flowLimiter.Acquire succeeds.
Free == limit = 0 \/ counter < limit

\* flowLimiter.Release
Release == counter' = IF counter = 0 THEN 0 ELSE counter - 1
-----------------------------------------------------------------------------
(* Registration *)

\* datagramConn.Serve starts a goroutine for a registration datagram.
Datagram(h) ==
    /\ pc[h] = "idle" /\ link[conn[h]] = "up"
    /\ Goto(h, "arrived")
    /\ UNCHANGED <<link, flow, conn, target, sVars, counter, limit, tcp, leaked>>

\* RegisterSession, which holds the mutex of the manager throughout.
AlreadyRegistered(h) ==
    /\ pc[h] = "arrived" /\ sessions[flow[h]] # None
    /\ Index[eyeball[sessions[flow[h]]]] = Index[conn[h]]
    /\ Goto(h, "already")
    /\ UNCHANGED <<link, flow, conn, target, sVars, counter, limit, tcp, leaked>>

BoundToOtherConn(h) ==
    /\ pc[h] = "arrived" /\ sessions[flow[h]] # None
    /\ Index[eyeball[sessions[flow[h]]]] # Index[conn[h]]
    /\ Goto(h, "lookup")
    /\ UNCHANGED <<link, flow, conn, target, sVars, counter, limit, tcp, leaked>>

RateLimited(h) ==
    /\ pc[h] = "arrived" /\ sessions[flow[h]] = None /\ ~Free
    /\ Goto(h, "answered")
    /\ UNCHANGED <<link, flow, conn, target, sVars, counter, limit, tcp, leaked>>

\* The slot is not released when DialUDP fails.
DialFails(h) ==
    /\ pc[h] = "arrived" /\ sessions[flow[h]] = None /\ Free
    /\ Goto(h, "answered")
    /\ counter' = counter + 1 /\ leaked' = leaked + 1
    /\ UNCHANGED <<link, flow, conn, target, sVars, limit, tcp>>

\* Mutant: the limit is compared with the counter after the increment.
NewSessionLate(h) ==
    /\ pc[h] = "arrived" /\ sessions[flow[h]] = None
    /\ limit = 0 \/ counter <= limit
    /\ Goto(h, "responding")
    /\ sessions' = [sessions EXCEPT ![flow[h]] = h]
    /\ eyeball' = [eyeball EXCEPT ![h] = conn[h]]
    /\ counter' = counter + 1
    /\ UNCHANGED <<link, flow, conn, target, ctx, limit, tcp, leaked>>

\* Mutant: an existing session is not looked for.
NewSessionReplaces(h) ==
    /\ pc[h] = "arrived" /\ Free
    /\ Goto(h, "responding")
    /\ sessions' = [sessions EXCEPT ![flow[h]] = h]
    /\ eyeball' = [eyeball EXCEPT ![h] = conn[h]]
    /\ counter' = counter + 1
    /\ UNCHANGED <<link, flow, conn, target, ctx, limit, tcp, leaked>>

NewSession(h) ==
    /\ pc[h] = "arrived" /\ sessions[flow[h]] = None /\ Free
    /\ Goto(h, "responding")
    /\ sessions' = [sessions EXCEPT ![flow[h]] = h]
    /\ eyeball' = [eyeball EXCEPT ![h] = conn[h]]
    /\ counter' = counter + 1
    /\ UNCHANGED <<link, flow, conn, target, ctx, limit, tcp, leaked>>
-----------------------------------------------------------------------------
(* The goroutine that serves a session *)

\* Mutant: the deferred calls come after the response.
RespondForgetsDefer(h) ==
    /\ pc[h] = "responding"
    /\ \/ Goto(h, "serving") /\ ctx' = [ctx EXCEPT ![h] = conn[h]]
       \/ Goto(h, "answered") /\ UNCHANGED ctx
    /\ UNCHANGED <<link, flow, conn, target, sessions, eyeball, counter, limit, tcp, leaked>>

\* The response is sent and Serve starts with the context of the connection
\* that registered the flow; when it cannot be sent the session is given up.
Respond(h) ==
    /\ pc[h] = "responding"
    /\ \/ Goto(h, "serving") /\ ctx' = [ctx EXCEPT ![h] = conn[h]]
       \/ Goto(h, "ended") /\ UNCHANGED ctx
    /\ UNCHANGED <<link, flow, conn, target, sessions, eyeball, counter, limit, tcp, leaked>>

\* waitForCloseCondition: case <-connCtx.Done()
ContextDone(h) ==
    /\ pc[h] = "serving" /\ link[ctx[h]] = "lost"
    /\ Goto(h, "ended")
    /\ UNCHANGED <<link, flow, conn, target, sVars, counter, limit, tcp, leaked>>

\* The session was idle, or its read or write loop failed.
SessionEnds(h) ==
    /\ pc[h] = "serving"
    /\ Goto(h, "ended")
    /\ UNCHANGED <<link, flow, conn, target, sVars, counter, limit, tcp, leaked>>

\* The deferred UnregisterSession: the entry of the flow is deleted.
UnregisterSession(h) ==
    /\ pc[h] = "ended"
    /\ Goto(h, "answered")
    /\ sessions' = [sessions EXCEPT ![flow[h]] = None]
    /\ Release
    /\ UNCHANGED <<link, flow, conn, target, eyeball, ctx, limit, tcp, leaked>>
-----------------------------------------------------------------------------
(* The flow has a session already *)

\* handleSessionAlreadyRegistered: another response; the idle timer of the
\* session, if it is still there, starts again.
AnswerAgain(h) ==
    /\ pc[h] = "already"
    /\ Goto(h, "answered")
    /\ UNCHANGED <<link, flow, conn, target, sVars, counter, limit, tcp, leaked>>

\* handleSessionMigration: GetSession may find no session any more.
Lookup(h) ==
    /\ pc[h] = "lookup"
    /\ target' = [target EXCEPT ![h] = sessions[flow[h]]]
    /\ Goto(h, IF sessions[flow[h]] = None THEN "answered" ELSE "migrating")
    /\ UNCHANGED <<link, flow, conn, sVars, counter, limit, tcp, leaked>>

\* Session.Migrate loads the eyeball and compares the connection indices,
LoadEyeball(h) ==
    /\ pc[h] = "migrating"
    /\ Goto(h, IF Index[eyeball[target[h]]] # Index[conn[h]] THEN "storing" ELSE "migrated")
    /\ UNCHANGED <<link, flow, conn, target, sVars, counter, limit, tcp, leaked>>

\* Mutant: the session is not told the new context.
StoreEyeballOnly(h) ==
    /\ pc[h] = "storing"
    /\ eyeball' = [eyeball EXCEPT ![target[h]] = conn[h]]
    /\ Goto(h, "migrated")
    /\ UNCHANGED <<link, flow, conn, target, sessions, ctx, counter, limit, tcp, leaked>>

\* stores the new one,
StoreEyeball(h) ==
    /\ pc[h] = "storing"
    /\ eyeball' = [eyeball EXCEPT ![target[h]] = conn[h]]
    /\ Goto(h, "sending")
    /\ UNCHANGED <<link, flow, conn, target, sessions, ctx, counter, limit, tcp, leaked>>

\* and sends the context on the unbuffered contextChan, which only the loop of
\* waitForCloseCondition receives.
SendContext(h) ==
    /\ pc[h] = "sending" /\ pc[target[h]] = "serving"
    /\ ctx' = [ctx EXCEPT ![target[h]] = conn[h]]
    /\ Goto(h, "migrated")
    /\ UNCHANGED <<link, flow, conn, target, sessions, eyeball, counter, limit, tcp, leaked>>

AnswerMigrated(h) ==
    /\ pc[h] = "migrated"
    /\ Goto(h, "answered")
    /\ UNCHANGED <<link, flow, conn, target, sVars, counter, limit, tcp, leaked>>
-----------------------------------------------------------------------------
(* The rest of the process *)

\* The supervisor replaces a connection only after it is lost.
ConnectionMade(c) ==
    /\ link[c] = "new"
    /\ \A d \in Conns : Index[d] = Index[c] => link[d] # "up"
    /\ link' = [link EXCEPT ![c] = "up"]
    /\ UNCHANGED <<hVars, sVars, counter, limit, tcp, leaked>>

ConnectionLost(c) ==
    /\ link[c] = "up"
    /\ link' = [link EXCEPT ![c] = "lost"]
    /\ UNCHANGED <<hVars, sVars, counter, limit, tcp, leaked>>

\* ProxyTCP takes a slot and gives it back when it returns.
TCPStarts ==
    /\ tcp < MaxTCP /\ Free
    /\ tcp' = tcp + 1 /\ counter' = counter + 1
    /\ UNCHANGED <<link, hVars, sVars, limit, leaked>>

TCPEnds ==
    /\ tcp > 0
    /\ tcp' = tcp - 1 /\ Release
    /\ UNCHANGED <<link, hVars, sVars, limit, leaked>>

\* A new configuration: SetLimit.
SetLimit ==
    /\ limit' \in Limits \ {limit}
    /\ UNCHANGED <<link, hVars, sVars, counter, tcp, leaked>>

Handler(h) ==
    \/ AlreadyRegistered(h) \/ BoundToOtherConn(h) \/ RateLimited(h) \/ DialFails(h)
    \/ NewSession(h) \/ Respond(h) \/ ContextDone(h) \/ UnregisterSession(h)
    \/ AnswerAgain(h) \/ Lookup(h) \/ LoadEyeball(h) \/ StoreEyeball(h)
    \/ SendContext(h) \/ AnswerMigrated(h)

Next ==
    \/ \E h \in Handlers : Datagram(h) \/ Handler(h) \/ SessionEnds(h)
    \/ \E c \in Conns : ConnectionMade(c) \/ ConnectionLost(c)
    \/ TCPStarts \/ TCPEnds \/ SetLimit

Spec == Init /\ [][Next]_vars

\* The goroutines are scheduled.  Nothing makes connections fail, datagrams
\* arrive or sessions end.
Fairness == \A h \in Handlers : WF_vars(Handler(h))
-----------------------------------------------------------------------------
(* Properties *)

Labels == {"idle", "arrived", "responding", "serving", "ended", "already", "lookup",
           "migrating", "storing", "sending", "migrated", "answered"}

TypeOK ==
    /\ link \in [Conns -> {"new", "up", "lost"}] /\ pc \in [Handlers -> Labels]
    /\ flow \in [Handlers -> Flows] /\ conn \in [Handlers -> Conns]
    /\ target \in [Handlers -> Handlers \cup {None}]
    /\ sessions \in [Flows -> Handlers \cup {None}]
    /\ eyeball \in [Handlers -> Conns] /\ ctx \in [Handlers -> Conns]
    /\ counter \in Nat /\ limit \in Limits /\ tcp \in 0 .. MaxTCP /\ leaked \in Nat

Registered == {f \in Flows : sessions[f] # None}

\* Every session in the table is served by the goroutine that created it, and
\* a goroutine that serves a session finds it in the table: although it deletes
\* the entry by flow, it never deletes the session of another.
SessionsOwned ==
    \A h \in Handlers, f \in Flows :
        (sessions[f] = h) <=> (flow[h] = f /\ pc[h] \in {"responding", "serving", "ended"})

\* The limiter counts every session and TCP flow once, and in addition the
\* flows whose socket could not be bound.
CounterAccounts == counter = Cardinality(Registered) + tcp + leaked

\* What the manager and the limiter know of the flows is true.
SessionsAccountedFor == SessionsOwned /\ CounterAccounts

\* A flow is admitted only when that keeps the flows within the limit of the
\* moment, although limits change under running flows.
LimitHolds ==
    [][Cardinality(Registered') + tcp' > Cardinality(Registered) + tcp =>
          limit = 0 \/ Cardinality(Registered') + tcp' <= limit]_vars

\* When all connections are lost, all sessions end, also those in the middle
\* of a migration.
SessionsEnd == (\A c \in Conns : link[c] = "lost") ~> (Registered = {})

\* A session that one connection asks to take over ends with the connection it
\* sends to, once the migration is done, whenever the request came.  (Two
\* requests at once may leave it sending to one connection and ending with the
\* other: the eyeball is stored before the handshake on contextChan.)
MigrationMovesSession ==
    \A s \in Handlers :
        LET movers == {h \in Handlers : target[h] = s} IN
        pc[s] = "serving" /\ Cardinality(movers) <= 1 /\ (\A h \in movers : pc[h] # "sending") =>
            ctx[s] = eyeball[s]

\* The handshake on contextChan with a session that has ended.
Orphan(h) == pc[h] = "sending" /\ pc[target[h]] \in {"ended", "answered"}

\* Every registration is answered, by a new session, an error or a migrated
\* session, unless the session it migrates ends before the handshake.
RegistrationAnswered ==
    \A h \in Handlers :
        (pc[h] = "arrived") ~> (pc[h] \in {"serving", "answered"} \/ Orphan(h))

\* No session outlives its connections, and no registration is forgotten.
FlowsProgress == SessionsEnd /\ RegistrationAnswered
=============================================================================
