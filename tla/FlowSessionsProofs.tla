------------------------- MODULE FlowSessionsProofs -------------------------
(***************************************************************************)
(* Proofs about FlowSessions for any flows, connections, limits and number *)
(* of registrations.  The invariant is the conjunction of the type         *)
(* invariant, the ownership of sessions and the account of the limiter:    *)
(* that unregistering deletes exactly one session, which the account needs,*)
(* follows from the ownership.                                             *)
(***************************************************************************)
EXTENDS FlowSessions, FiniteSetTheorems, TLAPS

IInv == TypeOK /\ SessionsOwned /\ CounterAccounts

USE FlowsAssumption

\* The limiter's account only needs the number of registered flows, which is a
\* natural number.
LEMMA RegisteredFinite == IsFiniteSet(Registered) /\ Cardinality(Registered) \in Nat
<1>1. Registered \subseteq Flows  BY DEF Registered
<1>2. IsFiniteSet(Registered)  BY <1>1, FS_Subset
<1> QED  BY <1>2, FS_CardinalityType

\* Registering a flow that has no session adds one to the number of flows.
LEMMA RegisterAddsOne ==
    ASSUME TypeOK, NEW f \in Flows, NEW h \in Handlers, sessions[f] = None,
           sessions' = [sessions EXCEPT ![f] = h]
    PROVE  Cardinality(Registered') = Cardinality(Registered) + 1
<1>1. Registered' = Registered \cup {f} /\ f \notin Registered  BY DEF Registered, TypeOK
<1> QED  BY <1>1, RegisteredFinite, FS_AddElement

\* Deleting the session of a flow that has one takes one away.
LEMMA UnregisterTakesOne ==
    ASSUME TypeOK, NEW f \in Flows, sessions[f] # None,
           sessions' = [sessions EXCEPT ![f] = None]
    PROVE  /\ Cardinality(Registered') = Cardinality(Registered) - 1
           /\ Cardinality(Registered) > 0
<1>1. Registered' = Registered \ {f} /\ f \in Registered  BY DEF Registered, TypeOK
<1>2. Cardinality(Registered') = Cardinality(Registered) - 1
  BY <1>1, RegisteredFinite, FS_RemoveElement
<1>3. Registered # {}  BY <1>1
<1>4. Cardinality(Registered) # 0  BY <1>3, RegisteredFinite, FS_EmptySet
<1> QED  BY <1>2, <1>4, RegisteredFinite

\* Nothing is registered at first.
LEMMA InitInv == Init => IInv
<1> SUFFICES ASSUME Init PROVE IInv  OBVIOUS
<1>1. TypeOK  BY DEF Init, TypeOK, Labels
<1>2. SessionsOwned  BY DEF Init, SessionsOwned
<1>3. Registered = {}  BY DEF Init, Registered
<1>4. Cardinality(Registered) = 0  BY <1>3, FS_EmptySet
<1>5. CounterAccounts  BY <1>4 DEF Init, CounterAccounts
<1> QED  BY <1>1, <1>2, <1>5 DEF IInv

\* Every step of the program keeps the invariant.
LEMMA NextInv == IInv /\ [Next]_vars => IInv'
<1> SUFFICES ASSUME IInv, [Next]_vars PROVE IInv'  OBVIOUS
<1> USE DEF IInv
<1>0. /\ Cardinality(Registered) \in Nat
      /\ counter \in Nat /\ tcp \in Nat /\ leaked \in Nat
  BY RegisteredFinite DEF TypeOK
<1>same. ASSUME sessions' = sessions, counter' = counter, tcp' = tcp, leaked' = leaked
         PROVE  CounterAccounts'
  BY <1>same DEF CounterAccounts, Registered
<1> DEFINE Quiet(h) ==
      \/ Datagram(h) \/ AlreadyRegistered(h) \/ BoundToOtherConn(h) \/ RateLimited(h)
      \/ Respond(h) \/ ContextDone(h) \/ SessionEnds(h) \/ AnswerAgain(h) \/ Lookup(h)
      \/ LoadEyeball(h) \/ StoreEyeball(h) \/ SendContext(h) \/ AnswerMigrated(h)
<1>1. ASSUME NEW h \in Handlers, Quiet(h) PROVE IInv'
  <2>1. TypeOK'
    BY <1>1 DEF TypeOK, SessionsOwned, Labels, Goto, Datagram, AlreadyRegistered, BoundToOtherConn,
      RateLimited, Respond, ContextDone, SessionEnds, AnswerAgain, Lookup, LoadEyeball, StoreEyeball,
      SendContext, AnswerMigrated, hVars, sVars
  <2>2. SessionsOwned'
    BY <1>1 DEF TypeOK, SessionsOwned, Goto, Datagram, AlreadyRegistered, BoundToOtherConn,
      RateLimited, Respond, ContextDone, SessionEnds, AnswerAgain, Lookup, LoadEyeball, StoreEyeball,
      SendContext, AnswerMigrated, hVars, sVars
  <2>3. CounterAccounts'
    BY <1>1, <1>same DEF Datagram, AlreadyRegistered, BoundToOtherConn, RateLimited, Respond,
      ContextDone, SessionEnds, AnswerAgain, Lookup, LoadEyeball, StoreEyeball, SendContext,
      AnswerMigrated, sVars
  <2> QED  BY <2>1, <2>2, <2>3
<1>2. ASSUME NEW h \in Handlers, DialFails(h) PROVE IInv'
  <2>1. TypeOK' /\ SessionsOwned'
    BY <1>2 DEF TypeOK, SessionsOwned, Labels, Goto, DialFails, hVars, sVars
  <2>2. Registered' = Registered  BY <1>2 DEF Registered, DialFails, sVars
  <2>3. CounterAccounts'  BY <1>0, <1>2, <2>2 DEF CounterAccounts, DialFails
  <2> QED  BY <2>1, <2>3
<1>3. ASSUME NEW h \in Handlers, NewSession(h) PROVE IInv'
  <2>1. TypeOK'  BY <1>3 DEF TypeOK, Labels, Goto, NewSession
  <2>2. SessionsOwned'  BY <1>3 DEF TypeOK, SessionsOwned, Goto, NewSession
  <2>3. Cardinality(Registered') = Cardinality(Registered) + 1
    BY <1>3, RegisterAddsOne DEF NewSession, TypeOK
  <2>4. CounterAccounts'  BY <1>0, <1>3, <2>3 DEF CounterAccounts, NewSession
  <2> QED  BY <2>1, <2>2, <2>4
<1>4. ASSUME NEW h \in Handlers, UnregisterSession(h) PROVE IInv'
  <2>1. sessions[flow[h]] = h /\ flow[h] \in Flows
    BY <1>4 DEF UnregisterSession, SessionsOwned, TypeOK
  <2>2. /\ Cardinality(Registered') = Cardinality(Registered) - 1
        /\ Cardinality(Registered) > 0
    BY <1>4, <2>1, UnregisterTakesOne DEF UnregisterSession
  <2>3. counter' = counter - 1 /\ counter > 0
    BY <1>0, <1>4, <2>2 DEF UnregisterSession, Release, CounterAccounts
  <2>4. TypeOK'  BY <1>0, <1>4, <2>3 DEF TypeOK, Labels, Goto, UnregisterSession
  <2>5. SessionsOwned'  BY <1>4, <2>1 DEF TypeOK, SessionsOwned, Goto, UnregisterSession
  <2>6. CounterAccounts'  BY <1>0, <1>4, <2>2, <2>3 DEF CounterAccounts, UnregisterSession
  <2> QED  BY <2>4, <2>5, <2>6
<1>5. ASSUME NEW c \in Conns, ConnectionMade(c) \/ ConnectionLost(c) PROVE IInv'
  <2>1. TypeOK'  BY <1>5 DEF TypeOK, ConnectionMade, ConnectionLost, hVars, sVars
  <2>2. SessionsOwned'  BY <1>5 DEF SessionsOwned, ConnectionMade, ConnectionLost, hVars, sVars
  <2>3. CounterAccounts'  BY <1>5, <1>same DEF ConnectionMade, ConnectionLost, sVars
  <2> QED  BY <2>1, <2>2, <2>3
<1>6. ASSUME TCPStarts \/ TCPEnds PROVE IInv'
  <2>1. Registered' = Registered  BY <1>6 DEF Registered, TCPStarts, TCPEnds, sVars
  <2>2. SessionsOwned'  BY <1>6 DEF SessionsOwned, TCPStarts, TCPEnds, hVars, sVars
  <2>3. CASE TCPStarts
    BY <1>0, <2>1, <2>2, <2>3 DEF TypeOK, CounterAccounts, TCPStarts, hVars, sVars
  <2>4. CASE TCPEnds
    BY <1>0, <2>1, <2>2, <2>4 DEF TypeOK, CounterAccounts, TCPEnds, Release, hVars, sVars
  <2> QED  BY <1>6, <2>3, <2>4
<1>7. CASE SetLimit
  <2>1. TypeOK' /\ SessionsOwned'  BY <1>7 DEF TypeOK, SessionsOwned, SetLimit, hVars, sVars
  <2>2. CounterAccounts'  BY <1>7, <1>same DEF SetLimit, sVars
  <2> QED  BY <2>1, <2>2
<1>8. CASE UNCHANGED vars
  <2>1. TypeOK' /\ SessionsOwned'  BY <1>8 DEF TypeOK, SessionsOwned, vars, hVars, sVars
  <2>2. CounterAccounts'  BY <1>8, <1>same DEF vars, sVars
  <2> QED  BY <2>1, <2>2
<1> QED  BY <1>1, <1>2, <1>3, <1>4, <1>5, <1>6, <1>7, <1>8 DEF Next, Handler

\* The inductive invariant holds in every state.
LEMMA Inductive == Spec => []IInv
BY InitInv, NextInv, PTL DEF Spec

\* Type correctness of the session manager, its goroutines and the limiter.
THEOREM TypeCorrect == Spec => []TypeOK
BY Inductive, PTL DEF IInv

\* A goroutine deletes only the session it created, and every session in the
\* table has its goroutine: UnregisterSession by request id is safe.
LEMMA Ownership == Spec => []SessionsOwned
BY Inductive, PTL DEF IInv

\* activeFlowsCounter is the number of sessions, of TCP flows and of failed
\* binds: the latter are the only slots that are lost.
LEMMA Accounting == Spec => []CounterAccounts
BY Inductive, PTL DEF IInv

\* Every session is served by the goroutine that created it and is counted
\* once, for any flows, connections and limits.
THEOREM OwnedAndCounted == Spec => []SessionsAccountedFor
BY Ownership, Accounting, PTL DEF SessionsAccountedFor

\* No flow is admitted beyond the limit of the moment.
THEOREM Admission == Spec => LimitHolds
<1> DEFINE Admits == Cardinality(Registered') + tcp' > Cardinality(Registered) + tcp =>
                        limit = 0 \/ Cardinality(Registered') + tcp' <= limit
<1>1. ASSUME IInv, [Next]_vars PROVE [Admits]_vars
  <2> USE <1>1
  <2>0. /\ Cardinality(Registered) \in Nat /\ counter \in Nat /\ tcp \in Nat
        /\ leaked \in Nat /\ limit \in Nat
        /\ counter = Cardinality(Registered) + tcp + leaked
    BY RegisteredFinite DEF IInv, TypeOK, CounterAccounts
  <2>1. ASSUME sessions' = sessions, tcp' = tcp PROVE Admits
    BY <2>0, <2>1 DEF Registered
  <2>2. ASSUME NEW h \in Handlers, NewSession(h) PROVE Admits
    <3>1. Cardinality(Registered') = Cardinality(Registered) + 1
      BY <2>2, RegisterAddsOne DEF NewSession, TypeOK, IInv
    <3> QED  BY <2>0, <2>2, <3>1 DEF NewSession, Free
  <2>3. ASSUME NEW h \in Handlers, UnregisterSession(h) PROVE Admits
    <3>1. sessions[flow[h]] # None /\ flow[h] \in Flows
      BY <2>3 DEF UnregisterSession, SessionsOwned, TypeOK, IInv
    <3>2. Cardinality(Registered') = Cardinality(Registered) - 1
      BY <2>3, <3>1, UnregisterTakesOne DEF UnregisterSession, IInv
    <3> QED  BY <2>0, <2>3, <3>2 DEF UnregisterSession
  <2>4. ASSUME TCPStarts \/ TCPEnds PROVE Admits
    <3>1. Registered' = Registered  BY <2>4 DEF Registered, TCPStarts, TCPEnds, sVars
    <3> QED  BY <2>0, <2>4, <3>1 DEF TCPStarts, TCPEnds, Free
  <2>5. ASSUME NEW h \in Handlers,
               \/ Datagram(h) \/ AlreadyRegistered(h) \/ BoundToOtherConn(h) \/ RateLimited(h)
               \/ Respond(h) \/ ContextDone(h) \/ SessionEnds(h) \/ AnswerAgain(h) \/ Lookup(h)
               \/ LoadEyeball(h) \/ StoreEyeball(h) \/ SendContext(h) \/ AnswerMigrated(h) \/ DialFails(h)
        PROVE Admits
    BY <2>1, <2>5 DEF Datagram, AlreadyRegistered, BoundToOtherConn, RateLimited, Respond,
      ContextDone, SessionEnds, AnswerAgain, Lookup, LoadEyeball, StoreEyeball, SendContext,
      AnswerMigrated, DialFails, sVars
  <2>6. ASSUME NEW c \in Conns, ConnectionMade(c) \/ ConnectionLost(c) PROVE Admits
    BY <2>1, <2>6 DEF ConnectionMade, ConnectionLost, sVars
  <2>7. CASE SetLimit  BY <2>1, <2>7 DEF SetLimit, sVars
  <2> HIDE DEF Admits
  <2>8. CASE UNCHANGED vars  BY <2>8
  <2> QED  BY <2>2, <2>3, <2>4, <2>5, <2>6, <2>7, <2>8 DEF Next, Handler
<1>2. Spec => [][Admits]_vars  BY <1>1, Inductive, PTL DEF Spec
<1> QED  BY <1>2 DEF LimitHolds
-----------------------------------------------------------------------------
(* Migration *)

\* At most one handler has looked the session up in order to migrate it.
OneMover(s) == \A h, g \in Handlers : target[h] = s /\ target[g] = s => h = g
Sending(s) == \E h \in Handlers : target[h] = s /\ pc[h] = "sending"

\* A session that is looked up exists or has ended, and a handler looks up once.
TargetsInv ==
    /\ \A h \in Handlers : target[h] # None => pc[target[h]] \in {"responding", "serving", "ended", "answered"}
    /\ \A h \in Handlers : pc[h] \in {"migrating", "storing", "sending", "migrated"} => target[h] # None
    /\ \A h \in Handlers : target[h] # None =>
          pc[h] \in {"migrating", "storing", "sending", "migrated", "answered"}

\* Where the eyeball and the context of a session agree: before the session is
\* served its context is still to be set to the connection that created it;
\* between the two halves of a migration the eyeball is that of the handler.
MoveInv ==
    \A s \in Handlers : OneMover(s) =>
        /\ pc[s] = "responding" /\ ~Sending(s) => eyeball[s] = conn[s]
        /\ pc[s] = "serving" /\ ~Sending(s) => ctx[s] = eyeball[s]
        /\ \A h \in Handlers : target[h] = s /\ pc[h] = "sending" => eyeball[s] = conn[h]

\* Lookup finds only sessions that are in the table, which have a goroutine.
LEMMA TargetsStep ==
    ASSUME IInv, TargetsInv, [Next]_vars
    PROVE  TargetsInv'
<1> USE DEF IInv, TypeOK, TargetsInv
<1>1. ASSUME NEW h \in Handlers, Lookup(h) PROVE TargetsInv'
  <2>1. sessions[flow[h]] # None =>
          /\ sessions[flow[h]] \in Handlers
          /\ pc[sessions[flow[h]]] \in {"responding", "serving", "ended"}
    BY DEF SessionsOwned
  <2> QED BY <1>1, <2>1 DEF Lookup, Goto
<1>2. ASSUME NEW h \in Handlers,
             \/ Datagram(h) \/ AlreadyRegistered(h) \/ BoundToOtherConn(h) \/ RateLimited(h)
             \/ DialFails(h) \/ NewSession(h)
      PROVE TargetsInv'
  BY <1>2 DEF Datagram, AlreadyRegistered, BoundToOtherConn, RateLimited, DialFails, NewSession, Goto
<1>3. ASSUME NEW h \in Handlers,
             \/ Respond(h) \/ ContextDone(h) \/ SessionEnds(h) \/ UnregisterSession(h) \/ AnswerAgain(h)
      PROVE TargetsInv'
  BY <1>3 DEF Respond, ContextDone, SessionEnds, UnregisterSession, AnswerAgain, Goto
<1>4. ASSUME NEW h \in Handlers,
             \/ LoadEyeball(h) \/ StoreEyeball(h) \/ SendContext(h) \/ AnswerMigrated(h)
      PROVE TargetsInv'
  BY <1>4 DEF LoadEyeball, StoreEyeball, SendContext, AnswerMigrated, Goto
<1>5. CASE UNCHANGED hVars BY <1>5 DEF hVars
<1> QED BY <1>1, <1>2, <1>3, <1>4, <1>5
  DEF Next, Handler, ConnectionMade, ConnectionLost, TCPStarts, TCPEnds, SetLimit, vars

\* Every step keeps the eyeball and the context of a session with one mover in
\* agreement, a registration that is being answered and a migration included.
LEMMA MoveStep ==
    ASSUME IInv, TargetsInv, MoveInv, [Next]_vars
    PROVE  MoveInv'
<1> USE DEF IInv, TypeOK
<1>1. ASSUME NEW h \in Handlers, Lookup(h) PROVE MoveInv'
  <2>1. target[h] = None BY <1>1 DEF TargetsInv, Lookup
  <2>2. \A s \in Handlers : OneMover(s)' => OneMover(s)
    BY <1>1, <2>1 DEF OneMover, Lookup
  <2>3. \A s \in Handlers : Sending(s)' <=> Sending(s)
    BY <1>1, <2>1 DEF Sending, Lookup, Goto
  <2>4. \A g, s \in Handlers : target'[g] = s /\ pc'[g] = "sending" => target[g] = s /\ pc[g] = "sending"
    BY <1>1 DEF Lookup, Goto
  <2>5. \A s \in Handlers, l \in {"responding", "serving"} : pc'[s] = l => pc[s] = l
    BY <1>1 DEF Lookup, Goto
  <2> QED BY <1>1, <2>2, <2>3, <2>4, <2>5 DEF MoveInv, Lookup, sVars
<1>2. ASSUME NEW h \in Handlers, StoreEyeball(h) PROVE MoveInv'
  <2>1. target' = target /\ conn' = conn /\ ctx' = ctx /\ target[h] \in Handlers
        /\ eyeball' = [eyeball EXCEPT ![target[h]] = conn[h]] /\ pc' = [pc EXCEPT ![h] = "sending"]
    BY <1>2 DEF StoreEyeball, Goto, TargetsInv
  <2> SUFFICES ASSUME NEW s \in Handlers, OneMover(s)'
               PROVE  /\ pc'[s] = "responding" /\ ~Sending(s)' => eyeball'[s] = conn'[s]
                      /\ pc'[s] = "serving" /\ ~Sending(s)' => ctx'[s] = eyeball'[s]
                      /\ \A g \in Handlers : target'[g] = s /\ pc'[g] = "sending" => eyeball'[s] = conn'[g]
    BY DEF MoveInv
  <2>2. OneMover(s) BY <2>1 DEF OneMover
  <2>3. CASE s = target[h]
    <3>1. Sending(s)' BY <2>1, <2>3 DEF Sending
    <3>2. \A g \in Handlers : target'[g] = s => g = h BY <2>1, <2>2, <2>3 DEF OneMover
    <3> QED BY <2>1, <2>3, <3>1, <3>2
  <2>4. CASE s # target[h]
    <3>1. Sending(s)' <=> Sending(s) BY <2>1, <2>4 DEF Sending
    <3>2. eyeball'[s] = eyeball[s] BY <2>1, <2>4
    <3>3. \A l \in {"responding", "serving"} : pc'[s] = l => pc[s] = l BY <2>1
    <3>4. \A g \in Handlers : target'[g] = s /\ pc'[g] = "sending" => target[g] = s /\ pc[g] = "sending"
      BY <2>1, <2>4
    <3> QED BY <2>1, <2>2, <3>1, <3>2, <3>3, <3>4 DEF MoveInv
  <2> QED BY <2>3, <2>4
<1>3. ASSUME NEW h \in Handlers, SendContext(h) PROVE MoveInv'
  <2>1. target' = target /\ conn' = conn /\ eyeball' = eyeball /\ target[h] \in Handlers
        /\ ctx' = [ctx EXCEPT ![target[h]] = conn[h]] /\ pc' = [pc EXCEPT ![h] = "migrated"]
        /\ pc[h] = "sending" /\ pc[target[h]] = "serving" /\ h # target[h]
    BY <1>3 DEF SendContext, Goto, TargetsInv
  <2> SUFFICES ASSUME NEW s \in Handlers, OneMover(s)'
               PROVE  /\ pc'[s] = "responding" /\ ~Sending(s)' => eyeball'[s] = conn'[s]
                      /\ pc'[s] = "serving" /\ ~Sending(s)' => ctx'[s] = eyeball'[s]
                      /\ \A g \in Handlers : target'[g] = s /\ pc'[g] = "sending" => eyeball'[s] = conn'[g]
    BY DEF MoveInv
  <2>2. OneMover(s) BY <2>1 DEF OneMover
  <2>3. CASE s = target[h]
    <3>1. eyeball[s] = conn[h] BY <2>1, <2>2, <2>3 DEF MoveInv
    <3>2. \A g \in Handlers : target'[g] = s => g = h BY <2>1, <2>2, <2>3 DEF OneMover
    <3> QED BY <2>1, <2>3, <3>1, <3>2
  <2>4. CASE s # target[h]
    <3>1. Sending(s)' <=> Sending(s) BY <2>1, <2>4 DEF Sending
    <3>2. ctx'[s] = ctx[s] BY <2>1, <2>4
    <3>3. \A l \in {"responding", "serving"} : pc'[s] = l => pc[s] = l BY <2>1
    <3>4. \A g \in Handlers : target'[g] = s /\ pc'[g] = "sending" => target[g] = s /\ pc[g] = "sending"
      BY <2>1
    <3> QED BY <2>1, <2>2, <3>1, <3>2, <3>3, <3>4 DEF MoveInv
  <2> QED BY <2>3, <2>4
<1>4. ASSUME NEW h \in Handlers, NewSession(h) PROVE MoveInv'
  <2>1. target' = target /\ conn' = conn /\ ctx' = ctx
        /\ eyeball' = [eyeball EXCEPT ![h] = conn[h]] /\ pc' = [pc EXCEPT ![h] = "responding"]
    BY <1>4 DEF NewSession, Goto
  <2>2. \A g \in Handlers : target[g] # h BY <1>4 DEF NewSession, TargetsInv
  <2>3. pc[h] = "arrived" BY <1>4 DEF NewSession
  <2>4. \A s \in Handlers : (OneMover(s)' <=> OneMover(s)) /\ (Sending(s)' <=> Sending(s))
    BY <2>1, <2>3 DEF OneMover, Sending
  <2>5. \A g, s \in Handlers : target'[g] = s /\ pc'[g] = "sending" =>
                                  target[g] = s /\ pc[g] = "sending" /\ s # h
    BY <2>1, <2>2
  <2>6. \A s \in Handlers : s # h => pc'[s] = pc[s] /\ eyeball'[s] = eyeball[s] BY <2>1
  <2>7. pc'[h] = "responding" /\ eyeball'[h] = conn'[h] BY <2>1
  <2> QED BY <2>1, <2>4, <2>5, <2>6, <2>7 DEF MoveInv
<1>5. ASSUME NEW h \in Handlers, Respond(h) PROVE MoveInv'
  <2>1. target' = target /\ conn' = conn /\ eyeball' = eyeball /\ pc[h] = "responding"
        /\ \/ pc' = [pc EXCEPT ![h] = "serving"] /\ ctx' = [ctx EXCEPT ![h] = conn[h]]
           \/ pc' = [pc EXCEPT ![h] = "ended"] /\ ctx' = ctx
    BY <1>5 DEF Respond, Goto
  <2>2. \A s \in Handlers : (OneMover(s)' <=> OneMover(s)) /\ (Sending(s)' <=> Sending(s))
    BY <2>1 DEF OneMover, Sending
  <2>3. \A g, s \in Handlers : target'[g] = s /\ pc'[g] = "sending" => target[g] = s /\ pc[g] = "sending"
    BY <2>1
  <2>4. \A s \in Handlers : s # h => pc'[s] = pc[s] /\ ctx'[s] = ctx[s] BY <2>1
  <2>5. pc'[h] # "responding" /\ (pc'[h] = "serving" => ctx'[h] = conn[h]) BY <2>1
  <2> QED BY <2>1, <2>2, <2>3, <2>4, <2>5 DEF MoveInv
<1>6. ASSUME target' = target, conn' = conn, eyeball' = eyeball, ctx' = ctx,
             \A g \in Handlers : /\ (pc'[g] = "sending") <=> (pc[g] = "sending")
                                 /\ pc'[g] = "responding" => pc[g] = "responding"
                                 /\ pc'[g] = "serving" => pc[g] = "serving"
      PROVE  MoveInv'
  <2>1. \A s \in Handlers : (OneMover(s)' <=> OneMover(s)) /\ (Sending(s)' <=> Sending(s))
    BY <1>6 DEF OneMover, Sending
  <2> QED BY <1>6, <2>1 DEF MoveInv
<1>7. ASSUME NEW h \in Handlers,
             \/ Datagram(h) \/ AlreadyRegistered(h) \/ BoundToOtherConn(h) \/ RateLimited(h)
             \/ DialFails(h) \/ ContextDone(h) \/ SessionEnds(h) \/ UnregisterSession(h)
             \/ AnswerAgain(h) \/ LoadEyeball(h) \/ AnswerMigrated(h)
      PROVE MoveInv'
  <2>1. \E l \in {"arrived", "already", "lookup", "answered", "ended", "storing", "migrated"} :
          pc' = [pc EXCEPT ![h] = l] /\ pc[h] # "sending"
    BY <1>7 DEF Datagram, AlreadyRegistered, BoundToOtherConn, RateLimited, DialFails, ContextDone,
      SessionEnds, UnregisterSession, AnswerAgain, LoadEyeball, AnswerMigrated, Goto
  <2>2. target' = target /\ conn' = conn /\ eyeball' = eyeball /\ ctx' = ctx
    BY <1>7 DEF Datagram, AlreadyRegistered, BoundToOtherConn, RateLimited, DialFails, ContextDone,
      SessionEnds, UnregisterSession, AnswerAgain, LoadEyeball, AnswerMigrated, sVars
  <2> QED BY <1>6, <2>1, <2>2
<1>8. CASE UNCHANGED <<hVars, sVars>> BY <1>6, <1>8 DEF hVars, sVars
<1> QED BY <1>1, <1>2, <1>3, <1>4, <1>5, <1>7, <1>8
  DEF Next, Handler, ConnectionMade, ConnectionLost, TCPStarts, TCPEnds, SetLimit, vars

\* A session that one connection takes over ends with the connection it sends
\* to, whenever in the life of the session the request came.
THEOREM MigrationSafe == Spec => []MigrationMovesSession
<1>1. Init => TargetsInv /\ MoveInv
  BY DEF Init, TargetsInv, MoveInv, Sending
<1>2. IInv /\ TargetsInv /\ MoveInv /\ [Next]_vars => TargetsInv' /\ MoveInv'
  BY TargetsStep, MoveStep
<1>3. IInv /\ MoveInv => MigrationMovesSession
  <2> SUFFICES ASSUME IInv, MoveInv, NEW s \in Handlers, pc[s] = "serving",
                      Cardinality({h \in Handlers : target[h] = s}) <= 1,
                      \A h \in {g \in Handlers : target[g] = s} : pc[h] # "sending"
               PROVE  ctx[s] = eyeball[s]
    BY DEF MigrationMovesSession
  <2> DEFINE M == {h \in Handlers : target[h] = s}
  <2>1. IsFiniteSet(M) BY FS_Subset
  <2>2. ASSUME NEW h \in M PROVE M \ {h} = {}
    <3> HIDE DEF M
    <3>1. IsFiniteSet(M \ {h}) /\ Cardinality(M \ {h}) = Cardinality(M) - 1 /\ Cardinality(M) \in Nat
      BY <2>1, <2>2, FS_RemoveElement, FS_CardinalityType
    <3>2. Cardinality(M) <= 1 BY DEF M
    <3>3. Cardinality(M \ {h}) \in Nat BY <3>1, FS_CardinalityType
    <3> QED BY <3>1, <3>2, <3>3, FS_EmptySet
  <2>3. OneMover(s) BY <2>2 DEF OneMover
  <2>4. ~Sending(s) BY DEF Sending
  <2> QED BY <2>3, <2>4 DEF MoveInv
<1> QED BY <1>1, <1>2, <1>3, Inductive, PTL DEF Spec
=============================================================================
