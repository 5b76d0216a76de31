-------------------------- MODULE DatagramsProofs --------------------------
(***************************************************************************)
(* Proofs about the two users of a connection's datagrams: the event loop  *)
(* of UDP sessions is never blocked by a session (DatagramSessions), and   *)
(* the ICMP proxy leaks no socket, lets no two open flows use one echo id, *)
(* and takes from no open flow the echo id it was made with (ICMPProxy).   *)
(***************************************************************************)
EXTENDS DatagramSessions, ICMPProxy, WellFoundedInduction, TLAPS

-----------------------------------------------------------------------------
(* UDP sessions of datagram version 2 *)

V2Spec == V2Init /\ [][V2Next]_v2Vars

Reasons == {"remote", "local", "io"}

Early == {"none", "dialling", "registering", "refused"}

CallRec == [at : {"none", "dialling", "registering", "registered", "serving", "closing",
                  "telling", "released", "done", "refused"},
            id : IDs \union {Nobody}, chan : Seq(Reasons), reader : {"on", "off"}]

\* The session of c is in the map of the manager.
Held(c) == \E i \in IDs : tracked[i] = c

\* What may still be sent to closeChan: one reason when the session leaves the
\* map, in which h says that it is, and one by the reader of its socket.
WillRead(k) == k.reader = "on" \/ k.at = "registered"

\* A session has room in closeChan for everything that may still be sent to it,
\* and nothing happens to it before it is registered.
CallOK(k, h) ==
    /\ Len(k.chan) <= 2
    /\ h => Len(k.chan) <= 1
    /\ WillRead(k) => Len(k.chan) <= 1
    /\ (h /\ WillRead(k)) => Len(k.chan) = 0
    /\ k.at \in Early => ~h /\ k.reader = "off" /\ Len(k.chan) = 0
    /\ k.at = "registered" => k.reader = "off"
    /\ k.at \notin {"none", "refused"} => k.id \in IDs

V2Inv ==
    /\ call \in [Calls -> CallRec] /\ tracked \in [IDs -> Calls \union {Nobody}]
    /\ loop \in {"run", "done"}
    /\ \A c \in Calls : CallOK(call[c], Held(c))
    /\ \A i \in IDs : tracked[i] \in Calls => call[tracked[i]].id = i

\* A call that was not made yet.
LEMMA NewCallOK ==
    NewCall \in CallRec /\ Len(NewCall.chan) = 0 /\ NewCall.reader = "off" /\ NewCall.at = "none"
BY DEF NewCall, CallRec, Reasons

\* A connection starts without sessions.
LEMMA V2InitInv == V2Init => V2Inv
<1> SUFFICES ASSUME V2Init PROVE V2Inv OBVIOUS
<1>1. NewCall \in CallRec /\ Len(NewCall.chan) = 0 /\ NewCall.reader = "off" /\ NewCall.at = "none"
  BY NewCallOK
<1>2. \A c \in Calls : ~Held(c)
  BY V2Assumption DEF V2Init, Held
<1>3. \A c \in Calls : CallOK(NewCall, FALSE)
  BY <1>1 DEF CallOK, WillRead
<1>4. \A c \in Calls : call[c] = NewCall
  BY DEF V2Init
<1>5. \A c \in Calls : CallOK(call[c], Held(c))
  BY <1>2, <1>3, <1>4 DEF CallOK
<1> QED BY <1>1, <1>5, V2Assumption DEF V2Init, V2Inv

\* A step of one session that neither enters nor leaves the map.
LEMMA CallStep ==
    ASSUME V2Inv, NEW c \in Calls, NEW k \in CallRec,
           SetCall(c, k), UNCHANGED <<tracked, loop>>,
           CallOK(k, Held(c)), Held(c) => k.id = call[c].id
    PROVE  V2Inv'
<1>1. \A d \in Calls : call'[d] = IF d = c THEN k ELSE call[d]
  BY DEF SetCall, V2Inv
<1>2. call' \in [Calls -> CallRec]
  BY DEF SetCall, V2Inv
<1>3. \A d \in Calls : Held(d)' <=> Held(d)
  BY DEF Held
<1>4. \A d \in Calls : CallOK(call'[d], Held(d))
  BY <1>1 DEF V2Inv
<1>5. \A d \in Calls : CallOK(call[d], Held(d))'
  BY <1>3, <1>4 DEF CallOK, WillRead
<1>6. \A i \in IDs : tracked[i] \in Calls => call'[tracked[i]].id = i
  BY <1>1 DEF V2Inv, Held
<1> QED BY <1>2, <1>5, <1>6 DEF V2Inv

\* The sessions of the ids I leave the map and are told why: there is room, so
\* the loop does not block, and none of them can be told again.
LEMMA ToldOK ==
    ASSUME V2Inv, NEW I \in SUBSET IDs, NEW why \in {"remote", "local"},
           tracked' = [i \in IDs |-> IF i \in I THEN Nobody ELSE tracked[i]]
    PROVE  /\ ~Blocked(Holders(I))
           /\ tracked' \in [IDs -> Calls \union {Nobody}]
           /\ \A c \in Calls :
                 LET k == Told(Holders(I), why)[c] IN
                 /\ k \in CallRec /\ CallOK(k, Held(c)')
                 /\ k.at = call[c].at /\ k.id = call[c].id /\ k.reader = call[c].reader
<1>1. \A c \in Calls : c \in Holders(I) <=> \E i \in I : tracked[i] = c
  BY V2Assumption DEF Holders
<1>2. \A c \in Holders(I) : c \in Calls /\ Held(c)
  BY V2Assumption DEF Holders, V2Inv, Held
<1>3. \A c \in Holders(I) : Len(call[c].chan) <= 1
  BY <1>2 DEF V2Inv, CallOK
<1>4. ~Blocked(Holders(I))
  BY <1>2, <1>3 DEF Blocked, CloseCap
<1>5. tracked' \in [IDs -> Calls \union {Nobody}]
  BY DEF V2Inv
<1>6. ASSUME NEW c \in Calls
      PROVE  LET k == Told(Holders(I), why)[c] IN
             /\ k \in CallRec /\ CallOK(k, Held(c)')
             /\ k.at = call[c].at /\ k.id = call[c].id /\ k.reader = call[c].reader
  <2>1. call[c] \in CallRec /\ CallOK(call[c], Held(c)) BY DEF V2Inv
  <2>2. call[c].chan \in Seq(Reasons) BY <2>1 DEF CallRec
  <2>3. Held(c)' => Held(c)
    BY V2Assumption DEF Held, V2Inv
  <2>4. CASE c \in Holders(I)
    <3>1. ~Held(c)'
      <4>1. PICK i \in I : tracked[i] = c BY <1>1, <2>4
      <4>2. \A j \in IDs : tracked[j] = c => j = i BY <4>1 DEF V2Inv
      <4> QED BY <4>1, <4>2, V2Assumption DEF Held
    <3> DEFINE k == [call[c] EXCEPT !.chan = Append(@, why)]
    <3>2. Told(Holders(I), why)[c] = k BY <1>3, <2>4, <2>2 DEF Told, CloseCap
    <3>3. Append(call[c].chan, why) \in Seq(Reasons) /\ Len(Append(call[c].chan, why)) = Len(call[c].chan) + 1
      BY <2>2 DEF Reasons
    <3>4. /\ k \in CallRec /\ k.chan = Append(call[c].chan, why)
          /\ k.at = call[c].at /\ k.id = call[c].id /\ k.reader = call[c].reader
      BY <2>1, <3>3 DEF CallRec
    <3> HIDE DEF k
    <3>5. Held(c) BY <1>2, <2>4
    <3>6. Len(call[c].chan) \in Nat BY <2>2
    <3>7. CallOK(k, FALSE)
      BY <2>1, <3>3, <3>4, <3>5, <3>6 DEF CallOK, WillRead
    <3> QED BY <3>1, <3>2, <3>4, <3>7 DEF CallOK
  <2>5. CASE c \notin Holders(I)
    <3>1. Told(Holders(I), why)[c] = call[c] BY <2>5 DEF Told
    <3> QED BY <2>1, <2>3, <3>1 DEF CallOK
  <2> QED BY <2>4, <2>5
<1> QED BY <1>4, <1>5, <1>6

\* The map after some sessions left it still names sessions by their ids.
LEMMA LeaveInv ==
    ASSUME V2Inv, NEW I \in SUBSET IDs,
           tracked' = [i \in IDs |-> IF i \in I THEN Nobody ELSE tracked[i]],
           call' \in [Calls -> CallRec], loop' \in {"run", "done"},
           \A c \in Calls : call'[c].id = call[c].id /\ CallOK(call'[c], Held(c)')
    PROVE  V2Inv'
<1>1. tracked' \in [IDs -> Calls \union {Nobody}] BY DEF V2Inv
<1>2. \A i \in IDs : tracked'[i] \in Calls => tracked[i] = tracked'[i] BY V2Assumption
<1>3. \A c \in Calls : CallOK(call[c], Held(c))' BY DEF CallOK, WillRead
<1> QED BY <1>1, <1>2, <1>3 DEF V2Inv

\* The RPCs of the edge and the loop of the manager.
LEMMA UnregisterInv ==
    ASSUME V2Inv, (\E i \in IDs : UnregisterUdpSession(i)) \/ ShutdownSessions
    PROVE  V2Inv'
<1>1. ASSUME NEW I \in SUBSET IDs,
             tracked' = [i \in IDs |-> IF i \in I THEN Nobody ELSE tracked[i]],
             call' = Told(Holders(I), "remote"), loop' = "stuck" => Blocked(Holders(I)),
             loop' \in {"run", "stuck", "done"}
      PROVE  V2Inv'
  <2>1. /\ loop' \in {"run", "done"}
        /\ \A c \in Calls : /\ call'[c] \in CallRec /\ CallOK(call'[c], Held(c)')
                            /\ call'[c].id = call[c].id
    BY <1>1, ToldOK
  <2>2. call' \in [Calls -> CallRec] BY <1>1, <2>1 DEF Told
  <2> QED BY <1>1, <2>1, <2>2, LeaveInv
<1>2. ASSUME NEW i \in IDs, UnregisterUdpSession(i) PROVE V2Inv'
  <2>1. tracked' = [j \in IDs |-> IF j \in {i} THEN Nobody ELSE tracked[j]]
    BY <1>2 DEF UnregisterUdpSession, UnregisterSession, V2Inv
  <2> QED BY <1>1, <1>2, <2>1 DEF UnregisterUdpSession, UnregisterSession
<1>3. CASE ShutdownSessions
  <2>1. tracked' = [j \in IDs |-> IF j \in IDs THEN Nobody ELSE tracked[j]]
    BY <1>3 DEF ShutdownSessions
  <2> QED BY <1>1, <1>3, <2>1 DEF ShutdownSessions
<1> QED BY <1>2, <1>3

\* A session that only moves on: it does not become registered, and does not go
\* back to before its registration.
LEMMA AtStep ==
    ASSUME V2Inv, NEW c \in Calls,
           NEW place \in {"dialling", "registering", "serving", "closing", "telling", "released", "done", "refused"},
           place \in Early => call[c].at \in Early,
           place # "refused" => call[c].at \notin {"none", "refused"},
           At(c, place), UNCHANGED <<tracked, loop>>
    PROVE  V2Inv'
<1> DEFINE k == [call[c] EXCEPT !.at = place]
<1>1. call[c] \in CallRec /\ CallOK(call[c], Held(c)) BY DEF V2Inv
<1>2. /\ k \in CallRec /\ k.at = place /\ k.id = call[c].id
      /\ k.chan = call[c].chan /\ k.reader = call[c].reader
  BY <1>1 DEF CallRec
<1>3. SetCall(c, k) BY DEF At
<1> HIDE DEF k
<1>4. CallOK(k, Held(c)) BY <1>1, <1>2 DEF CallOK, WillRead
<1> QED BY <1>2, <1>3, <1>4, CallStep

\* waitForCloseCondition returns.
LEMMA EndsInv ==
    ASSUME V2Inv, NEW c \in Calls, call[c].at = "serving",
           NEW why \in Reasons \union {"idle", "ctx"},
           why \notin {"idle", "ctx"} => call[c].chan # <<>>,
           Ends(c, why), UNCHANGED <<tracked, loop>>
    PROVE  V2Inv'
<1> DEFINE x == IF why = "remote" THEN "released" ELSE "closing"
           y == IF why \in {"idle", "ctx"} THEN call[c].chan ELSE Tail(call[c].chan)
           k == [call[c] EXCEPT !.at = x, !.chan = y]
<1>1. call[c] \in CallRec /\ CallOK(call[c], Held(c)) BY DEF V2Inv
<1>2. call[c].chan \in Seq(Reasons) BY <1>1 DEF CallRec
<1>3. y \in Seq(Reasons) /\ Len(y) <= Len(call[c].chan) /\ Len(y) \in Nat /\ Len(call[c].chan) \in Nat
  BY <1>2
<1>4. x \in {"released", "closing"} OBVIOUS
<1>5. SetCall(c, k)
  BY <1>1 DEF Ends, CallRec
<1> HIDE DEF x, y
<1>6. k \in CallRec /\ k.at = x /\ k.chan = y /\ k.id = call[c].id /\ k.reader = call[c].reader
  BY <1>1, <1>3, <1>4 DEF CallRec
<1> HIDE DEF k
<1>7. CallOK(k, Held(c))
  BY <1>1, <1>3, <1>4, <1>6 DEF CallOK, WillRead, Early
<1> QED BY <1>5, <1>6, <1>7, CallStep

\* The event loop registers a session: the one with the same id leaves the map.
LEMMA RegisterInv ==
    ASSUME V2Inv, NEW c \in Calls, RegisterSession(c)
    PROVE  V2Inv'
<1> DEFINE k == [call[c] EXCEPT !.at = "registered"]
<1>1. call[c] \in CallRec /\ CallOK(call[c], Held(c)) BY DEF V2Inv
<1>2. /\ k \in CallRec /\ k.at = "registered" /\ k.id = call[c].id
      /\ k.chan = call[c].chan /\ k.reader = call[c].reader
  BY <1>1 DEF CallRec
<1>3. call' = [call EXCEPT ![c] = k] /\ call[c].at = "registering" /\ loop' = loop
  BY DEF RegisterSession, At, SetCall, V2Same
<1>0. call[c].id \in IDs BY <1>1, <1>3 DEF CallOK
<1> HIDE DEF k
<1>4. \A h : CallOK(k, h)
  <2>1. Len(k.chan) = 0 /\ k.reader = "off" BY <1>1, <1>2, <1>3 DEF CallOK, Early
  <2> QED BY <1>0, <1>2, <2>1 DEF CallOK, Early
<1>5. \A d \in Calls : call'[d] = IF d = c THEN k ELSE call[d] BY <1>3 DEF V2Inv
<1>6. call' \in [Calls -> CallRec] BY <1>2, <1>3 DEF V2Inv
<1>7. \A d \in Calls : d # c => (Held(d)' => Held(d)) BY <1>0 DEF RegisterSession, V2Inv, Held
<1>8. \A d \in Calls : CallOK(call'[d], Held(d)')
  <2> SUFFICES ASSUME NEW d \in Calls, d # c PROVE CallOK(call[d], Held(d)')
    BY <1>4, <1>5
  <2>1. CallOK(call[d], Held(d)) /\ (Held(d)' => Held(d)) BY <1>7 DEF V2Inv
  <2> QED BY <2>1 DEF CallOK
<1>9. tracked' = [tracked EXCEPT ![call[c].id] = c] BY DEF RegisterSession
<1>10. tracked' \in [IDs -> Calls \union {Nobody}] BY <1>0, <1>9 DEF V2Inv
<1>11. ASSUME NEW i \in IDs, tracked'[i] \in Calls PROVE call'[tracked'[i]].id = i
  <2>1. CASE i = call[c].id
    BY <1>2, <1>5, <1>9, <2>1 DEF V2Inv
  <2>2. CASE i # call[c].id
    <3>1. tracked'[i] = tracked[i] BY <1>9, <2>2 DEF V2Inv
    <3>2. call[tracked[i]].id = i BY <1>11, <3>1 DEF V2Inv
    <3> QED BY <1>2, <1>5, <1>11, <3>1, <3>2
  <2> QED BY <2>1, <2>2
<1>12. \A d \in Calls : CallOK(call[d], Held(d))' BY <1>8 DEF CallOK, WillRead
<1> QED BY <1>3, <1>6, <1>10, <1>11, <1>12 DEF V2Inv

\* A session unregisters its id, whichever session has it by now.
LEMMA CloseInv ==
    ASSUME V2Inv, NEW c \in Calls, CloseUDPSession(c)
    PROVE  V2Inv'
<1>0. call[c].id \in IDs BY DEF CloseUDPSession, V2Inv, CallOK
<1> DEFINE I == {call[c].id}
           T == Told(Holders(I), "local")
           k == [T[c] EXCEPT !.at = "telling"]
<1>1. tracked' = [j \in IDs |-> IF j \in I THEN Nobody ELSE tracked[j]]
  BY DEF CloseUDPSession, UnregisterSession, V2Inv
<1>2. call' = [T EXCEPT ![c].at = "telling"] /\ call[c].at = "closing"
      /\ loop' \in {"run", "stuck"} /\ (loop' = "stuck" => Blocked(Holders(I)))
  BY DEF CloseUDPSession, UnregisterSession
<1>3. ~Blocked(Holders(I)) BY <1>0, <1>1, ToldOK
<1>4. \A d \in Calls : /\ T[d] \in CallRec /\ CallOK(T[d], Held(d)')
                      /\ T[d].at = call[d].at /\ T[d].id = call[d].id
  BY <1>0, <1>1, ToldOK
<1>5. T = [d \in Calls |-> T[d]] BY DEF Told
<1> HIDE DEF T, I
<1>6. \A d \in Calls : call'[d] = IF d = c THEN k ELSE T[d] BY <1>2, <1>5
<1>7. /\ k \in CallRec /\ k.at = "telling" /\ k.id = call[c].id
      /\ k.chan = T[c].chan /\ k.reader = T[c].reader
  BY <1>4 DEF CallRec
<1> HIDE DEF k
<1>8. CallOK(k, Held(c)')
  <2>1. CallOK(T[c], Held(c)') BY <1>4
  <2> QED BY <1>0, <1>7, <2>1 DEF CallOK, WillRead, Early
<1>9. call' \in [Calls -> CallRec]
  BY <1>2, <1>4, <1>5, <1>6, <1>7
<1>10. \A d \in Calls : call'[d].id = call[d].id /\ CallOK(call'[d], Held(d)')
  BY <1>4, <1>6, <1>7, <1>8
<1>11. I \in SUBSET IDs BY <1>0 DEF I
<1> QED BY <1>1, <1>2, <1>3, <1>9, <1>10, <1>11, LeaveInv

\* Every step of the edge, of a session and of the routines keeps the invariant.
LEMMA V2NextInv == V2Inv /\ [V2Next]_v2Vars => V2Inv'
<1> SUFFICES ASSUME V2Inv, [V2Next]_v2Vars PROVE V2Inv' OBVIOUS
<1>1. ASSUME UNCHANGED <<call, tracked, loop>> PROVE V2Inv'
  BY <1>1 DEF V2Inv, CallOK, WillRead, Held
<1>2. CASE UNCHANGED v2Vars BY <1>1, <1>2 DEF v2Vars
<1>3. ASSUME NEW c \in Calls, NEW i \in IDs, RegisterUdpSession(c, i) PROVE V2Inv'
  <2> DEFINE k == [NewCall EXCEPT !.at = "dialling", !.id = i]
  <2>1. /\ k \in CallRec /\ k.at = "dialling" /\ k.id = i /\ k.reader = "off" /\ Len(k.chan) = 0
    BY NewCallOK DEF CallRec
  <2>2. SetCall(c, k) /\ UNCHANGED <<tracked, loop>> /\ call[c].at = "none"
    BY <1>3 DEF RegisterUdpSession, V2Same
  <2>3. ~Held(c) BY <2>2 DEF V2Inv, CallOK, Early
  <2> HIDE DEF k
  <2>4. CallOK(k, Held(c)) BY <2>1, <2>3 DEF CallOK, WillRead
  <2> QED BY <2>1, <2>2, <2>3, <2>4, CallStep
<1>4. ASSUME NEW c \in Calls, BadParameters(c) \/ TooManyFlows(c) \/ DialUDPFails(c) \/ RegisterTimesOut(c)
      PROVE  V2Inv'
  BY <1>4, AtStep DEF BadParameters, TooManyFlows, DialUDPFails, RegisterTimesOut, Refused, V2Same, Early
<1>5. ASSUME NEW c \in Calls, DialUDP(c) \/ UnregisterTimesOut(c) \/ TellEdge(c) \/ ReleaseFlow(c)
      PROVE  V2Inv'
  BY <1>5, AtStep DEF DialUDP, UnregisterTimesOut, TellEdge, ReleaseFlow, V2Same, Early
<1>6. ASSUME NEW c \in Calls, Serve(c) PROVE V2Inv'
  <2> DEFINE k == [call[c] EXCEPT !.at = "serving", !.reader = "on"]
  <2>1. call[c] \in CallRec /\ CallOK(call[c], Held(c)) BY DEF V2Inv
  <2>2. /\ k \in CallRec /\ k.at = "serving" /\ k.id = call[c].id /\ k.reader = "on"
        /\ k.chan = call[c].chan
    BY <2>1 DEF CallRec
  <2>3. SetCall(c, k) /\ UNCHANGED <<tracked, loop>> /\ call[c].at = "registered"
    BY <1>6 DEF Serve, V2Same
  <2> HIDE DEF k
  <2>4. CallOK(k, Held(c)) BY <2>1, <2>2, <2>3 DEF CallOK, WillRead, Early
  <2> QED BY <2>2, <2>3, <2>4, CallStep
<1>7. ASSUME NEW c \in Calls, DstToTransportFails(c) PROVE V2Inv'
  <2> DEFINE y == Append(call[c].chan, "io")
             k == [call[c] EXCEPT !.reader = "off", !.chan = y]
  <2>1. call[c] \in CallRec /\ CallOK(call[c], Held(c)) BY DEF V2Inv
  <2>2. call[c].chan \in Seq(Reasons) BY <2>1 DEF CallRec
  <2>3. y \in Seq(Reasons) /\ Len(y) = Len(call[c].chan) + 1 /\ Len(call[c].chan) \in Nat
    BY <2>2 DEF Reasons
  <2>4. SetCall(c, k) /\ UNCHANGED <<tracked, loop>> /\ call[c].reader = "on"
    BY <1>7, <2>1 DEF DstToTransportFails, V2Same, CallRec
  <2> HIDE DEF y
  <2>5. /\ k \in CallRec /\ k.at = call[c].at /\ k.id = call[c].id /\ k.reader = "off" /\ k.chan = y
    BY <2>1, <2>3 DEF CallRec
  <2> HIDE DEF k
  <2>6. CallOK(k, Held(c)) BY <2>1, <2>3, <2>4, <2>5 DEF CallOK, WillRead, Early
  <2> QED BY <2>4, <2>5, <2>6, CallStep
<1>8. ASSUME NEW c \in Calls, WaitForCloseCondition(c) \/ IdleTick(c) PROVE V2Inv'
  <2>1. UNCHANGED <<tracked, loop>> /\ call[c].at = "serving"
    BY <1>8 DEF WaitForCloseCondition, IdleTick, V2Same
  <2>2. call[c].chan \in Seq(Reasons) BY DEF V2Inv, CallRec
  <2>3. CASE Ends(c, "ctx") \/ Ends(c, "idle") BY <2>1, <2>3, EndsInv
  <2>4. CASE call[c].chan # <<>> /\ Ends(c, Head(call[c].chan))
    <3>1. Head(call[c].chan) \in Reasons BY <2>2, <2>4
    <3> QED BY <2>1, <2>4, <3>1, EndsInv DEF Reasons
  <2> QED BY <1>8, <2>3, <2>4 DEF WaitForCloseCondition, IdleTick
<1>9. CASE \/ \E k \in Kinds : Receive(k)
           \/ RoutineStep \/ MuxEnds \/ RouterEnds \/ ConnectionEnds \/ ServeReturns
  BY <1>1, <1>9 DEF Receive, RoutineStep, Enqueue, SendToSession, RoutePacket, MuxEnds, RouterEnds,
                    ConnectionEnds, ServeReturns
<1> QED BY <1>2, <1>3, <1>4, <1>5, <1>6, <1>7, <1>8, <1>9, RegisterInv, CloseInv, UnregisterInv
        DEF V2Next, SessionStep

\* For any number of calls and ids: neither the event loop of a connection nor
\* the reader of a socket waits for room in closeChan.
THEOREM LoopSafe == V2Spec => []LoopNeverBlocks
<1>1. V2Inv => LoopNeverBlocks
  <2> SUFFICES ASSUME V2Inv PROVE LoopNeverBlocks OBVIOUS
  <2>1. loop # "stuck" BY DEF V2Inv
  <2>2. ASSUME NEW c \in Calls, call[c].reader = "on" PROVE Len(call[c].chan) < CloseCap
    <3>1. CallOK(call[c], Held(c)) /\ call[c].chan \in Seq(Reasons) BY DEF V2Inv, CallRec
    <3>2. Len(call[c].chan) \in Nat BY <3>1
    <3> QED BY <2>2, <3>1, <3>2 DEF CallOK, WillRead, CloseCap
  <2> QED BY <2>1, <2>2 DEF LoopNeverBlocks
<1> QED BY V2InitInv, V2NextInv, <1>1, PTL DEF V2Spec

-----------------------------------------------------------------------------
(* The ICMP proxy *)

ICMPSpec == ICMPInit /\ [][ICMPNext]_icmpVars

FlowRec == [key : Keys \union {NoFlow}, index : Indexes \union {0}, id : Ports \union IDSpace,
            at : {"open", "closed"}, listener : {"on", "ending", "off"}, own : BOOLEAN]

AskRec == [at : {"idle", "request", "assigned", "send"}, key : Keys \union {NoFlow},
           id : IDSpace, flow : Flows \union {NoFlow}]

\* The flow r is the one of the funnel x: Linux finds funnels by the key of the
\* flow, Darwin by its echo id.
Owns(r, x) ==
    /\ r.at = "open" /\ r.key \in Keys
    /\ IF platform = "linux" THEN x = r.key ELSE x = r.id /\ r.id \in IDSpace

AskedInv ==
    /\ asked \in [Indexes -> AskRec]
    /\ \A i \in Indexes : asked[i].at \in {"request", "assigned"} => asked[i].key \in Keys

\* The funnels in the tracker are the open ones, each under its own name, and
\* goroutines are of flows with a key.
FunnelInv ==
    /\ flow \in [Flows -> FlowRec]
    /\ funnels \in [Keys \union IDSpace -> Flows \union {NoFlow}]
    /\ \A x \in Keys \union IDSpace : funnels[x] # NoFlow => Owns(flow[funnels[x]], x)
    /\ \A f \in Flows : flow[f].at = "open" =>
                          \E x \in Keys \union IDSpace : funnels[x] = f /\ Owns(flow[f], x)
    /\ \A f \in Flows : flow[f].listener # "off" => platform = "linux" /\ flow[f].key \in Keys

EchoInv ==
    /\ mapping \in [Keys -> IDSpace \union {-1}] /\ assigned \subseteq IDSpace
    /\ nextID \in 0 .. EchoIDs
    /\ EchoIDsUnique

ICMPInv == AskedInv /\ FunnelInv /\ EchoInv /\ EchoIDsKept

\* The records of an idle router and of a flow that is not used.
LEMMA IdleDead ==
    /\ Idle \in AskRec /\ Idle.at = "idle"
    /\ Dead \in FlowRec /\ Dead.at = "closed" /\ Dead.listener = "off" /\ Dead.key = NoFlow
<1>1. 0 \in IDSpace BY ICMPAssumption DEF IDSpace
<1> QED BY <1>1 DEF Idle, AskRec, Dead, FlowRec

\* No flow, no mapping and no id at the start.
LEMMA ICMPInitInv == ICMPInit => ICMPInv
<1> SUFFICES ASSUME ICMPInit PROVE ICMPInv OBVIOUS
<1>1. AskedInv BY IdleDead DEF ICMPInit, AskedInv
<1>2. FunnelInv BY IdleDead DEF ICMPInit, FunnelInv
<1>3. EchoInv
  <2>1. nextID \in 0 .. EchoIDs BY ICMPAssumption DEF ICMPInit
  <2>2. \A k \in Keys : mapping[k] = -1 BY DEF ICMPInit
  <2>3. EchoIDsUnique BY <2>2 DEF EchoIDsUnique, ICMPInit
  <2> QED BY <2>1, <2>3 DEF ICMPInit, EchoInv
<1>4. EchoIDsKept BY IdleDead DEF ICMPInit, EchoIDsKept
<1> QED BY <1>1, <1>2, <1>3, <1>4 DEF ICMPInv

\* A set of naturals that is not empty has a least element, and Min is one.
LEMMA MinIn ==
    ASSUME NEW S \in SUBSET Nat, S # {}
    PROVE  Min(S) \in S
<1> DEFINE R == OpToRel(<, Nat)
<1>1. \E x \in S : \A y \in S : ~(<<y, x>> \in R)
  <2>1. IsWellFoundedOn(R, Nat) BY NatLessThanWellFounded
  <2> HIDE DEF R
  <2> QED BY <2>1, WFMin
<1>2. \E x \in S : \A y \in S : x =< y
  <2>1. \A x, y \in Nat : y < x => <<y, x>> \in R BY DEF OpToRel
  <2> HIDE DEF R
  <2>2. PICK x \in S : \A y \in S : ~(<<y, x>> \in R) BY <1>1
  <2>3. \A y \in S : ~(y < x) BY <2>1, <2>2
  <2> QED BY <2>3
<1> QED BY <1>2 DEF Min

\* getOrAssign finds an id that is not assigned when there is one.
LEMMA FirstFreeIsFree ==
    ASSUME ~ IDSpace \subseteq assigned, nextID \in 0 .. EchoIDs
    PROVE  FirstFree \in IDSpace /\ FirstFree \notin assigned
<1> DEFINE start == IF nextID = EchoIDs THEN 0 ELSE nextID
           free == IDSpace \ assigned
           later == {d \in free : d >= start}
           pool == IF later = {} THEN free ELSE later
<1>1. pool \in SUBSET Nat /\ pool # {} /\ pool \subseteq free
  BY ICMPAssumption DEF IDSpace
<1>2. FirstFree = Min(pool) BY DEF FirstFree
<1> HIDE DEF pool
<1>3. Min(pool) \in pool BY <1>1, MinIn
<1> QED BY <1>1, <1>2, <1>3

\* What Funnel.Close leaves of the flows of S: none is open, and one keeps its
\* key as long as its goroutine runs.
LEMMA ClosedOK ==
    ASSUME flow \in [Flows -> FlowRec], NEW S \in SUBSET Flows
    PROVE  /\ Closed(S) \in [Flows -> FlowRec]
           /\ \A f \in Flows \ S : Closed(S)[f] = flow[f]
           /\ \A f \in S : /\ Closed(S)[f].at = "closed"
                           /\ Closed(S)[f].listener # "off" =>
                                 /\ Closed(S)[f].key = flow[f].key
                                 /\ Closed(S)[f].listener = flow[f].listener
<1>1. ASSUME NEW f \in Flows
      PROVE  LET r == [flow[f] EXCEPT !.at = "closed"] IN
             r \in FlowRec /\ r.at = "closed" /\ r.key = flow[f].key /\ r.listener = flow[f].listener
  BY DEF FlowRec
<1>2. ASSUME NEW r \in FlowRec, r.at = "closed"
      PROVE  /\ Forget(r) \in FlowRec /\ Forget(r).at = "closed"
             /\ Forget(r).listener # "off" => Forget(r) = r
  BY <1>2, IdleDead DEF Forget
<1>3. \A f \in S : Closed(S)[f] = Forget([flow[f] EXCEPT !.at = "closed"]) BY DEF Closed
<1>4. \A f \in Flows \ S : Closed(S)[f] = flow[f] BY DEF Closed
<1>5. \A f \in S : /\ Closed(S)[f] \in FlowRec /\ Closed(S)[f].at = "closed"
                   /\ Closed(S)[f].listener # "off" =>
                         /\ Closed(S)[f].key = flow[f].key
                         /\ Closed(S)[f].listener = flow[f].listener
  <2> SUFFICES ASSUME NEW f \in S
               PROVE  /\ Closed(S)[f] \in FlowRec /\ Closed(S)[f].at = "closed"
                      /\ Closed(S)[f].listener # "off" =>
                            /\ Closed(S)[f].key = flow[f].key
                            /\ Closed(S)[f].listener = flow[f].listener
    OBVIOUS
  <2> DEFINE r == [flow[f] EXCEPT !.at = "closed"]
  <2>1. r \in FlowRec /\ r.at = "closed" /\ r.key = flow[f].key /\ r.listener = flow[f].listener BY <1>1
  <2>2. Closed(S)[f] = Forget(r) BY <1>3
  <2> HIDE DEF r
  <2>3. /\ Forget(r) \in FlowRec /\ Forget(r).at = "closed"
        /\ Forget(r).listener # "off" => Forget(r) = r
    BY <1>2, <2>1
  <2> QED BY <2>1, <2>2, <2>3
<1>6. \A f \in Flows : Closed(S)[f] \in FlowRec BY <1>4, <1>5
<1>7. Closed(S) \in [Flows -> FlowRec] BY <1>6 DEF Closed
<1> QED BY <1>4, <1>5, <1>7

\* Release takes ids from exactly the keys that lose their mapping, so the ids
\* marked as assigned stay the mapped ones.
LEMMA ReleaseInv ==
    ASSUME EchoInv, NEW S \in SUBSET Flows, \A f \in S : flow[f].key \in Keys,
           Release(S), nextID' = nextID
    PROVE  EchoInv'
<1>1. CASE platform # "darwin"
  BY <1>1 DEF Release, EchoInv, EchoIDsUnique
<1>2. CASE platform = "darwin"
  <2> DEFINE gone == {flow[f].id : f \in {f \in S : mapping[flow[f].key] = flow[f].id}}
             cut(k) == \E f \in S : flow[f].key = k /\ flow[f].id = mapping[k]
  <2>1. assigned' = assigned \ gone BY <1>2 DEF Release, ReleaseMapped
  <2>2. mapping' = [k \in Keys |-> IF cut(k) THEN -1 ELSE mapping[k]] BY <1>2 DEF Release
  <2>3. \A k \in Keys : cut(k) => mapping[k] \in gone OBVIOUS
  <2>4. \A d \in gone : \E k \in Keys : mapping[k] = d /\ cut(k) OBVIOUS
  <2> HIDE DEF gone, cut
  <2>5. mapping' \in [Keys -> IDSpace \union {-1}] BY <2>2 DEF EchoInv
  <2>6. \A k \in Keys : mapping'[k] # -1 => mapping'[k] = mapping[k] /\ ~cut(k) BY <2>2
  <2>7. \A k, l \in Keys : mapping'[k] # -1 /\ mapping'[k] = mapping'[l] => k = l
    BY <2>6 DEF EchoInv, EchoIDsUnique
  <2>8. ASSUME NEW d \in assigned' PROVE d \in {mapping'[k] : k \in Keys} \ {-1}
    <3>1. d \in assigned /\ d \notin gone BY <2>1
    <3>2. PICK k \in Keys : mapping[k] = d /\ d # -1 BY <3>1 DEF EchoInv, EchoIDsUnique
    <3>3. ~cut(k) BY <2>3, <3>1, <3>2
    <3> QED BY <2>2, <3>2, <3>3
  <2>9. ASSUME NEW d \in {mapping'[k] : k \in Keys} \ {-1} PROVE d \in assigned'
    <3>1. PICK k \in Keys : mapping'[k] = d /\ d # -1 OBVIOUS
    <3>2. mapping[k] = d /\ ~cut(k) BY <2>6, <3>1
    <3>3. d \in assigned BY <3>1, <3>2 DEF EchoInv, EchoIDsUnique
    <3>4. d \notin gone BY <2>4, <3>1, <3>2 DEF EchoInv, EchoIDsUnique
    <3> QED BY <2>1, <3>3, <3>4
  <2>10. assigned' = {mapping'[k] : k \in Keys} \ {-1} BY <2>8, <2>9
  <2>11. assigned' \subseteq IDSpace BY <2>1 DEF EchoInv
  <2> QED BY <2>5, <2>7, <2>10, <2>11 DEF EchoInv, EchoIDsUnique
<1> QED BY <1>1, <1>2

\* No flow is under two names in the tracker.
LEMMA OneName ==
    ASSUME FunnelInv
    PROVE  \A x, y \in Keys \union IDSpace : funnels[x] # NoFlow /\ funnels[x] = funnels[y] => x = y
BY DEF FunnelInv, Owns

\* The flow f stays what it is, but for its goroutine.
Stays(f) ==
    /\ flow'[f].at = flow[f].at /\ flow'[f].key = flow[f].key
    /\ flow'[f].id = flow[f].id /\ flow'[f].own = flow[f].own

\* The close of the flows of S releases the echo id of no other flow that has
\* its id: a flow with the same key and id would be the one in the funnel of the
\* id.  A flow that was not there before has its id mapped or is not its owner.
LEMMA ReleaseKeeps ==
    ASSUME FunnelInv, EchoInv, EchoIDsKept, NEW S \in SUBSET Flows,
           \A g \in S : \E x \in Keys \union IDSpace : funnels[x] = g,
           Release(S), platform' = platform,
           \A f \in Flows : flow'[f].at = "open" /\ flow'[f].own =>
                               \/ mapping'[flow'[f].key] = flow'[f].id
                               \/ f \notin S /\ Stays(f)
    PROVE  EchoIDsKept'
<1> SUFFICES ASSUME platform = "darwin", NEW f \in Flows, f \notin S, Stays(f),
                    flow[f].at = "open", flow[f].own
             PROVE  mapping'[flow[f].key] = flow[f].id
  BY DEF EchoIDsKept, Stays
<1> DEFINE k == flow[f].key
<1>1. mapping[k] = flow[f].id BY DEF EchoIDsKept
<1>2. k \in Keys /\ funnels[flow[f].id] = f BY DEF FunnelInv, Owns
<1>3. ASSUME NEW g \in S, flow[g].id = flow[f].id PROVE FALSE
  <2>1. PICK x \in Keys \union IDSpace : funnels[x] = g OBVIOUS
  <2>2. x = flow[g].id BY <2>1, ICMPAssumption DEF FunnelInv, Owns
  <2> QED BY <1>2, <1>3, <2>1, <2>2
<1>4. ~ \E g \in S : flow[g].key = k /\ flow[g].id = mapping[k] BY <1>1, <1>3
<1>5. mapping'[k] = mapping[k] BY <1>2, <1>4 DEF Release
<1> QED BY <1>1, <1>5

\* The funnels of S leave the tracker and no other flow is opened or closed.
LEMMA FunnelsLeave ==
    ASSUME FunnelInv, NEW S \in SUBSET Flows, platform' = platform,
           flow' \in [Flows -> FlowRec],
           \A f \in Flows \ S : flow[f].at = "open" => Stays(f),
           \A f \in Flows : flow'[f].at = "open" => f \notin S /\ Stays(f),
           \A f \in Flows : flow'[f].listener # "off" =>
                               flow[f].listener # "off" /\ flow'[f].key = flow[f].key,
           funnels' = [x \in Keys \union IDSpace |-> IF funnels[x] \in S THEN NoFlow ELSE funnels[x]]
    PROVE  FunnelInv'
<1>1. funnels' \in [Keys \union IDSpace -> Flows \union {NoFlow}] BY DEF FunnelInv
<1>2. ASSUME NEW x \in Keys \union IDSpace, funnels'[x] # NoFlow
      PROVE  Owns(flow[funnels[x]], x)'
  <2>1. funnels'[x] = funnels[x] /\ funnels[x] \in Flows \ S BY <1>2 DEF FunnelInv
  <2>2. Owns(flow[funnels[x]], x) BY <1>2, <2>1 DEF FunnelInv
  <2>3. Stays(funnels[x]) BY <2>1, <2>2 DEF Owns
  <2> QED BY <2>1, <2>2, <2>3 DEF Owns, Stays
<1>3. ASSUME NEW f \in Flows, flow'[f].at = "open"
      PROVE  \E x \in Keys \union IDSpace : funnels'[x] = f /\ Owns(flow[f], x)'
  <2>1. f \notin S /\ Stays(f) BY <1>3
  <2>2. PICK x \in Keys \union IDSpace : funnels[x] = f /\ Owns(flow[f], x)
    BY <1>3, <2>1 DEF FunnelInv, Stays
  <2>3. funnels'[x] = f BY <2>1, <2>2
  <2> QED BY <2>1, <2>2, <2>3 DEF Owns, Stays
<1>4. \A f \in Flows : flow'[f].listener # "off" => platform = "linux" /\ flow'[f].key \in Keys
  BY DEF FunnelInv
<1> QED BY <1>1, <1>2, <1>3, <1>4 DEF FunnelInv

\* Funnels are closed and taken out of the tracker together.
LEMMA CloseFunnels ==
    ASSUME FunnelInv, NEW S \in SUBSET Flows,
           flow' = Closed(S), platform' = platform,
           funnels' = [x \in Keys \union IDSpace |-> IF funnels[x] \in S THEN NoFlow ELSE funnels[x]]
    PROVE  FunnelInv'
<1>0. flow \in [Flows -> FlowRec] BY DEF FunnelInv
<1>1. flow' \in [Flows -> FlowRec] BY <1>0, ClosedOK
<1>2. \A f \in Flows \ S : flow'[f] = flow[f] BY <1>0, ClosedOK
<1>3. \A f \in S : /\ flow'[f].at = "closed"
                   /\ flow'[f].listener # "off" =>
                         flow'[f].key = flow[f].key /\ flow'[f].listener = flow[f].listener
  BY <1>0, ClosedOK
<1>4. \A f \in Flows \ S : Stays(f) BY <1>2 DEF Stays
<1>5. \A f \in Flows : flow'[f].listener # "off" => flow[f].listener # "off" /\ flow'[f].key = flow[f].key
  BY <1>2, <1>3
<1>6. \A f \in Flows : flow'[f].at = "open" => f \notin S /\ Stays(f) BY <1>3, <1>4
<1> QED BY <1>1, <1>4, <1>5, <1>6, FunnelsLeave

\* The funnel of x is given to the new flow f, and the one it had is closed.
LEMMA ReplaceFunnel ==
    ASSUME FunnelInv, NEW x \in Keys \union IDSpace, NEW f \in Flows, flow[f] = Dead,
           NEW r \in FlowRec, Owns(r, x), r.listener = "off" \/ platform = "linux",
           flow' = [Closed(Existing(x)) EXCEPT ![f] = r],
           funnels' = [funnels EXCEPT ![x] = f], platform' = platform
    PROVE  FunnelInv'
<1> DEFINE S == Existing(x)
           T == Closed(S)
<1>0. flow \in [Flows -> FlowRec] /\ funnels \in [Keys \union IDSpace -> Flows \union {NoFlow}]
  BY DEF FunnelInv
<1>1. S \in SUBSET Flows BY <1>0 DEF Existing
<1>2. T \in [Flows -> FlowRec] BY <1>0, <1>1, ClosedOK
<1>3. \A g \in Flows \ S : T[g] = flow[g] BY <1>0, <1>1, ClosedOK
<1>4. \A g \in S : /\ T[g].at = "closed"
                   /\ T[g].listener # "off" => T[g].key = flow[g].key /\ T[g].listener = flow[g].listener
  BY <1>0, <1>1, ClosedOK
<1>5. \A y \in Keys \union IDSpace : funnels[y] # f
  <2>1. flow[f].at # "open" BY IdleDead
  <2> QED BY <2>1, ICMPAssumption DEF FunnelInv, Owns
<1>6. \A y \in Keys \union IDSpace : y # x => funnels[y] \notin S
  BY OneName DEF Existing
<1>7. \A y \in Keys \union IDSpace : funnels'[y] = IF y = x THEN f ELSE funnels[y] BY <1>0
<1>8. funnels' \in [Keys \union IDSpace -> Flows \union {NoFlow}] BY <1>0
<1> HIDE DEF T
<1>9. \A g \in Flows : flow'[g] = IF g = f THEN r ELSE T[g] BY <1>2 DEF T
<1>10. flow' \in [Flows -> FlowRec] BY <1>2 DEF T
<1>11. ASSUME NEW y \in Keys \union IDSpace, funnels'[y] # NoFlow
       PROVE  Owns(flow[funnels[y]], y)'
  <2>1. CASE y = x BY <1>7, <1>9, <2>1 DEF Owns
  <2>2. CASE y # x
    <3>1. funnels'[y] = funnels[y] /\ funnels[y] \in Flows \ S /\ funnels[y] # f
      BY <1>0, <1>5, <1>6, <1>7, <1>11, <2>2
    <3>2. flow'[funnels[y]] = flow[funnels[y]] BY <1>3, <1>9, <3>1
    <3>3. Owns(flow[funnels[y]], y) BY <1>11, <3>1 DEF FunnelInv
    <3> QED BY <3>1, <3>2, <3>3 DEF Owns
  <2> QED BY <2>1, <2>2
<1>12. ASSUME NEW g \in Flows, flow'[g].at = "open"
       PROVE  \E y \in Keys \union IDSpace : funnels'[y] = g /\ Owns(flow[g], y)'
  <2>1. CASE g = f
    <3>1. funnels'[x] = g /\ flow'[g] = r BY <1>7, <1>9, <2>1
    <3> QED BY <3>1 DEF Owns
  <2>2. CASE g # f
    <3>1. flow'[g] = T[g] BY <1>9, <2>2
    <3>2. g \notin S /\ flow'[g] = flow[g] BY <1>3, <1>4, <1>12, <3>1
    <3>3. PICK y \in Keys \union IDSpace : funnels[y] = g /\ Owns(flow[g], y)
      BY <1>12, <3>2 DEF FunnelInv
    <3>4. y # x BY <3>2, <3>3, ICMPAssumption DEF Existing
    <3>5. funnels'[y] = g BY <1>7, <3>3, <3>4
    <3> QED BY <3>2, <3>3, <3>5 DEF Owns
  <2> QED BY <2>1, <2>2
<1>13. ASSUME NEW g \in Flows, flow'[g].listener # "off"
       PROVE  platform = "linux" /\ flow'[g].key \in Keys
  <2>1. CASE g = f BY <1>9, <1>13, <2>1 DEF Owns
  <2>2. CASE g # f
    <3>1. flow'[g].key = flow[g].key /\ flow'[g].listener = flow[g].listener
      BY <1>3, <1>4, <1>9, <1>13, <2>2
    <3> QED BY <1>13, <3>1 DEF FunnelInv
  <2> QED BY <2>1, <2>2
<1> QED BY <1>8, <1>10, <1>11, <1>12, <1>13 DEF FunnelInv

\* The router of one connection moves to a consistent state.
LEMMA AskedStep ==
    ASSUME AskedInv, NEW i \in Indexes, NEW new \in AskRec, Handle(i, new),
           new.at \in {"request", "assigned"} => new.key \in Keys
    PROVE  AskedInv'
BY DEF AskedInv, Handle

\* GetOrRegister, for the funnel x of the request that i handles.
LEMMA GetOrRegisterInv ==
    ASSUME ICMPInv, NEW i \in Indexes, asked[i].key \in Keys,
           NEW x \in Keys \union IDSpace, NEW id \in Ports \union IDSpace,
           IF platform = "linux" THEN x = asked[i].key ELSE x = id /\ id \in IDSpace,
           UNCHANGED <<platform, nextID>>,
           KeepFunnel(i, x) \/ NewFunnelFails(i, x) \/ \E f \in Flows : NewFunnel(i, x, f, id)
    PROVE  ICMPInv'
<1>0. asked[i] \in AskRec /\ AskedInv /\ FunnelInv /\ EchoInv /\ EchoIDsKept
  BY DEF ICMPInv, AskedInv
<1>1. Existing(x) \in SUBSET Flows /\ funnels[x] \in Flows \union {NoFlow}
  BY <1>0 DEF FunnelInv, Existing
<1>2. \A f \in Existing(x) : flow[f].key \in Keys
  BY <1>0 DEF FunnelInv, Existing, Owns
<1>7. \A f \in Existing(x) : \E y \in Keys \union IDSpace : funnels[y] = f BY DEF Existing
<1>8. /\ \A f \in Flows \ Existing(x) : Closed(Existing(x))[f] = flow[f]
      /\ \A f \in Existing(x) : Closed(Existing(x))[f].at = "closed"
      /\ Closed(Existing(x)) \in [Flows -> FlowRec]
  BY <1>0, <1>1, ClosedOK DEF FunnelInv
<1>3. ASSUME NEW g \in Flows \union {NoFlow}, Handle(i, [asked[i] EXCEPT !.at = "send", !.flow = g])
      PROVE  AskedInv'
  <2> DEFINE new == [asked[i] EXCEPT !.at = "send", !.flow = g]
  <2>1. new \in AskRec /\ new.at = "send" BY <1>0 DEF AskRec
  <2> HIDE DEF new
  <2> QED BY <1>0, <1>3, <2>1, AskedStep DEF new
<1>4. CASE KeepFunnel(i, x)
  <2>1. AskedInv' BY <1>1, <1>3, <1>4 DEF KeepFunnel
  <2>2. FunnelInv' BY <1>0, <1>4 DEF KeepFunnel, FunnelInv, Owns
  <2>3. EchoInv' BY <1>0, <1>4 DEF KeepFunnel, EchoInv, EchoIDsUnique
  <2>4. EchoIDsKept' BY <1>0, <1>4 DEF KeepFunnel, EchoIDsKept
  <2> QED BY <2>1, <2>2, <2>3, <2>4 DEF ICMPInv
<1>5. CASE NewFunnelFails(i, x)
  <2>1. AskedInv' BY <1>0, <1>5, IdleDead, AskedStep DEF NewFunnelFails
  <2>2. flow' = Closed(Existing(x)) /\ Release(Existing(x)) /\ funnels' = [funnels EXCEPT ![x] = NoFlow]
    BY <1>5 DEF NewFunnelFails
  <2>3. funnels' = [y \in Keys \union IDSpace |-> IF funnels[y] \in Existing(x) THEN NoFlow ELSE funnels[y]]
    <3>1. \A y \in Keys \union IDSpace : y # x => funnels[y] \notin Existing(x)
      BY <1>0, OneName DEF Existing
    <3>2. funnels[x] \notin Existing(x) => funnels[x] = NoFlow BY DEF Existing
    <3> QED BY <1>0, <2>2, <3>1, <3>2 DEF FunnelInv
  <2>4. FunnelInv' BY <1>0, <1>1, <2>2, <2>3, CloseFunnels
  <2>5. EchoInv' BY <1>0, <1>1, <1>2, <2>2, ReleaseInv
  <2>6. EchoIDsKept' BY <1>5 DEF NewFunnelFails, EchoIDsKept
  <2> QED BY <2>1, <2>4, <2>5, <2>6 DEF ICMPInv
<1>6. ASSUME NEW f \in Flows, NewFunnel(i, x, f, id) PROVE ICMPInv'
  <2> DEFINE r == [key |-> asked[i].key, index |-> i, id |-> id, at |-> "open",
                   listener |-> IF platform = "linux" THEN "on" ELSE "off",
                   own |-> mapping'[asked[i].key] = id]
  <2>1. AskedInv' BY <1>3, <1>6 DEF NewFunnel
  <2>2. /\ r \in FlowRec /\ Owns(r, x) /\ (r.listener = "off" \/ platform = "linux")
        /\ r.own => mapping'[r.key] = r.id
    <3>1. r.own \in BOOLEAN OBVIOUS
    <3> QED BY <3>1 DEF FlowRec, Owns
  <2>3. /\ flow' = [Closed(Existing(x)) EXCEPT ![f] = r] /\ funnels' = [funnels EXCEPT ![x] = f]
        /\ Release(Existing(x)) /\ flow[f] = Dead
    BY <1>6 DEF NewFunnel, Unused
  <2> HIDE DEF r
  <2>4. FunnelInv' BY <1>0, <2>2, <2>3, ReplaceFunnel
  <2>5. EchoInv' BY <1>0, <1>1, <1>2, <2>3, ReleaseInv
  <2>6. \A g \in Flows : flow'[g] = IF g = f THEN r ELSE Closed(Existing(x))[g] BY <1>8, <2>3
  <2>7. ASSUME NEW g \in Flows, flow'[g].at = "open", flow'[g].own
        PROVE  mapping'[flow'[g].key] = flow'[g].id \/ (g \notin Existing(x) /\ Stays(g))
    BY <1>8, <2>2, <2>6, <2>7 DEF Stays
  <2>8. EchoIDsKept' BY <1>0, <1>1, <1>7, <2>3, <2>7, ReleaseKeeps
  <2> QED BY <2>1, <2>4, <2>5, <2>8 DEF ICMPInv
<1> QED BY <1>4, <1>5, <1>6

\* getOrAssign on Darwin.
LEMMA GetOrAssignInv ==
    ASSUME ICMPInv, NEW i \in Indexes, GetOrAssign(i)
    PROVE  ICMPInv'
<1> DEFINE k == asked[i].key
<1>0. /\ asked[i] \in AskRec /\ AskedInv /\ FunnelInv /\ EchoInv /\ k \in Keys
      /\ EchoIDsKept /\ UNCHANGED <<platform, flow, funnels>>
  BY DEF ICMPInv, AskedInv, GetOrAssign
<1>1. FunnelInv' BY <1>0 DEF FunnelInv, Owns
<1>6. ASSUME UNCHANGED mapping PROVE EchoIDsKept' BY <1>0, <1>6 DEF EchoIDsKept
<1>2. ASSUME NEW d \in IDSpace, Handle(i, [asked[i] EXCEPT !.at = "assigned", !.id = d])
      PROVE  AskedInv'
  <2> DEFINE new == [asked[i] EXCEPT !.at = "assigned", !.id = d]
  <2>1. new \in AskRec /\ new.at = "assigned" /\ new.key = asked[i].key BY <1>0 DEF AskRec
  <2> HIDE DEF new
  <2> QED BY <1>0, <1>2, <2>1, AskedStep DEF new
<1>3. CASE /\ mapping[k] # -1 /\ Handle(i, [asked[i] EXCEPT !.at = "assigned", !.id = mapping[k]])
           /\ UNCHANGED <<mapping, assigned, nextID>>
  <2>1. mapping[k] \in IDSpace BY <1>0, <1>3 DEF EchoInv
  <2>2. AskedInv' BY <1>2, <1>3, <2>1
  <2>3. EchoInv' BY <1>0, <1>3 DEF EchoInv, EchoIDsUnique
  <2> QED BY <1>1, <1>3, <1>6, <2>2, <2>3 DEF ICMPInv
<1>4. CASE Handle(i, Idle) /\ UNCHANGED <<mapping, assigned, nextID>>
  <2>1. AskedInv' BY <1>0, <1>4, IdleDead, AskedStep
  <2>2. EchoInv' BY <1>0, <1>4 DEF EchoInv, EchoIDsUnique
  <2> QED BY <1>1, <1>4, <1>6, <2>1, <2>2 DEF ICMPInv
<1>5. CASE /\ mapping[k] = -1 /\ ~ IDSpace \subseteq assigned
           /\ mapping' = [mapping EXCEPT ![k] = FirstFree]
           /\ assigned' = assigned \union {FirstFree} /\ nextID' = FirstFree + 1
           /\ Handle(i, [asked[i] EXCEPT !.at = "assigned", !.id = FirstFree])
  <2>1. FirstFree \in IDSpace /\ FirstFree \notin assigned
    BY <1>0, <1>5, FirstFreeIsFree DEF EchoInv
  <2>2. AskedInv' BY <1>2, <1>5, <2>1
  <2>3. nextID' \in 0 .. EchoIDs /\ FirstFree # -1 BY <1>5, <2>1, ICMPAssumption DEF IDSpace
  <2>4. mapping' \in [Keys -> IDSpace \union {-1}] /\ assigned' \subseteq IDSpace
    BY <1>0, <1>5, <2>1 DEF EchoInv
  <2>5. \A l \in Keys : mapping'[l] = IF l = k THEN FirstFree ELSE mapping[l]
    BY <1>0, <1>5 DEF EchoInv
  <2>6. \A l \in Keys : mapping[l] # FirstFree
    BY <1>0, <2>1, <2>3 DEF EchoInv, EchoIDsUnique
  <2>7. \A l, m \in Keys : mapping'[l] # -1 /\ mapping'[l] = mapping'[m] => l = m
    BY <1>0, <2>5, <2>6 DEF EchoInv, EchoIDsUnique
  <2>8. assigned = {mapping[l] : l \in Keys} \ {-1} BY <1>0 DEF EchoInv, EchoIDsUnique
  <2>9. assigned' = {mapping'[l] : l \in Keys} \ {-1}
    <3>1. ASSUME NEW d \in assigned' PROVE d \in {mapping'[l] : l \in Keys} \ {-1}
      <4>1. CASE d = FirstFree BY <1>0, <2>3, <2>5, <4>1
      <4>2. CASE d \in assigned
        <5>1. PICK l \in Keys : mapping[l] = d /\ d # -1 BY <2>8, <4>2
        <5> QED BY <1>5, <2>5, <5>1
      <4> QED BY <1>5, <4>1, <4>2
    <3>2. ASSUME NEW d \in {mapping'[l] : l \in Keys} \ {-1} PROVE d \in assigned'
      <4>1. PICK l \in Keys : mapping'[l] = d /\ d # -1 OBVIOUS
      <4> QED BY <1>5, <2>5, <2>8, <4>1
    <3> QED BY <3>1, <3>2
  <2>10. EchoIDsKept'
    <3> SUFFICES ASSUME platform = "darwin", NEW f \in Flows, flow[f].at = "open", flow[f].own
                 PROVE  mapping'[flow[f].key] = flow[f].id
      BY <1>0 DEF EchoIDsKept
    <3>1. mapping[flow[f].key] = flow[f].id BY <1>0 DEF EchoIDsKept
    <3>2. flow[f].key \in Keys /\ flow[f].id \in IDSpace BY <1>0 DEF FunnelInv, Owns
    <3>3. flow[f].key # k BY <1>5, <3>1, <3>2 DEF IDSpace
    <3> QED BY <2>5, <3>1, <3>2, <3>3
  <2> QED BY <1>1, <2>2, <2>3, <2>4, <2>7, <2>9, <2>10 DEF ICMPInv, EchoInv, EchoIDsUnique
<1> QED BY <1>3, <1>4, <1>5 DEF GetOrAssign

\* The goroutine of a flow ends: it closes what the tracker has under its key
\* when that looks like its own flow, and forgets the flow.
LEMMA ListenerInv ==
    ASSUME FunnelInv, NEW f \in Flows, ListenResponseEnds(f) \/ Unregister(f)
    PROVE  FunnelInv'
<1>0. flow \in [Flows -> FlowRec] /\ funnels \in [Keys \union IDSpace -> Flows \union {NoFlow}]
      /\ platform' = platform
  BY DEF FunnelInv, ListenResponseEnds, Unregister
<1>1. CASE ListenResponseEnds(f)
  <2>1. flow[f].listener = "on" /\ flow' = [flow EXCEPT ![f].listener = "ending"] /\ funnels' = funnels
    BY <1>1 DEF ListenResponseEnds
  <2>2. flow' \in [Flows -> FlowRec] BY <1>0, <2>1 DEF FlowRec
  <2>3. \A g \in Flows : Stays(g) BY <1>0, <2>1 DEF Stays, FlowRec
  <2>4. \A g \in Flows : flow'[g].listener # "off" => flow[g].listener # "off" BY <1>0, <2>1 DEF FlowRec
  <2> DEFINE N == {}
  <2>5. funnels' = [x \in Keys \union IDSpace |-> IF funnels[x] \in N THEN NoFlow ELSE funnels[x]]
    BY <1>0, <2>1
  <2>7. N \in SUBSET Flows /\ \A g \in Flows : g \notin N OBVIOUS
  <2> HIDE DEF N
  <2>6. \A g \in Flows : flow'[g].key = flow[g].key BY <2>3 DEF Stays
  <2> QED BY <1>0, <2>2, <2>3, <2>4, <2>5, <2>6, <2>7, FunnelsLeave
<1>2. CASE Unregister(f)
  <2> DEFINE k == flow[f].key
             S == {g \in Existing(k) : Equal(f, g)}
             T == Closed(S)
             r == Forget([T[f] EXCEPT !.listener = "off"])
  <2>1. flow' = [T EXCEPT ![f] = r] /\ funnels' = IF S = {} THEN funnels ELSE [funnels EXCEPT ![k] = NoFlow]
    BY <1>2 DEF Unregister
  <2>2. k \in Keys BY <1>2 DEF Unregister, FunnelInv
  <2>3. S \in SUBSET Flows /\ (S = {} \/ (S = Existing(k) /\ funnels[k] \in S))
    BY <1>0, <2>2 DEF Existing
  <2>4. T \in [Flows -> FlowRec] BY <1>0, <2>3, ClosedOK
  <2>5. \A g \in Flows \ S : T[g] = flow[g] BY <1>0, <2>3, ClosedOK
  <2>6. \A g \in S : /\ T[g].at = "closed"
                     /\ T[g].listener # "off" => T[g].key = flow[g].key /\ T[g].listener = flow[g].listener
    BY <1>0, <2>3, ClosedOK
  <2>7. platform = "linux" BY <1>2 DEF Unregister, FunnelInv
  <2>8. flow[f].at = "open" => f \in S
    BY <2>2, <2>7, ICMPAssumption DEF FunnelInv, Owns, Existing, Equal
  <2>9. T[f].at = "closed" BY <1>0, <2>5, <2>6, <2>8 DEF FlowRec
  <2>10. r \in FlowRec /\ r.at = "closed" /\ r.listener = "off"
    <3>1. [T[f] EXCEPT !.listener = "off"] \in FlowRec
          /\ [T[f] EXCEPT !.listener = "off"].at = "closed" /\ [T[f] EXCEPT !.listener = "off"].listener = "off"
      BY <2>4, <2>9 DEF FlowRec
    <3> QED BY <3>1, IdleDead DEF Forget
  <2>11. funnels' = [y \in Keys \union IDSpace |-> IF funnels[y] \in S THEN NoFlow ELSE funnels[y]]
    <3>1. CASE S = {} BY <1>0, <2>1, <3>1
    <3>2. CASE S # {}
      <4>1. \A y \in Keys \union IDSpace : y # k => funnels[y] \notin S
        BY <2>2, OneName DEF Existing
      <4> QED BY <1>0, <2>1, <2>2, <2>3, <3>2, <4>1
    <3> QED BY <3>1, <3>2
  <2> HIDE DEF S, T, r
  <2>12. \A g \in Flows : flow'[g] = IF g = f THEN r ELSE T[g] BY <2>1, <2>4
  <2>13. flow' \in [Flows -> FlowRec] BY <2>1, <2>4, <2>10
  <2>14. \A g \in Flows \ S : flow[g].at = "open" => Stays(g) BY <2>5, <2>8, <2>12 DEF Stays
  <2>15. \A g \in Flows : flow'[g].at = "open" => g \notin S /\ Stays(g)
    BY <2>5, <2>6, <2>10, <2>12 DEF Stays
  <2>16. \A g \in Flows : flow'[g].listener # "off" => flow[g].listener # "off" /\ flow'[g].key = flow[g].key
    BY <2>5, <2>6, <2>10, <2>12
  <2> QED BY <1>0, <2>3, <2>11, <2>13, <2>14, <2>15, <2>16, FunnelsLeave
<1> QED BY <1>1, <1>2

\* Every step of a router, of a goroutine and of the clean up keeps ICMPInv.
LEMMA ICMPNextInv == ICMPInv /\ [ICMPNext]_icmpVars => ICMPInv'
<1> SUFFICES ASSUME ICMPInv, [ICMPNext]_icmpVars PROVE ICMPInv' OBVIOUS
<1>0. AskedInv /\ FunnelInv /\ EchoInv /\ EchoIDsKept BY DEF ICMPInv
<1>11. ASSUME UNCHANGED <<platform, flow, mapping>> PROVE EchoIDsKept'
  BY <1>0, <1>11 DEF EchoIDsKept
<1>1. ASSUME UNCHANGED <<platform, flow, funnels>> PROVE FunnelInv'
  BY <1>0, <1>1 DEF FunnelInv, Owns
<1>2. ASSUME UNCHANGED <<mapping, assigned, nextID>> PROVE EchoInv'
  BY <1>0, <1>2 DEF EchoInv, EchoIDsUnique
<1>3. ASSUME UNCHANGED asked PROVE AskedInv'
  BY <1>0, <1>3 DEF AskedInv
<1>4. CASE UNCHANGED icmpVars BY <1>1, <1>2, <1>3, <1>4, <1>11 DEF icmpVars, ICMPInv
<1>5. ASSUME NEW i \in Indexes, Reconnect(i) \/ SendToDst(i) \/ WindowsRequest(i) PROVE ICMPInv'
  <2>1. Handle(i, Idle) /\ UNCHANGED <<platform, flow, funnels, mapping, assigned, nextID>>
    BY <1>5 DEF Reconnect, SendToDst, WindowsRequest
  <2>2. AskedInv' BY <1>0, <2>1, IdleDead, AskedStep
  <2> QED BY <1>1, <1>2, <1>11, <2>1, <2>2 DEF ICMPInv
<1>6. ASSUME NEW i \in Indexes, NEW k \in Keys, HandlePacket(i, k) PROVE ICMPInv'
  <2> DEFINE new == [Idle EXCEPT !.at = "request", !.key = k]
  <2>1. new \in AskRec /\ new.key = k BY IdleDead DEF AskRec
  <2> HIDE DEF new
  <2>2. Handle(i, new) /\ UNCHANGED <<platform, flow, funnels, mapping, assigned, nextID>>
    BY <1>6 DEF HandlePacket, new
  <2>3. AskedInv' BY <1>0, <2>1, <2>2, AskedStep
  <2> QED BY <1>1, <1>2, <1>11, <2>2, <2>3 DEF ICMPInv
<1>7. ASSUME NEW i \in Indexes, LinuxRequest(i) PROVE ICMPInv'
  <2> DEFINE k == asked[i].key
  <2>1. k \in Keys /\ platform = "linux" /\ UNCHANGED <<platform, nextID>>
    BY <1>0, <1>7 DEF LinuxRequest, AskedInv
  <2>2. CASE KeepFunnel(i, k) \/ NewFunnelFails(i, k)
    <3>1. 0 \in IDSpace BY ICMPAssumption DEF IDSpace
    <3> QED BY <2>1, <2>2, <3>1, GetOrRegisterInv
  <2>3. ASSUME NEW f \in Flows, NEW id \in FreePorts(k, i), NewFunnel(i, k, f, id) PROVE ICMPInv'
    <3>1. id \in Ports BY DEF FreePorts
    <3> QED BY <2>1, <2>3, <3>1, GetOrRegisterInv
  <2> QED BY <1>7, <2>2, <2>3 DEF LinuxRequest
<1>8. ASSUME NEW i \in Indexes, DarwinRequest(i) PROVE ICMPInv'
  <2>1. asked[i].key \in Keys /\ asked[i].id \in IDSpace /\ platform = "darwin" /\ UNCHANGED <<platform, nextID>>
    BY <1>0, <1>8 DEF DarwinRequest, AskedInv, AskRec
  <2>2. KeepFunnel(i, asked[i].id) \/ \E f \in Flows : NewFunnel(i, asked[i].id, f, asked[i].id)
    BY <1>8 DEF DarwinRequest
  <2> QED BY <2>1, <2>2, GetOrRegisterInv
<1>9. ASSUME NEW f \in Flows, ListenResponseEnds(f) \/ Unregister(f) PROVE ICMPInv'
  <2>1. FunnelInv' BY <1>0, <1>9, ListenerInv
  <2>2. UNCHANGED <<asked, mapping, assigned, nextID>> BY <1>9 DEF ListenResponseEnds, Unregister
  <2>3. EchoIDsKept'
    <3>1. platform = "linux" BY <1>0, <1>9 DEF ListenResponseEnds, Unregister, FunnelInv
    <3> QED BY <3>1, <1>9 DEF ListenResponseEnds, Unregister, EchoIDsKept
  <2> QED BY <1>2, <1>3, <2>1, <2>2, <2>3 DEF ICMPInv
<1>10. ASSUME NEW S \in SUBSET Flows, Cleanup(S) PROVE ICMPInv'
  <2>1. /\ flow' = Closed(S) /\ Release(S) /\ UNCHANGED <<platform, asked, nextID>>
        /\ funnels' = [x \in Keys \union IDSpace |-> IF funnels[x] \in S THEN NoFlow ELSE funnels[x]]
    BY <1>0, <1>10 DEF Cleanup, FunnelInv
  <2>2. \A f \in S : flow[f].key \in Keys
    BY <1>0, <1>10 DEF Cleanup, FunnelInv, Owns
  <2>3. FunnelInv' BY <1>0, <2>1, CloseFunnels
  <2>4. EchoInv' BY <1>0, <2>1, <2>2, ReleaseInv
  <2>5. EchoIDsKept'
    <3>1. \A g \in S : \E x \in Keys \union IDSpace : funnels[x] = g
      BY <1>0, <1>10 DEF Cleanup, FunnelInv
    <3>2. /\ \A f \in Flows \ S : flow'[f] = flow[f]
          /\ \A f \in S : flow'[f].at = "closed"
      BY <1>0, <2>1, ClosedOK DEF FunnelInv
    <3>3. \A f \in Flows : flow'[f].at = "open" => f \notin S /\ Stays(f) BY <3>2 DEF Stays
    <3> QED BY <1>0, <2>1, <3>1, <3>3, ReleaseKeeps
  <2> QED BY <1>3, <2>1, <2>3, <2>4, <2>5 DEF ICMPInv
<1> QED BY <1>4, <1>5, <1>6, <1>7, <1>8, <1>9, <1>10, GetOrAssignInv DEF ICMPNext

\* For any number of connections, requests, flows, ports and echo ids: the open
\* sockets of Linux are exactly those in the tracker; on Darwin the open flows are
\* exactly those in the tracker, no two of them with one echo id, and none loses
\* the id that was mapped to its key when it was made.
THEOREM FlowsSafe == ICMPSpec => []FlowsTracked
<1>1. ICMPInv => FlowsTracked
  <2> SUFFICES ASSUME ICMPInv PROVE FlowsTracked OBVIOUS
  <2>1. EchoIDsUnique BY DEF ICMPInv, EchoInv
  <2>2. SocketsTracked
    <3> SUFFICES ASSUME platform = "linux", NEW f \in Flows
                 PROVE  flow[f].at = "open" <=> (flow[f].key # NoFlow /\ funnels[flow[f].key] = f)
      BY DEF SocketsTracked
    <3>1. flow[f] \in FlowRec BY DEF ICMPInv, FunnelInv
    <3>2. ASSUME flow[f].at = "open" PROVE flow[f].key # NoFlow /\ funnels[flow[f].key] = f
      BY <3>2, ICMPAssumption DEF ICMPInv, FunnelInv, Owns
    <3>3. ASSUME flow[f].key # NoFlow, funnels[flow[f].key] = f PROVE flow[f].at = "open"
      <4>1. flow[f].key \in Keys BY <3>1, <3>3 DEF FlowRec
      <4> QED BY <3>3, <4>1, ICMPAssumption DEF ICMPInv, FunnelInv, Owns
    <3> QED BY <3>2, <3>3
  <2>3. IDsExclusive
    <3> SUFFICES ASSUME platform = "darwin" PROVE IDsExclusive BY DEF IDsExclusive
    <3>1. ASSUME NEW f \in Flows, flow[f].at = "open" PROVE funnels[flow[f].id] = f
      BY <3>1 DEF ICMPInv, FunnelInv, Owns
    <3>2. ASSUME NEW d \in IDSpace, funnels[d] # NoFlow
          PROVE  flow[funnels[d]].at = "open" /\ flow[funnels[d]].id = d
      BY <3>2 DEF ICMPInv, FunnelInv, Owns
    <3> QED BY <3>1, <3>2 DEF IDsExclusive
  <2>4. EchoIDsKept BY DEF ICMPInv
  <2> QED BY <2>1, <2>2, <2>3, <2>4 DEF FlowsTracked
<1> QED BY ICMPInitInv, ICMPNextInv, <1>1, PTL DEF ICMPSpec
=============================================================================
