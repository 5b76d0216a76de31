-------------------------- MODULE DatagramSessions --------------------------
(***************************************************************************)
(* UDP sessions of datagram version 2 over one QUIC connection: the RPCs   *)
(* of the edge that register and unregister a session, the event loop that *)
(* owns the map of sessions, the goroutines of a session, the multiplexer  *)
(* that reads datagrams into two bounded queues, and the packet router     *)
(* that empties one of them.                                               *)
(***************************************************************************)
EXTENDS Integers, Sequences

CONSTANTS
    Calls,     \* bound: calls of RegisterUdpSession; each makes one session
    IDs,       \* session ids; two calls may carry the same one
    DemuxCap,  \* capacity of the two queues of the multiplexer
    Nobody

ASSUME V2Assumption == DemuxCap \in Nat \ {0} /\ Nobody \notin Calls

VARIABLES
    call,      \* the calls and the sessions they make
    tracked,   \* manager.sessions: id -> call
    flows,     \* slots of the flow limiter that this connection holds
    loop,      \* the event loop: "run", "stuck" in a send, "done"
    mux,       \* the receive loop: "read", the item it cannot queue, "done"
    queue,     \* sessionDemuxChan: ids of datagrams
    packets,   \* packetDemuxChan: IP packets and tracing spans
    router,    \* the packet router: "run" or "done"
    edgeConn   \* "up", "ending": the context of Serve ended, "closed"

v2Vars == <<call, tracked, flows, loop, mux, queue, packets, router, edgeConn>>

\* closeChan has room for close() and for the reader of the session.
CloseCap == 2

NewCall == [at |-> "none", id |-> Nobody, chan |-> <<>>, reader |-> "off"]

V2Init ==
    /\ call = [c \in Calls |-> NewCall] /\ tracked = [i \in IDs |-> Nobody]
    /\ flows = 0 /\ loop = "run" /\ mux = "read" /\ queue = <<>> /\ packets = <<>>
    /\ router = "run" /\ edgeConn = "up"

SetCall(c, new) == call' = [call EXCEPT ![c] = new]
At(c, place) == SetCall(c, [call[c] EXCEPT !.at = place])
V2Same == UNCHANGED <<loop, mux, queue, packets, router, edgeConn>>
-----------------------------------------------------------------------------
(* The RPCs of the edge *)

\* The answer of a registration that failed is a response with the error, or
\* the error of the call when its parameters could not be read.
Refused(c) == At(c, "refused")

BadParameters(c) ==
    /\ call[c].at = "none" /\ edgeConn = "up" /\ Refused(c)
    /\ UNCHANGED <<tracked, flows>> /\ V2Same

\* RegisterUdpSession takes a slot first.  The limiter is shared with the other
\* connections and with TCP, so it may be full at any time.
TooManyFlows(c) ==
    /\ call[c].at = "none" /\ edgeConn = "up" /\ Refused(c)
    /\ UNCHANGED <<tracked, flows>> /\ V2Same

RegisterUdpSession(c, i) ==
    /\ call[c].at = "none" /\ edgeConn = "up" /\ flows' = flows + 1
    /\ SetCall(c, [NewCall EXCEPT !.at = "dialling", !.id = i])
    /\ UNCHANGED tracked /\ V2Same

\* The address does not parse or the socket cannot be opened.
DialUDPFails(c) ==
    /\ call[c].at = "dialling"
    /\ Refused(c) /\ flows' = flows - 1
    /\ UNCHANGED tracked /\ V2Same

DialUDP(c) ==
    /\ call[c].at = "dialling"
    /\ At(c, "registering")
    /\ UNCHANGED <<tracked, flows>> /\ V2Same

\* RegisterSession gives up after five seconds or with the call; closedChan is
\* never closed, so a manager that has stopped is noticed only like this.
RegisterTimesOut(c) ==
    /\ call[c].at = "registering"
    /\ Refused(c) /\ flows' = flows - 1
    /\ UNCHANGED tracked /\ V2Same

\* The event loop accepts the registration.  A session of the same id is
\* replaced and not closed.
RegisterSession(c) ==
    /\ call[c].at = "registering" /\ loop = "run"
    /\ tracked' = [tracked EXCEPT ![call[c].id] = c]
    /\ At(c, "registered")
    /\ UNCHANGED flows /\ V2Same

\* The sessions of S get a close reason; the loop blocks on a full channel.
Told(S, why) ==
    [c \in Calls |-> IF c \in S /\ Len(call[c].chan) < CloseCap
                     THEN [call[c] EXCEPT !.chan = Append(@, why)] ELSE call[c]]

Blocked(S) == \E c \in S : Len(call[c].chan) = CloseCap

Holders(I) == {tracked[i] : i \in I} \ {Nobody}

\* Mutant: the session stays in the map when it is closed.
UnregisterSessionKeeps(i) ==
    /\ loop = "run" /\ loop' = IF Blocked(Holders({i})) THEN "stuck" ELSE "run"
    /\ UNCHANGED tracked

\* manager.unregisterSession: the session is taken out of the map and closed.
UnregisterSession(i) ==
    /\ loop = "run" /\ loop' = IF Blocked(Holders({i})) THEN "stuck" ELSE "run"
    /\ tracked' = [tracked EXCEPT ![i] = Nobody]

\* The edge unregisters a session.
UnregisterUdpSession(i) ==
    /\ edgeConn = "up" /\ UnregisterSession(i)
    /\ call' = Told(Holders({i}), "remote")
    /\ UNCHANGED <<flows, mux, queue, packets, router, edgeConn>>
-----------------------------------------------------------------------------
(* A session *)

\* The goroutine of the session starts, and with it the reader of its socket.
Serve(c) ==
    /\ call[c].at = "registered"
    /\ SetCall(c, [call[c] EXCEPT !.at = "serving", !.reader = "on"])
    /\ UNCHANGED <<tracked, flows>> /\ V2Same

\* The reader sends its error and ends; a payload that cannot be sent to the
\* edge does not end it.
DstToTransportFails(c) ==
    /\ call[c].reader = "on" /\ Len(call[c].chan) < CloseCap
    /\ SetCall(c, [call[c] EXCEPT !.reader = "off", !.chan = Append(@, "io")])
    /\ UNCHANGED <<tracked, flows>> /\ V2Same

\* waitForCloseCondition returns and closes the socket.
Ends(c, why) ==
    SetCall(c, [call[c] EXCEPT !.at = IF why = "remote" THEN "released" ELSE "closing",
                               !.chan = IF why \in {"idle", "ctx"} THEN @ ELSE Tail(@)])

WaitForCloseCondition(c) ==
    /\ call[c].at = "serving"
    /\ \/ edgeConn = "closed" /\ Ends(c, "ctx")
       \/ call[c].chan # <<>> /\ Ends(c, Head(call[c].chan))
    /\ UNCHANGED <<tracked, flows>> /\ V2Same

IdleTick(c) ==
    /\ call[c].at = "serving" /\ Ends(c, "idle")
    /\ UNCHANGED <<tracked, flows>> /\ V2Same

\* closeUDPSession unregisters by id, whichever session has it by now.
CloseUDPSession(c) ==
    /\ call[c].at = "closing" /\ UnregisterSession(call[c].id)
    /\ call' = [Told(Holders({call[c].id}), "local") EXCEPT ![c].at = "telling"]
    /\ UNCHANGED <<flows, mux, queue, packets, router, edgeConn>>

UnregisterTimesOut(c) ==
    /\ call[c].at = "closing" /\ At(c, "telling")
    /\ UNCHANGED <<tracked, flows>> /\ V2Same

\* Unregistering from the edge is one RPC with a timeout, whose error is logged.
TellEdge(c) ==
    /\ call[c].at = "telling" /\ At(c, "released")
    /\ UNCHANGED <<tracked, flows>> /\ V2Same

\* The deferred release of the slot.
ReleaseFlow(c) ==
    /\ call[c].at = "released"
    /\ At(c, "done") /\ flows' = flows - 1
    /\ UNCHANGED tracked /\ V2Same
-----------------------------------------------------------------------------
(* The routines of the connection *)

\* demux: a datagram is queued for the sessions or for the router.
Kinds == {"session", "ip", "span"}

Receive(k) ==
    /\ mux = "read" /\ edgeConn = "up"
    /\ mux' = k
    /\ UNCHANGED <<call, tracked, flows, loop, queue, packets, router, edgeConn>>

Enqueue ==
    /\ mux \in Kinds
    /\ IF mux = "session" THEN /\ Len(queue) < DemuxCap
                               /\ \E i \in IDs : queue' = Append(queue, i)
                               /\ UNCHANGED packets
                          ELSE /\ Len(packets) < DemuxCap
                               /\ packets' = Append(packets, mux) /\ UNCHANGED queue
    /\ mux' = "read"
    /\ UNCHANGED <<call, tracked, flows, loop, router, edgeConn>>

\* Mutant: a receive loop that waits for room in a queue ignores the context.
MuxEndsReading ==
    /\ mux = "read" /\ edgeConn # "up" /\ mux' = "done"
    /\ UNCHANGED <<call, tracked, flows, loop, queue, packets, router, edgeConn>>

MuxEnds ==
    /\ mux # "done" /\ edgeConn # "up" /\ mux' = "done"
    /\ UNCHANGED <<call, tracked, flows, loop, queue, packets, router, edgeConn>>

\* A datagram for a session nobody registered is dropped.
SendToSession ==
    /\ loop = "run" /\ queue # <<>> /\ queue' = Tail(queue)
    /\ UNCHANGED <<call, tracked, flows, loop, mux, packets, router, edgeConn>>

\* A tracing span is not expected from the edge: the router fails, and the
\* error group ends the others with it.
RoutePacket ==
    /\ router = "run" /\ packets # <<>> /\ packets' = Tail(packets)
    /\ IF Head(packets) = "span"
       THEN router' = "done" /\ edgeConn' = IF edgeConn = "up" THEN "ending" ELSE edgeConn
       ELSE UNCHANGED <<router, edgeConn>>
    /\ UNCHANGED <<call, tracked, flows, loop, mux, queue>>

RouterEnds ==
    /\ router = "run" /\ edgeConn # "up" /\ router' = "done"
    /\ UNCHANGED <<call, tracked, flows, loop, mux, queue, packets, edgeConn>>

\* shutdownSessions, when the context of Serve has ended.
ShutdownSessions ==
    /\ loop = "run" /\ edgeConn # "up"
    /\ call' = Told(Holders(IDs), "remote")
    /\ loop' = IF Blocked(Holders(IDs)) THEN "stuck" ELSE "done"
    /\ tracked' = [i \in IDs |-> Nobody]
    /\ UNCHANGED <<flows, mux, queue, packets, router, edgeConn>>

\* The edge or the network ends the connection.
ConnectionEnds ==
    /\ edgeConn = "up" /\ edgeConn' = "ending"
    /\ UNCHANGED <<call, tracked, flows, loop, mux, queue, packets, router>>

\* datagramV2Connection.Serve returned: the connection is closed with it.
ServeReturns ==
    /\ edgeConn = "ending" /\ loop = "done" /\ mux = "done" /\ router = "done"
    /\ edgeConn' = "closed"
    /\ UNCHANGED <<call, tracked, flows, loop, mux, queue, packets, router>>

SessionStep(c) ==
    \/ DialUDP(c) \/ RegisterTimesOut(c) \/ RegisterSession(c) \/ Serve(c)
    \/ WaitForCloseCondition(c) \/ CloseUDPSession(c) \/ UnregisterTimesOut(c)
    \/ TellEdge(c) \/ ReleaseFlow(c)

RoutineStep == Enqueue \/ SendToSession \/ RoutePacket

V2Next ==
    \/ \E c \in Calls, i \in IDs : RegisterUdpSession(c, i)
    \/ \E c \in Calls : SessionStep(c) \/ BadParameters(c) \/ TooManyFlows(c) \/ DialUDPFails(c) \/ DstToTransportFails(c) \/ IdleTick(c)
    \/ \E i \in IDs : UnregisterUdpSession(i)
    \/ \E k \in Kinds : Receive(k)
    \/ RoutineStep \/ MuxEnds \/ RouterEnds \/ ShutdownSessions \/ ConnectionEnds \/ ServeReturns

\* Every wait has a timeout or ends with the context, and a goroutine that can
\* run does; the edge and the origin owe nothing.
V2Fairness ==
    /\ \A c \in Calls : WF_v2Vars(SessionStep(c))
    /\ WF_v2Vars(MuxEnds) /\ WF_v2Vars(RouterEnds) /\ WF_v2Vars(ShutdownSessions) /\ WF_v2Vars(ServeReturns)

V2TypeOK ==
    /\ call \in [Calls -> [at : {"none", "dialling", "registering", "registered", "serving", "closing",
                                  "telling", "released", "done", "refused"},
                            id : IDs \union {Nobody}, chan : Seq({"remote", "local", "io"}),
                            reader : {"on", "off"}]]
    /\ tracked \in [IDs -> Calls \union {Nobody}] /\ flows \in Nat
    /\ loop \in {"run", "stuck", "done"} /\ mux \in {"read", "done"} \union Kinds
    /\ queue \in Seq(IDs) /\ packets \in Seq(Kinds) /\ router \in {"run", "done"}
    /\ edgeConn \in {"up", "ending", "closed"}
-----------------------------------------------------------------------------
\* The event loop, which every session of the connection depends on, is never
\* blocked by a session that no longer reads its closeChan, and neither is the
\* reader of a socket: a session is closed once, as it leaves the map, so the
\* two places of the channel are enough, also when ids are used twice.
LoopNeverBlocks ==
    /\ loop # "stuck"
    /\ \A c \in Calls : call[c].reader = "on" => Len(call[c].chan) < CloseCap

\* When the connection ends, or one of its three routines fails, all of them
\* end, also while a full queue holds one of them up, and every slot of the
\* limiter that its sessions and pending registrations hold is given back.
ConnectionReleasesFlows == edgeConn # "up" ~> (edgeConn = "closed" /\ flows = 0)
=============================================================================
