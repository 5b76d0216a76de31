--------------------------- MODULE FlowDatagrams ---------------------------
(***************************************************************************)
(* Datagrams of version 3 (quic/v3): how they are written and read, and    *)
(* the goroutines that carry them: the receiver, the demultiplexer and the *)
(* ICMP writer of one connection, and the goroutine, read loop and write   *)
(* loop of one flow.  FlowSessions says which flows there are; here one    *)
(* flow is followed with its queues.                                       *)
(***************************************************************************)
EXTENDS Naturals, Sequences

CONSTANTS
    MaxPayload,  \* maxDatagramPayloadLen
    QueueSize,   \* capacity of the queues: datagrams, ICMP packets, payloads
    Messages     \* datagrams to write and to read back

\* What a datagram is: request ids of 16 bytes, addresses of 4 or 16, ports
\* and idle hints (in seconds) of 16 bits.
Bytes == 0 .. 255
MaxUint16 == 65535
Words == 0 .. MaxUint16
RequestIDs == [1 .. 16 -> Bytes]
Addresses == [1 .. 4 -> Bytes] \union [1 .. 16 -> Bytes]
Registrations == [type : {"registration"}, id : RequestIDs, addr : Addresses, port : Words, idle : Words,
                  traced : BOOLEAN, payload : Seq(Bytes)]
Payloads == [type : {"payload"}, id : RequestIDs, payload : Seq(Bytes)]
Packets == [type : {"icmp"}, payload : Seq(Bytes)]
Responses == [type : {"response"}, id : RequestIDs, resp : Bytes, msg : Seq(Bytes)]

\* A response to a registration, with the longest message, has the length of a
\* payload, and the length of a message has 16 bits.
ASSUME MessagesAssumption ==
    /\ MaxPayload \in Nat /\ 20 <= MaxPayload /\ MaxPayload <= MaxUint16
    /\ \A d \in Messages : d \in Registrations \/ d \in Payloads \/ d \in Packets \/ d \in Responses

Failed == [type |-> "failed"]
-----------------------------------------------------------------------------
(* The wire: sequences of bytes *)

Uint16(n) == <<n \div 256, n % 256>>
ReadUint16(w, i) == 256 * w[i] + w[i + 1]
Bit(b, n) == IF b THEN n ELSE 0
Has(flags, n) == (flags \div n) % 2 = 1

MarshalRegistration(d) ==
    LET header == 22 + Len(d.addr)
        flags == Bit(Len(d.addr) = 16, 1) + Bit(d.traced, 2) + Bit(d.payload # <<>>, 4)
    IN  IF Len(d.payload) > MaxPayload + header THEN <<>>
        ELSE <<0, flags>> \o Uint16(d.port) \o Uint16(d.idle) \o d.id \o d.addr \o d.payload

\* The header is complete: its length is not checked.
UnmarshalRegistration(w) ==
    LET header == IF Has(w[2], 1) THEN 38 ELSE 26
    IN  IF w[1] # 0 THEN Failed
        ELSE [type |-> "registration", id |-> SubSeq(w, 7, 22), addr |-> SubSeq(w, 23, header),
              port |-> ReadUint16(w, 3), idle |-> ReadUint16(w, 5), traced |-> Has(w[2], 2),
              payload |-> IF Has(w[2], 4) THEN SubSeq(w, header + 1, Len(w)) ELSE <<>>]

\* The read loop puts the header before what it reads and drops what is too long.
MarshalPayload(d) == IF Len(d.payload) > MaxPayload THEN <<>> ELSE <<1>> \o d.id \o d.payload

UnmarshalPayload(w) ==
    IF w[1] # 1 \/ Len(w) < 17 \/ Len(w) > MaxPayload + 17 THEN Failed
    ELSE [type |-> "payload", id |-> SubSeq(w, 2, 17), payload |-> SubSeq(w, 18, Len(w))]

MarshalICMP(d) == IF d.payload = <<>> \/ Len(d.payload) > MaxPayload THEN <<>> ELSE <<2>> \o d.payload

UnmarshalICMP(w) ==
    IF w[1] # 2 \/ Len(w) = 1 \/ Len(w) > MaxPayload + 1 THEN Failed
    ELSE [type |-> "icmp", payload |-> SubSeq(w, 2, Len(w))]

MarshalResponse(d) ==
    IF Len(d.msg) > MaxPayload - 20 THEN <<>>
    ELSE <<3, d.resp>> \o d.id \o Uint16(Len(d.msg)) \o d.msg

\* Mutant: the message begins where its length does.
UnmarshalResponseEarly(w) ==
    LET n == ReadUint16(w, 19)
    IN  IF w[1] # 3 \/ Len(w) < 20 \/ n > MaxPayload - 20 \/ Len(w) - 20 < n THEN Failed
        ELSE [type |-> "response", resp |-> w[2], id |-> SubSeq(w, 3, 18),
              msg |-> IF n > 0 THEN SubSeq(w, 19, Len(w)) ELSE <<>>]

\* The message is all that follows its length, which may be more than that length.
UnmarshalResponse(w) ==
    LET n == ReadUint16(w, 19)
    IN  IF w[1] # 3 \/ Len(w) < 20 \/ n > MaxPayload - 20 \/ Len(w) - 20 < n THEN Failed
        ELSE [type |-> "response", resp |-> w[2], id |-> SubSeq(w, 3, 18),
              msg |-> IF n > 0 THEN SubSeq(w, 21, Len(w)) ELSE <<>>]

Marshal(d) ==
    CASE d.type = "registration" -> MarshalRegistration(d)
      [] d.type = "payload" -> MarshalPayload(d)
      [] d.type = "icmp" -> MarshalICMP(d)
      [] d.type = "response" -> MarshalResponse(d)

\* ParseDatagramType and the switch of Serve; a response is never expected.
Unmarshal(w) ==
    CASE w[1] = 0 -> UnmarshalRegistration(w)
      [] w[1] = 1 -> UnmarshalPayload(w)
      [] w[1] = 2 -> UnmarshalICMP(w)
      [] w[1] = 3 -> UnmarshalResponse(w)
-----------------------------------------------------------------------------
VARIABLES
    wire,    \* a datagram that is written and read back
    quic,    \* the connection: up, stopping (the context of cloudflared is done) or lost
    poll,    \* pollDatagrams: receiving, holding a datagram of some type, or ended
    demux,   \* datagramConn.datagrams
    serving, \* datagramConn.Serve has not returned
    failure, \* datagramConn.readErrors holds an error
    pings,   \* datagramConn.icmpDatagramChan
    pinging, \* processICMPDatagrams: wait, write or ended
    udp,     \* the flow: none, respond, serve, returned or gone
    reads,   \* readLoop: off, read, send or ended
    writes,  \* writeLoop: off, wait or ended
    payloads,\* session.writeChan
    errs,    \* session.errChan is not empty
    closed   \* what closeFn has closed: closeWrite and the socket

connVars == <<quic, poll, demux, serving, failure, pings, pinging>>
udpVars == <<udp, reads, writes, payloads, errs, closed>>
flowVars == <<wire, connVars, udpVars>>

Types == {"registration", "payload", "icmp", "unexpected"}

FlowInit ==
    /\ wire \in Messages
    /\ quic = "up" /\ poll = "receive" /\ demux = <<>> /\ serving = TRUE /\ failure = FALSE
    /\ pings = 0 /\ pinging = "wait"
    /\ udp = "none" /\ reads = "off" /\ writes = "off"
    /\ payloads = 0 /\ errs = FALSE /\ closed = {}

\* readCtx is done.
Done == quic = "lost" \/ ~serving

\* Put into a channel of which the sender drops what does not fit.
Offered(n) == IF n < QueueSize THEN n + 1 ELSE n
-----------------------------------------------------------------------------
(* The connection *)

Receive ==
    /\ poll = "receive" /\ quic # "lost"
    /\ poll' \in Types
    /\ UNCHANGED <<wire, quic, demux, serving, failure, pings, pinging, udpVars>>

\* The queue is waited for, whoever reads it.
Enqueue ==
    /\ poll \in Types /\ Len(demux) < QueueSize
    /\ demux' = Append(demux, poll) /\ poll' = "receive"
    /\ UNCHANGED <<wire, quic, serving, failure, pings, pinging, udpVars>>

\* ReceiveDatagram fails, or its context is done.
ReceiveFails ==
    /\ poll = "receive" /\ Done
    /\ poll' = "ended" /\ failure' = TRUE
    /\ UNCHANGED <<wire, quic, demux, serving, pings, pinging, udpVars>>

\* A registration starts the goroutine of the flow, if there is none.
HandleRegistration ==
    /\ UNCHANGED <<pings, reads, writes, payloads, errs, closed>>
    /\ \/ udp = "none" /\ udp' = "respond"
       \/ udp # "none" /\ UNCHANGED udp

HandlePayload ==
    /\ payloads' = IF udp \in {"respond", "serve", "returned"} THEN Offered(payloads) ELSE payloads
    /\ UNCHANGED <<pings, udp, reads, writes, errs, closed>>

HandleICMPPacket == pings' = Offered(pings) /\ UNCHANGED udpVars

Serve ==
    /\ serving /\ demux # <<>>
    /\ demux' = Tail(demux)
    /\ \/ Head(demux) = "registration" /\ HandleRegistration
       \/ Head(demux) = "payload" /\ HandlePayload
       \/ Head(demux) = "icmp" /\ HandleICMPPacket
       \/ Head(demux) = "unexpected" /\ UNCHANGED <<pings, udpVars>>
    /\ UNCHANGED <<wire, quic, poll, serving, failure, pinging>>

ServeReturns ==
    /\ serving /\ (quic # "up" \/ failure)
    /\ serving' = FALSE
    /\ UNCHANGED <<wire, quic, poll, demux, failure, pings, pinging, udpVars>>

ProcessICMP ==
    /\ \/ pinging = "wait" /\ pings > 0 /\ pinging' = "write" /\ pings' = pings - 1
       \/ pinging = "wait" /\ Done /\ pinging' = "ended" /\ UNCHANGED pings
    /\ UNCHANGED <<wire, quic, poll, demux, serving, failure, udpVars>>

\* Whatever becomes of the packet: not decoded, expired and answered, or sent.
WriteICMPPacket ==
    /\ pinging = "write" /\ pinging' = "wait"
    /\ UNCHANGED <<wire, quic, poll, demux, serving, failure, pings, udpVars>>
-----------------------------------------------------------------------------
(* The flow *)

\* Mutant: only the write loop is told that the session is closed.
CloseWriteOnly == errs' = TRUE /\ closed' = {"write"}

\* closeFn
Close == errs' = TRUE /\ closed' = {"write", "socket"}

\* The response is sent and both loops start, or UnregisterSession closes the session.
RespondFlow ==
    /\ udp = "respond"
    /\ \/ udp' = "serve" /\ reads' = "read" /\ writes' = "wait" /\ UNCHANGED <<errs, closed>>
       \/ udp' = "returned" /\ Close /\ UNCHANGED <<reads, writes>>
    /\ UNCHANGED <<wire, connVars, payloads>>

\* waitForCloseCondition: the context, an error, or the idle timer, which may
\* fire whenever no packet has set it back.
SessionReturns ==
    /\ udp = "serve" /\ udp' = "returned" /\ Close
    /\ UNCHANGED <<wire, connVars, reads, writes, payloads>>

Unregister ==
    /\ udp = "returned" /\ udp' = "gone"
    /\ UNCHANGED <<wire, connVars, reads, writes, payloads, errs, closed>>

\* errChan has room for the errors of all three senders.
CloseSession == errs' = TRUE

\* A packet that is too long is dropped.
ReadOrigin ==
    /\ reads = "read" /\ "socket" \notin closed
    /\ reads' \in {"send", "read"}
    /\ UNCHANGED <<wire, connVars, udp, writes, payloads, errs, closed>>

ReadFails ==
    /\ reads = "read" /\ "socket" \in closed
    /\ reads' = "ended" /\ CloseSession
    /\ UNCHANGED <<wire, connVars, udp, writes, payloads, closed>>

SendToEdge ==
    /\ reads = "send"
    /\ \/ quic # "lost" /\ reads' = "read" /\ UNCHANGED errs
       \/ reads' = "ended" /\ CloseSession
    /\ UNCHANGED <<wire, connVars, udp, writes, payloads, closed>>

\* The packet is written, or dropped at its deadline, or the socket failed.
WriteOrigin ==
    /\ writes = "wait" /\ payloads > 0 /\ payloads' = payloads - 1
    /\ \/ "socket" \notin closed /\ UNCHANGED <<writes, errs>>
       \/ writes' = "ended" /\ CloseSession
    /\ UNCHANGED <<wire, connVars, udp, reads, closed>>

WriteLoopEnds ==
    /\ writes = "wait" /\ "write" \in closed /\ writes' = "ended"
    /\ UNCHANGED <<wire, connVars, udp, reads, payloads, errs, closed>>
-----------------------------------------------------------------------------
QuicStops ==
    /\ quic = "up" /\ quic' = "stopping"
    /\ UNCHANGED <<wire, poll, demux, serving, failure, pings, pinging, udpVars>>
QuicLost ==
    /\ quic # "lost" /\ quic' = "lost"
    /\ UNCHANGED <<wire, poll, demux, serving, failure, pings, pinging, udpVars>>

FlowNext ==
    \/ Receive \/ Enqueue \/ ReceiveFails \/ Serve \/ ServeReturns
    \/ ProcessICMP \/ WriteICMPPacket
    \/ RespondFlow \/ SessionReturns \/ Unregister
    \/ ReadOrigin \/ ReadFails \/ SendToEdge \/ WriteOrigin \/ WriteLoopEnds
    \/ QuicStops \/ QuicLost

\* Goroutines run, a receive or a send on a lost connection returns, and a
\* closed socket ends a read; what the peers send is up to them, and when the
\* context of cloudflared is done the connection is closed.
FlowFairness ==
    /\ WF_flowVars(ReceiveFails) /\ WF_flowVars(ServeReturns) /\ WF_flowVars(ProcessICMP) /\ WF_flowVars(WriteICMPPacket)
    /\ WF_flowVars(RespondFlow) /\ WF_flowVars((quic = "lost" \/ errs) /\ SessionReturns) /\ WF_flowVars(Unregister)
    /\ WF_flowVars(ReadFails) /\ WF_flowVars(SendToEdge) /\ WF_flowVars(WriteOrigin \/ WriteLoopEnds)
    /\ WF_flowVars(quic = "stopping" /\ QuicLost)
-----------------------------------------------------------------------------
\* A datagram that can be written is read back as it was, whatever its
\* family, flags and lengths: both sides agree on every offset and limit.
RoundTrips == Marshal(wire) # <<>> => Unmarshal(Marshal(wire)) = wire

\* A loop that failed ends its flow, and a flow that ends ends both loops,
\* wherever they are: reading from the origin, sending to the edge or waiting
\* for a payload; and when the connection is lost its flow, its demultiplexer
\* and its ICMP writer end.
LoopsEnd ==
    /\ "ended" \in {reads, writes} ~> udp = "gone"
    /\ udp = "returned" ~> {reads, writes} \subseteq {"off", "ended"}
    /\ quic # "up" ~> ~serving /\ pinging = "ended" /\ udp \in {"none", "gone"}
=============================================================================
