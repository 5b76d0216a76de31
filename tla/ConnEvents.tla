----------------------------- MODULE ConnEvents -----------------------------
(***************************************************************************)
(* connection.Observer and tunnelstate.ConnTracker: connections send       *)
(* events to a channel with a bounded buffer, without blocking, and the    *)
(* goroutine of dispatchEvents applies them to the table of connections    *)
(* that the readiness endpoint and the protocol fall back read.            *)
(*                                                                         *)
(* The module has no next-state relation of its own: the connections of    *)
(* ProtocolFallback send the events.                                       *)
(***************************************************************************)
EXTENDS Naturals, Sequences

CONSTANTS
    ConnIndexes,       \* connection indices
    BufferSize   \* observerChannelBufferSize

Protocols == {"HTTP2", "QUIC"}

VARIABLES
    events,      \* tunnelEventChan
    sinkAdded,   \* dispatchEvents has received the tracker from addSinkChan
    tracker,     \* ConnTracker.connectionInfo
    lost         \* history: an event was dropped or had no sink

evVars == <<events, sinkAdded, tracker, lost>>

Event(c, type, protocol) == [index |-> c, type |-> type, protocol |-> protocol]

\* connectionInfo has no entry for an index at first.  The zero value of
\* Protocol is HTTP2.
NoInfo == [known |-> FALSE, connected |-> FALSE, protocol |-> "HTTP2"]

EvInit ==
    /\ events = <<>> /\ sinkAdded = FALSE /\ lost = FALSE
    /\ tracker = [c \in ConnIndexes |-> NoInfo]

\* sendEvent for each event of es in turn: dropped when the buffer is full.
SendEvents(es) ==
    LET room == BufferSize - Len(events) IN
    /\ events' = events \o SubSeq(es, 1, IF Len(es) <= room THEN Len(es) ELSE room)
    /\ lost' = (lost \/ Len(es) > room)
    /\ UNCHANGED <<sinkAdded, tracker>>

\* dispatchEvents: case sink := <-o.addSinkChan
AddSink ==
    /\ ~sinkAdded
    /\ sinkAdded' = TRUE
    /\ UNCHANGED <<events, tracker, lost>>

\* Mutant: a reconnecting connection keeps its flag.
TrackOnlyDisconnect(t, e) ==
    [t EXCEPT ![e.index] =
        IF e.type = "Connected" THEN [known |-> TRUE, connected |-> TRUE, protocol |-> e.protocol]
        ELSE IF e.type = "Reconnecting" THEN [@ EXCEPT !.known = TRUE]
        ELSE [@ EXCEPT !.known = TRUE, !.connected = (e.type = "Unregistering")]]

\* ConnTracker.OnTunnelEvent
OnTunnelEvent(t, e) ==
    [t EXCEPT ![e.index] =
        IF e.type = "Connected" THEN [known |-> TRUE, connected |-> TRUE, protocol |-> e.protocol]
        ELSE [@ EXCEPT !.known = TRUE, !.connected = FALSE]]

\* dispatchEvents: case evt := <-o.tunnelEventChan
Dispatch ==
    /\ events # <<>>
    /\ events' = Tail(events)
    /\ tracker' = IF sinkAdded THEN OnTunnelEvent(tracker, Head(events)) ELSE tracker
    /\ lost' = (lost \/ ~sinkAdded)
    /\ UNCHANGED sinkAdded

\* ConnTracker.HasConnectedWith
HasConnectedWith(p) == \E c \in ConnIndexes : tracker[c].known /\ tracker[c].protocol = p

EvTypeOK ==
    /\ events \in Seq([index : ConnIndexes, type : {"Connected", "Disconnected", "Reconnecting", "Unregistering"},
                       protocol : Protocols])
    /\ Len(events) <= BufferSize
    /\ sinkAdded \in BOOLEAN /\ lost \in BOOLEAN
    /\ tracker \in [ConnIndexes -> [known : BOOLEAN, connected : BOOLEAN, protocol : Protocols]]
=============================================================================
