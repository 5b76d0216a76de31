--------------------------- MODULE ManagementLogs ---------------------------
(***************************************************************************)
(* The log streaming endpoint of the management service.  Each WebSocket   *)
(* connection has a handler (logs), a reader of client events, a session   *)
(* in the logger and, while it streams, a goroutine that sends log events. *)
(* One actor may stream at a time, and preempts its own earlier session.   *)
(***************************************************************************)
EXTENDS Naturals, FiniteSets

CONSTANTS
    Clients,   \* WebSocket connections
    Actors,    \* who opens them
    Events     \* client -> bound on the events that it sends

ASSUME ManagementAssumption == Events \in [Clients -> Nat]

VARIABLES
    actor,     \* client -> the actor of its access token
    handler,   \* client -> where logs() is
    reader,    \* client -> what readEvents does: read, the event it holds, or ended
    received,  \* client -> events it has read
    ctx,       \* clients whose context is not cancelled
    ws,        \* clients whose WebSocket is open
    activeSessions, \* sessions that are on
    listed,    \* client -> how often its session is in Logger.sessions
    streaming  \* client -> goroutines in streamLogs

mgmtVars == <<actor, handler, reader, received, ctx, ws, activeSessions, listed, streaming>>

MgmtInit ==
    /\ actor \in [Clients -> Actors]
    /\ handler = [c \in Clients |-> "off"] /\ reader = [c \in Clients |-> "off"]
    /\ received = [c \in Clients |-> 0] /\ ctx = {} /\ ws = {} /\ activeSessions = {}
    /\ listed = [c \in Clients |-> 0] /\ streaming = [c \in Clients |-> 0]
-----------------------------------------------------------------------------
(* The client (cloudflared tail, or the dashboard) *)

\* The middleware parses the token and the WebSocket is accepted.
Accept(c) ==
    /\ handler[c] = "off" /\ handler' = [handler EXCEPT ![c] = "select"]
    /\ reader' = [reader EXCEPT ![c] = "read"] /\ ctx' = ctx \union {c} /\ ws' = ws \union {c}
    /\ UNCHANGED <<actor, received, activeSessions, listed, streaming>>

\* The client goes away; its request, and with it the context, ends later.
ClientCloses(c) ==
    /\ c \in ws /\ ws' = ws \ {c}
    /\ UNCHANGED <<actor, received, handler, reader, ctx, activeSessions, listed, streaming>>
RequestEnds(c) ==
    /\ handler[c] \notin {"off", "done"} /\ c \notin ws /\ c \in ctx /\ ctx' = ctx \ {c}
    /\ UNCHANGED <<actor, received, handler, reader, ws, activeSessions, listed, streaming>>
-----------------------------------------------------------------------------
(* readEvents *)

ReadEvent(c, e) ==
    /\ reader[c] = "read" /\ c \in ws /\ c \in ctx /\ reader' = [reader EXCEPT ![c] = e]
    /\ received[c] < Events[c] /\ received' = [received EXCEPT ![c] = @ + 1]
    /\ UNCHANGED <<actor, handler, ctx, ws, activeSessions, listed, streaming>>

\* An error, a message that is not an event (then the WebSocket is closed), or
\* a cancelled context.  The context is not cancelled by the reader.
ReaderEnds(c) ==
    /\ reader[c] = "read" /\ reader' = [reader EXCEPT ![c] = "ended"] /\ ws' = ws \ {c}
    /\ UNCHANGED <<actor, received, handler, ctx, activeSessions, listed, streaming>>
-----------------------------------------------------------------------------
(* logs *)

\* The deferred calls: the session is removed, the context cancelled, the
\* WebSocket closed.
Return(c) ==
    /\ handler' = [handler EXCEPT ![c] = "done"]
    /\ listed' = [listed EXCEPT ![c] = IF @ = 0 THEN 0 ELSE @ - 1]
    /\ ctx' = ctx \ {c} /\ ws' = ws \ {c}

\* The context is cancelled, or the connection was idle, which it cannot be
\* while it streams: the timer is stopped.
LogsReturns(c) ==
    /\ handler[c] = "select" /\ (c \notin ctx \/ listed[c] = 0) /\ Return(c)
    /\ UNCHANGED <<actor, received, reader, activeSessions, streaming>>

TakeEvent(c) ==
    /\ handler[c] = "select" /\ reader[c] \in {"start", "stop"}
    /\ reader' = [reader EXCEPT ![c] = "read"]
    /\ \/ /\ reader[c] = "start" /\ handler' = [handler EXCEPT ![c] = "canStart"]
          /\ UNCHANGED <<activeSessions, listed>>
       \/ /\ reader[c] = "stop" /\ UNCHANGED handler
          /\ activeSessions' = activeSessions \ {c} /\ listed' = [listed EXCEPT ![c] = IF @ = 0 THEN 0 ELSE @ - 1]
    /\ UNCHANGED <<actor, received, ctx, ws, streaming>>

\* canStartStream holds streamingMut; the logger has a lock of its own, so
\* that sessions may start and stop between the two looks at them.
CountActive(c) ==
    /\ handler[c] = "canStart" /\ \A d \in Clients : handler[d] # "counted"
    /\ handler' = [handler EXCEPT ![c] = IF \A d \in activeSessions : listed[d] = 0 THEN "listen" ELSE "counted"]
    /\ UNCHANGED <<actor, received, reader, ctx, ws, activeSessions, listed, streaming>>

\* The session of the same actor, which may be this one, is stopped, removed
\* and its context cancelled.
Preempt(c) ==
    /\ handler[c] = "counted"
    /\ \E d \in {d \in activeSessions : listed[d] > 0 /\ actor[d] = actor[c]} :
          activeSessions' = activeSessions \ {d} /\ listed' = [listed EXCEPT ![d] = @ - 1] /\ ctx' = ctx \ {d}
    /\ handler' = [handler EXCEPT ![c] = "listen"]
    /\ UNCHANGED <<actor, received, reader, ws, streaming>>

SessionLimitExceeded(c) ==
    /\ handler[c] = "counted" /\ \A d \in activeSessions : listed[d] > 0 => actor[d] # actor[c]
    /\ Return(c)
    /\ UNCHANGED <<actor, received, reader, activeSessions, streaming>>

\* Filters are set, the session is listed and a goroutine streams, all after
\* streamingMut was released.
Listen(c) ==
    /\ handler[c] = "listen" /\ handler' = [handler EXCEPT ![c] = "select"]
    /\ activeSessions' = activeSessions \union {c} /\ listed' = [listed EXCEPT ![c] = @ + 1]
    /\ streaming' = [streaming EXCEPT ![c] = @ + 1]
    /\ UNCHANGED <<actor, received, reader, ctx, ws>>
-----------------------------------------------------------------------------
(* streamLogs.  Whether the listener of a session holds an event, which      *)
(* Logger.Write inserts unless it is full, is left open.                    *)

Streams(c, n) == streaming' = [streaming EXCEPT ![c] = n]

\* Mutant: a goroutine whose context is cancelled does not stop the session.
StreamCancelledKeeps(c) ==
    /\ streaming[c] > 0 /\ c \notin ctx /\ Streams(c, streaming[c] - 1)
    /\ UNCHANGED <<actor, received, handler, reader, ctx, ws, activeSessions, listed>>

StreamCancelled(c) ==
    /\ streaming[c] > 0 /\ c \notin ctx /\ Streams(c, streaming[c] - 1) /\ activeSessions' = activeSessions \ {c}
    /\ UNCHANGED <<actor, received, handler, reader, ctx, ws, listed>>

StreamStopped(c) ==
    /\ streaming[c] > 0 /\ c \notin activeSessions /\ Streams(c, streaming[c] - 1)
    /\ UNCHANGED <<actor, received, handler, reader, ctx, ws, activeSessions, listed>>

\* The event is sent, or the write fails and the session is stopped.
StreamEvent(c) ==
    /\ streaming[c] > 0 /\ c \in activeSessions
    /\ \/ c \in ws /\ UNCHANGED <<activeSessions, streaming, ws>>
       \/ activeSessions' = activeSessions \ {c} /\ Streams(c, streaming[c] - 1) /\ ws' = ws \ {c}
    /\ UNCHANGED <<actor, received, handler, reader, ctx, listed>>
-----------------------------------------------------------------------------
MgmtNext ==
    \E c \in Clients :
          \/ Accept(c) \/ ClientCloses(c) \/ RequestEnds(c) \/ ReaderEnds(c)
          \/ \E e \in {"start", "stop"} : ReadEvent(c, e)
          \/ LogsReturns(c) \/ TakeEvent(c) \/ CountActive(c) \/ Preempt(c) \/ SessionLimitExceeded(c) \/ Listen(c)
          \/ StreamCancelled(c) \/ StreamStopped(c) \/ StreamEvent(c)

\* The steps of the goroutines, once they can be taken; events come as they
\* please.
MgmtFairness ==
    \A c \in Clients :
       /\ WF_mgmtVars(c \notin ctx /\ LogsReturns(c)) /\ WF_mgmtVars(CountActive(c))
       /\ WF_mgmtVars(Preempt(c)) /\ WF_mgmtVars(SessionLimitExceeded(c)) /\ WF_mgmtVars(Listen(c))
       /\ WF_mgmtVars(StreamCancelled(c)) /\ WF_mgmtVars(StreamStopped(c))
-----------------------------------------------------------------------------
\* An active session has a goroutine, which ends it when its context does or a
\* write fails: whoever starts, stops or preempts sessions, and however many
\* goroutines of one session overlap, none is left active with nobody to stop
\* it, which would count against the limit for ever.
SessionsStreamed == \A c \in activeSessions : streaming[c] > 0

\* A connection whose context is cancelled, because the client left or because
\* a newer session of the same actor took over, does not keep others from
\* streaming: its handler returns, its session becomes inactive and its
\* goroutines end, also when it was just about to start.
CancelledSessionsEnd ==
    \A c \in Clients :
       (handler[c] # "off" /\ c \notin ctx) ~> (handler[c] = "done" /\ c \notin activeSessions /\ streaming[c] = 0)
=============================================================================
