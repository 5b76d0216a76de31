----------------------------- MODULE ICMPProxy -----------------------------
(***************************************************************************)
(* The ICMP proxy, shared by all connections: echo requests that arrive    *)
(* over a connection are sent from a flow (a funnel), and the replies to a *)
(* flow go back over the connection it was made for.  Linux has one socket *)
(* and one goroutine per flow; Darwin one socket and an echo id per flow;  *)
(* Windows waits for each reply.                                           *)
(***************************************************************************)
EXTENDS Integers, FiniteSets, FiniteSetsExt

CONSTANTS
    Keys,     \* (source, destination, echo id) of requests
    Indexes,  \* indexes of connections
    Flows,    \* bound: flows that exist at one time
    Ports,    \* ports of ICMP sockets on Linux
    EchoIDs,  \* how many echo ids Darwin has: 65535 in the code
    NoFlow

ASSUME ICMPAssumption ==
    /\ EchoIDs \in Nat \ {0}
    /\ NoFlow \notin Flows /\ NoFlow \notin Keys /\ IsFiniteSet(Ports)

VARIABLES
    platform,
    asked,    \* index -> the request its packet router is handling
    flow,     \* the flows; own: made with the echo id that its key is mapped to
    funnels,  \* FunnelTracker.funnels: key (Linux) or echo id (Darwin) -> flow
    mapping,  \* echoIDTracker, Darwin: key -> echo id
    assigned, \* echo ids marked as assigned
    nextID    \* nextAssignment

icmpVars == <<platform, asked, flow, funnels, mapping, assigned, nextID>>

IDSpace == 0 .. (EchoIDs - 1)
Dead == [key |-> NoFlow, index |-> 0, id |-> 0, at |-> "closed", listener |-> "off", own |-> FALSE]
Idle == [at |-> "idle", key |-> NoFlow, id |-> 0, flow |-> NoFlow]

ICMPInit ==
    /\ platform \in {"linux", "darwin", "windows"}
    /\ asked = [i \in Indexes |-> Idle]
    /\ flow = [f \in Flows |-> Dead]
    /\ funnels = [x \in Keys \union IDSpace |-> NoFlow]
    /\ mapping = [k \in Keys |-> -1] /\ assigned = {} /\ nextID = 0

\* A flow nobody refers to: its name may be used again.
Unused == {f \in Flows : flow[f] = Dead /\ \A i \in Indexes : asked[i].flow # f}

\* A closed flow without a goroutine has no state left.
Forget(r) == IF r.at = "closed" /\ r.listener = "off" THEN Dead ELSE r
-----------------------------------------------------------------------------
(* The packet router of a connection *)

Handle(i, new) == asked' = [asked EXCEPT ![i] = new]

\* The connection of an index is replaced: its router is a new one.  Flows made
\* for the old one keep the index, and are taken for flows of the new one.
Reconnect(i) ==
    /\ Handle(i, Idle)
    /\ UNCHANGED <<platform, flow, funnels, mapping, assigned, nextID>>

\* handlePacket: an echo request with a TTL above 1 is passed to the proxy.
\* Any other packet is dropped, or answered with a TTL exceeded message.
HandlePacket(i, k) ==
    /\ asked[i].at = "idle" /\ Handle(i, [Idle EXCEPT !.at = "request", !.key = k])
    /\ UNCHANGED <<platform, flow, funnels, mapping, assigned, nextID>>

\* sendToDst; the write fails when the flow was closed in the meantime.
SendToDst(i) ==
    /\ asked[i].at = "send" /\ Handle(i, Idle)
    /\ UNCHANGED <<platform, flow, funnels, mapping, assigned, nextID>>
-----------------------------------------------------------------------------
(* Funnels *)

\* echoIDTracker.release, of the ids of closed flows.  Mutant: the id is freed
\* whichever key it is mapped to.
ReleaseAny(S) == assigned' = assigned \ {flow[f].id : f \in S}

ReleaseMapped(S) == assigned' = assigned \ {flow[f].id : f \in {f \in S : mapping[flow[f].key] = flow[f].id}}

Release(S) ==
    IF platform # "darwin" THEN UNCHANGED <<mapping, assigned>>
    ELSE /\ ReleaseMapped(S)
         /\ mapping' = [k \in Keys |-> IF \E f \in S : flow[f].key = k /\ flow[f].id = mapping[k]
                                       THEN -1 ELSE mapping[k]]

\* Funnel.Close
Closed(S) == [f \in Flows |-> IF f \in S THEN Forget([flow[f] EXCEPT !.at = "closed"]) ELSE flow[f]]

\* createShouldReplaceFunnelFunc compares the index, not the connection.
ShouldReplace(f, i) == flow[f].index # i

Existing(x) == {funnels[x]} \ {NoFlow}
Replaced(x, i) == {f \in Existing(x) : ShouldReplace(f, i)}

\* GetOrRegister under the lock of the tracker, for the funnel x: the current
\* flow is kept, or it is closed and a new one made, which may fail.
KeepFunnel(i, x) ==
    /\ Existing(x) # {} /\ Replaced(x, i) = {}
    /\ Handle(i, [asked[i] EXCEPT !.at = "send", !.flow = funnels[x]])
    /\ UNCHANGED <<flow, funnels, mapping, assigned>>

NewFunnelFails(i, x) ==
    /\ Existing(x) = Replaced(x, i) /\ platform = "linux"
    /\ flow' = Closed(Replaced(x, i)) /\ funnels' = [funnels EXCEPT ![x] = NoFlow]
    /\ Release(Replaced(x, i)) /\ Handle(i, Idle)

NewFunnel(i, x, f, id) ==
    /\ Existing(x) = Replaced(x, i)
    /\ f \in Unused /\ Release(Replaced(x, i))
    /\ flow' = [Closed(Replaced(x, i)) EXCEPT ![f] =
                  [key |-> asked[i].key, index |-> i, id |-> id, at |-> "open",
                   listener |-> IF platform = "linux" THEN "on" ELSE "off",
                   own |-> mapping'[asked[i].key] = id]]
    /\ funnels' = [funnels EXCEPT ![x] = f]
    /\ Handle(i, [asked[i] EXCEPT !.at = "send", !.flow = f])

\* cleanup closes the funnels that were idle, under the lock.
Cleanup(S) ==
    /\ S \subseteq {funnels[x] : x \in DOMAIN funnels} \ {NoFlow} /\ S # {}
    /\ flow' = Closed(S) /\ funnels' = [x \in DOMAIN funnels |-> IF funnels[x] \in S THEN NoFlow ELSE funnels[x]]
    /\ Release(S)
    /\ UNCHANGED <<platform, asked, nextID>>
-----------------------------------------------------------------------------
(* Linux: the kernel gives a socket any port that no open socket has. *)

FreePorts(x, i) == Ports \ {flow[f].id : f \in {f \in Flows : flow[f].at = "open"} \ Replaced(x, i)}

LinuxRequest(i) ==
    /\ platform = "linux" /\ asked[i].at = "request"
    /\ LET k == asked[i].key IN
          \/ KeepFunnel(i, k) \/ NewFunnelFails(i, k)
          \/ \E f \in Flows, id \in FreePorts(k, i) : NewFunnel(i, k, f, id)
    /\ UNCHANGED <<platform, nextID>>

\* listenResponse ends when the socket is closed or cannot be read.
ListenResponseEnds(f) ==
    /\ flow[f].listener = "on" /\ flow' = [flow EXCEPT ![f].listener = "ending"]
    /\ UNCHANGED <<platform, asked, funnels, mapping, assigned, nextID>>

\* Equal compares the key and the port: a flow that replaced this one and was
\* given the same port is taken for it.
Equal(f, g) == flow[f].key = flow[g].key /\ flow[f].id = flow[g].id

Unregister(f) ==
    /\ flow[f].listener = "ending"
    /\ LET k == flow[f].key
           S == {g \in Existing(k) : Equal(f, g)} IN
       /\ flow' = [Closed(S) EXCEPT ![f] = Forget([@ EXCEPT !.listener = "off"])]
       /\ funnels' = IF S = {} THEN funnels ELSE [funnels EXCEPT ![k] = NoFlow]
    /\ UNCHANGED <<platform, asked, mapping, assigned, nextID>>
-----------------------------------------------------------------------------
(* Darwin *)

\* getOrAssign looks for a free id from nextAssignment to the end, then from 0.
FirstFree ==
    LET start == IF nextID = EchoIDs THEN 0 ELSE nextID
        free  == IDSpace \ assigned
        later == {d \in free : d >= start}
    IN  Min(IF later = {} THEN free ELSE later)

GetOrAssign(i) ==
    /\ platform = "darwin" /\ asked[i].at = "request"
    /\ LET k == asked[i].key IN
       \/ /\ mapping[k] # -1 /\ Handle(i, [asked[i] EXCEPT !.at = "assigned", !.id = mapping[k]])
          /\ UNCHANGED <<mapping, assigned, nextID>>
       \/ /\ mapping[k] = -1 /\ IDSpace \subseteq assigned /\ Handle(i, Idle)
          /\ UNCHANGED <<mapping, assigned, nextID>>
       \/ /\ mapping[k] = -1 /\ ~ IDSpace \subseteq assigned
          /\ mapping' = [mapping EXCEPT ![k] = FirstFree]
          /\ assigned' = assigned \union {FirstFree} /\ nextID' = FirstFree + 1
          /\ Handle(i, [asked[i] EXCEPT !.at = "assigned", !.id = FirstFree])
    /\ UNCHANGED <<platform, flow, funnels>>

\* The tracker of funnels has a lock of its own: the id may have been released
\* since it was assigned.
DarwinRequest(i) ==
    /\ platform = "darwin" /\ asked[i].at = "assigned"
    /\ \/ KeepFunnel(i, asked[i].id)
       \/ \E f \in Flows : NewFunnel(i, asked[i].id, f, asked[i].id)
    /\ UNCHANGED <<platform, nextID>>
-----------------------------------------------------------------------------
\* Windows: the round trip takes at most a second; its reply or error goes to
\* the router that asked, which handles no other packet meanwhile.
WindowsRequest(i) ==
    /\ platform = "windows" /\ asked[i].at = "request" /\ Handle(i, Idle)
    /\ UNCHANGED <<platform, flow, funnels, mapping, assigned, nextID>>

ICMPNext ==
    \/ \E i \in Indexes :
          \/ Reconnect(i) \/ SendToDst(i) \/ LinuxRequest(i) \/ GetOrAssign(i)
          \/ DarwinRequest(i) \/ WindowsRequest(i)
          \/ \E k \in Keys : HandlePacket(i, k)
    \/ \E f \in Flows : ListenResponseEnds(f) \/ Unregister(f)
    \/ \E S \in SUBSET Flows : Cleanup(S)

ICMPTypeOK ==
    /\ funnels \in [Keys \union IDSpace -> Flows \union {NoFlow}]
    /\ mapping \in [Keys -> IDSpace \union {-1}] /\ assigned \subseteq IDSpace
    /\ nextID \in 0 .. EchoIDs
-----------------------------------------------------------------------------
\* Linux: the open sockets are exactly those of the funnels in the tracker, so
\* each is closed when its flow is idle and none is leaked when a flow moves to
\* another connection, when a goroutine ends late, or when a port is used again.
SocketsTracked ==
    platform = "linux" =>
       \A f \in Flows : flow[f].at = "open" <=> (flow[f].key # NoFlow /\ funnels[flow[f].key] = f)

\* Darwin: the tracker of echo ids maps no two keys to the same id, and the ids
\* it marks as assigned are the mapped ones, whatever the order of assignment,
\* replacement, clean up and wrap around.
EchoIDsUnique ==
    /\ \A k, l \in Keys : mapping[k] # -1 /\ mapping[k] = mapping[l] => k = l
    /\ assigned = {mapping[k] : k \in Keys} \ {-1}

\* Darwin: the open flows are exactly those of the funnels, each under its own
\* echo id: no two of them share an id, a reply finds the one flow that uses its
\* id, and none outlives its funnel.
IDsExclusive ==
    platform = "darwin" =>
       /\ \A f \in Flows : flow[f].at = "open" => funnels[flow[f].id] = f
       /\ \A d \in IDSpace : funnels[d] # NoFlow => flow[funnels[d]].at = "open" /\ flow[funnels[d]].id = d

\* Darwin: while a flow is open, no other flow that is closed or replaced takes
\* away the id it was made with.  It speaks only of flows that were made while
\* their key had the id: a replacement makes its flow with the id that the close
\* of the old flow has just released (icmp_darwin.go:155-167), so that id may be
\* given to another key while the flow still uses it, or may be assigned to a key
\* that has no flow.
EchoIDsKept ==
    platform = "darwin" =>
       \A f \in Flows : flow[f].at = "open" /\ flow[f].own => mapping[flow[f].key] = flow[f].id

\* No socket is leaked, no two open flows use one echo id, and a flow that has its
\* id assigned keeps it.
FlowsTracked == SocketsTracked /\ EchoIDsUnique /\ IDsExclusive /\ EchoIDsKept
=============================================================================
