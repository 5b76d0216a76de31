----------------------- MODULE EdgeConnectionsProofs -----------------------
(***************************************************************************)
(* Proofs about EdgeConnections and the orchestrator it uses: requests are *)
(* never handed a proxy whose origins were shut down, are answered at most *)
(* once, and are not cut by a graceful shutdown.                           *)
(***************************************************************************)
EXTENDS EdgeConnections, TLAPS

-----------------------------------------------------------------------------
(* The orchestrator *)

\* What holds of the orchestrator between any two of its steps.  The channel
\* proxyShutdownC belongs to the current version, whose origins run; an update
\* has started newer origins; the proxy that requests read is the current one
\* until the update stores its own, and the last proxy is closed only when no
\* update holds the lock.
OrInv ==
    /\ version \in Versions \union {Local} /\ running \subseteq Versions \union {Local}
    /\ updating \in Updates \union {None}
    /\ closer # None => closer = version /\ closer \in running
    /\ closer = None => stopping
    /\ (Free /\ closer # None) => proxy = closer
    /\ ~Free => /\ closer # None /\ updating.v \in running /\ updating.v > version
                /\ proxy = IF updating.step = "stored" THEN updating.v ELSE closer
                /\ limit = IF updating.step = "started" THEN version ELSE updating.v
    /\ AppliedWhole

\* The configuration the process starts with satisfies the invariant.
LEMMA OrInitInv == OrInit => OrInv
BY VersionsAssumption DEF OrInit, OrInv, AppliedWhole, Free, Local

\* An update pushed by the edge, accepted or not, keeps the invariant.
LEMMA OrUpdateInv ==
    ASSUME OrInv, NEW v \in Versions, OrUpdate(v)
    PROVE  OrInv'
<1>1. CASE OldVersion(v) \/ Refuse(v)
  BY <1>1 DEF OldVersion, Refuse, OrInv, AppliedWhole, orVars, Free
<1>2. CASE StartFails(v)
  BY <1>2 DEF StartFails, OrInv, AppliedWhole, Free
<1>3. CASE StartOrigins(v)
  <2>1. updating' \in Updates /\ updating'.v = v /\ updating'.step = "started"
    BY <1>3 DEF StartOrigins, Updates
  <2>2. /\ closer # None /\ closer = version /\ closer \in running /\ Free
        /\ proxy = version /\ limit = version /\ running \subseteq {version}
    BY <1>3 DEF StartOrigins, OrInv, AppliedWhole, Free
  <2>3. /\ running' = running \union {v} /\ v > version /\ ~stopping
        /\ UNCHANGED <<version, proxy, limit, closer, stopping>>
    BY <1>3 DEF StartOrigins
  <2>4. ~Free' BY <2>1, VersionsAssumption DEF Free
  <2>5. AppliedWhole' BY <2>1, <2>2, <2>3, <2>4 DEF AppliedWhole
  <2> QED BY <2>1, <2>2, <2>3, <2>4, <2>5 DEF OrInv
<1> QED BY <1>1, <1>2, <1>3 DEF OrUpdate

\* A step of the update that holds the lock, and the goroutine that closes the
\* last proxy, keep the invariant.
LEMMA OrStepInv ==
    ASSUME OrInv, OrStep
    PROVE  OrInv'
<1>1. CASE SetLimits
  <2>1. updating' \in Updates /\ updating'.v = updating.v /\ updating'.step = "limited"
    BY <1>1 DEF SetLimits, OrInv, Updates, Free
  <2> QED BY <1>1, <2>1, VersionsAssumption DEF SetLimits, OrInv, AppliedWhole, Free
<1>2. CASE StoreProxy
  <2>1. updating' \in Updates /\ updating'.v = updating.v /\ updating'.step = "stored"
    BY <1>2 DEF StoreProxy, OrInv, Updates, Free
  <2> QED BY <1>2, <2>1, VersionsAssumption DEF StoreProxy, OrInv, AppliedWhole, Free
<1>3. CASE ClosePrevious
  <2>1. updating \in Updates /\ updating.v \in Versions /\ updating.v # version
    BY <1>3, VersionsAssumption DEF ClosePrevious, OrInv, Updates, Free, Local
  <2>2. proxy = updating.v /\ closer = version /\ updating.v \in running
    BY <1>3 DEF ClosePrevious, OrInv, Free
  <2> QED BY <1>3, <2>1, <2>2, VersionsAssumption DEF ClosePrevious, OrInv, AppliedWhole, Free
<1>4. CASE CloseLastProxy
  BY <1>4 DEF CloseLastProxy, OrInv, AppliedWhole, Free
<1> QED BY <1>1, <1>2, <1>3, <1>4 DEF OrStep

-----------------------------------------------------------------------------
(* Connections and requests *)

ConnRec == [proto : {"http2", "quic"}, link : {"none", "up", "closed", "lost"},
            control : {"none", "registering", "pushing", "sending", "registered",
                       "unregistering", "grace", "returned"},
            stopped : BOOLEAN, done : BOOLEAN, waited : BOOLEAN,
            err : {"none", "dup", "permanent", "retry", "rpc", "ctx", "other"},
            result : {"none", "dial", "nil", "lost", "control",
                      "dup", "permanent", "retry", "rpc", "ctx", "other"}]

\* The context of a QUIC connection has ended for a reason, so cloudflared closes
\* it for one; one of HTTP/2 is closed only after the wait for its handlers, and
\* that wait begins once the context has ended.
ConnOK(k, s) ==
    /\ k.proto = "quic" => /\ k.link = "closed" => (k.waited \/ s \/ k.err # "none")
                           /\ k.done => (k.waited \/ s \/ k.err # "none" \/ k.link = "lost")
    /\ k.proto = "http2" => /\ k.link = "closed" => k.waited
                            /\ k.waited => k.done
                            /\ k.control # "grace"

ReqRec == [at : {"none", "active", "done", "reset", "cut"}, conn : Conns \union {None},
           kind : {"http", "stream"}, answers : {0, 1}, late : BOOLEAN]

\* A request on the connection k: the handlers of HTTP/2 that still run after
\* the wait arrived late, and a cut request had lost its transport.
ReqOK(q, k) ==
    /\ q.at = "active" => /\ k.link # "none"
                          /\ (k.proto = "http2" /\ k.waited) => q.late
    /\ q.at = "cut" => /\ k.link \in {"closed", "lost"}
                       /\ (k.proto = "http2" /\ k.link = "closed") => q.late

ConnInv ==
    /\ conn \in [Conns -> ConnRec]
    /\ \A c \in Conns : ConnOK(conn[c], stopping)

ReqInv ==
    /\ req \in [Reqs -> ReqRec]
    /\ \A r \in Reqs :
          /\ req[r].at \in {"done", "reset"} => req[r].answers = 1
          /\ req[r].at \in {"active", "cut"} => /\ req[r].conn \in Conns
                                               /\ ReqOK(req[r], conn[req[r].conn])

Inv == OrInv /\ ConnInv /\ ReqInv

\* Before anything is dialled.
LEMMA InitInv == Init => Inv
<1> SUFFICES ASSUME Init PROVE Inv OBVIOUS
<1>1. OrInv BY OrInitInv DEF Init
<1>2. ConnInv
  <2>1. \A c \in Conns : \E p \in {"http2", "quic"} : conn[c] = NewConn(p)
    BY DEF Init
  <2>2. \A p \in {"http2", "quic"} : NewConn(p) \in ConnRec
    BY DEF NewConn, ConnRec
  <2>4. \A p \in {"http2", "quic"} : ConnOK(NewConn(p), stopping)
    BY DEF NewConn, ConnOK
  <2>3. \E S : conn \in [Conns -> S]
    BY DEF Init
  <2> QED BY <2>1, <2>2, <2>3, <2>4 DEF ConnInv
<1>3. ReqInv
  <2>1. NewReq \in ReqRec BY DEF NewReq, ReqRec
  <2> QED BY <2>1 DEF Init, ReqInv, NewReq
<1> QED BY <1>1, <1>2, <1>3 DEF Inv

\* How one step changes a connection: a transport that is closed or lost stays
\* so, and the wait of HTTP/2 ends only when no request is active.
Becomes(k, new, c) ==
    /\ new.proto = k.proto
    /\ k.link # "none" => (new.link = k.link \/ (k.link = "up" /\ new.link \in {"closed", "lost"}))
    /\ (k.link = "up" /\ new.link = "closed" /\ k.proto = "http2") => k.waited
    /\ (new.waited /\ k.proto = "http2") => (k.waited \/ Active(c) = {})

\* A step that replaces one connection by a record that is consistent, and only
\* moves it forward, keeps the invariants of connections and requests.
LEMMA ConnStep ==
    ASSUME ConnInv, ReqInv, NEW c \in Conns, NEW new \in ConnRec,
           Set(c, new), ConnOK(new, stopping), Becomes(conn[c], new, c),
           req' = req, stopping' = stopping
    PROVE  ConnInv' /\ ReqInv'
<1>1. ConnInv'
  <2>1. conn' \in [Conns -> ConnRec] BY DEF ConnInv, Set
  <2>2. \A d \in Conns : conn'[d] = IF d = c THEN new ELSE conn[d]
    BY DEF ConnInv, Set
  <2>3. \A d \in Conns : ConnOK(conn'[d], stopping)
    BY <2>2 DEF ConnInv
  <2> QED BY <2>1, <2>3 DEF ConnInv, ConnOK
<1>2. ReqInv'
  <2>0. req' \in [Reqs -> ReqRec] BY DEF ReqInv
  <2> SUFFICES ASSUME NEW r \in Reqs, req[r].at \in {"active", "cut"}
               PROVE  req[r].conn \in Conns /\ ReqOK(req[r], conn'[req[r].conn])
    BY <2>0 DEF ReqInv, ReqOK
  <2>1. req[r].conn \in Conns /\ ReqOK(req[r], conn[req[r].conn])
    BY DEF ReqInv
  <2>2. CASE req[r].conn # c
    BY <2>1, <2>2 DEF Set, ConnInv
  <2>3. CASE req[r].conn = c
    <3>1. conn'[c] = new BY DEF Set, ConnInv
    <3>2. ReqOK(req[r], conn[c]) BY <2>1, <2>3
    <3>3. req[r].at = "active" => Active(c) # {} BY <2>3 DEF Active
    <3>4. conn[c] \in ConnRec BY DEF ConnInv
    <3>5. ReqOK(req[r], new)
      BY <3>2, <3>3, <3>4 DEF ReqOK, Becomes, ConnRec
    <3> QED BY <2>1, <2>3, <3>1, <3>5
  <2> QED BY <2>2, <2>3
<1> QED BY <1>1, <1>2

\* The handler of the control stream returns e: an error is recorded, and over
\* QUIC it ends the context.
LEMMA ControlReturnsOK ==
    ASSUME ConnInv, NEW c \in Conns,
           NEW e \in {"nil", "dup", "permanent", "retry", "rpc", "ctx"}
    PROVE  LET new == ControlReturns(c, conn[c], e) IN
           new \in ConnRec /\ ConnOK(new, stopping) /\ Becomes(conn[c], new, c)
<1> DEFINE k == conn[c]
           new == ControlReturns(c, k, e)
<1>1. k \in ConnRec /\ ConnOK(k, stopping) BY DEF ConnInv
<1>2. new \in ConnRec
  <2>1. \A x \in {"grace", "returned"}, y \in {"none", "dup", "permanent", "retry", "rpc", "ctx", "other"},
           z \in BOOLEAN : [k EXCEPT !.control = x, !.err = y, !.done = z] \in ConnRec
    BY <1>1 DEF ConnRec
  <2> DEFINE x == IF IsQUIC(c) /\ e = "nil" THEN "grace" ELSE "returned"
             y == IF e = "nil" \/ k.err # "none" THEN k.err ELSE e
             z == k.done \/ (IsQUIC(c) /\ e # "nil")
  <2>2. x \in {"grace", "returned"}
    OBVIOUS
  <2>3. y \in {"none", "dup", "permanent", "retry", "rpc", "ctx", "other"}
    BY <1>1 DEF ConnRec
  <2>4. z \in BOOLEAN
    OBVIOUS
  <2>5. new = [k EXCEPT !.control = x, !.err = y, !.done = z] BY DEF ControlReturns
  <2> HIDE DEF x, y, z, k, new
  <2> QED BY <2>1, <2>2, <2>3, <2>4, <2>5, Zenon
<1>3. new.proto = k.proto /\ new.link = k.link /\ new.waited = k.waited
  BY <1>1 DEF ControlReturns, ConnRec
<1>4. new.err = IF e = "nil" \/ k.err # "none" THEN k.err ELSE e
  BY <1>1 DEF ControlReturns, ConnRec
<1>5. new.done => (k.done \/ (k.proto = "quic" /\ e # "nil"))
  BY <1>1 DEF ControlReturns, ConnRec, IsQUIC
<1>6. k.done => new.done
  BY <1>1 DEF ControlReturns, ConnRec, IsQUIC
<1>9. new.control = "grace" => k.proto = "quic"
  BY <1>1 DEF ControlReturns, ConnRec, IsQUIC
<1> HIDE DEF k, new
<1>7. ConnOK(new, stopping) BY <1>1, <1>3, <1>4, <1>5, <1>6, <1>9 DEF ConnOK
<1>8. Becomes(k, new, c) BY <1>1, <1>3 DEF Becomes, ConnRec
<1> QED BY <1>2, <1>7, <1>8 DEF k, new

\* A change of the control stream alone, or of the result of Serve.
LEMMA Keeps ==
    ASSUME ConnInv, NEW c \in Conns, NEW new \in ConnRec,
           new.proto = conn[c].proto, new.link = conn[c].link,
           new.waited = conn[c].waited, new.err = conn[c].err, new.done = conn[c].done,
           new.control # "grace" \/ new.control = conn[c].control
    PROVE  ConnOK(new, stopping) /\ Becomes(conn[c], new, c)
<1>1. conn[c] \in ConnRec /\ ConnOK(conn[c], stopping) BY DEF ConnInv
<1> QED BY <1>1 DEF ConnOK, Becomes, ConnRec

\* Dialling, registering and the control stream of a connection.
LEMMA ControlInv ==
    ASSUME ConnInv, ReqInv, NEW c \in Conns,
           \/ DialFails(c) \/ Dial(c) \/ OpenControlStream(c) \/ Registered(c)
           \/ \E e \in RegErrors : RegisterFails(c, e)
           \/ ControlStep(c)
    PROVE  ConnInv' /\ ReqInv'
<1> DEFINE k == conn[c]
<1>0. k \in ConnRec /\ ConnOK(k, stopping) BY DEF ConnInv
<1>1. CASE DialFails(c)
  <2> DEFINE new == [k EXCEPT !.result = "dial"]
  <2>1. new \in ConnRec /\ new.proto = k.proto /\ new.link = k.link
        /\ new.waited = k.waited /\ new.err = k.err /\ new.done = k.done
        /\ (new.control # "grace" \/ new.control = k.control)
    BY <1>0 DEF ConnRec
  <2>2. Set(c, new) /\ req' = req /\ stopping' = stopping BY <1>1 DEF DialFails, orVars
  <2> QED BY <2>1, <2>2, Keeps, ConnStep
<1>2. CASE Dial(c)
  <2> DEFINE new == [k EXCEPT !.link = "up"]
  <2>1. new \in ConnRec /\ new.proto = k.proto /\ new.link = "up"
        /\ new.waited = k.waited /\ new.err = k.err /\ new.done = k.done
        /\ (new.control # "grace" \/ new.control = k.control)
    BY <1>0 DEF ConnRec
  <2>2. Set(c, new) /\ req' = req /\ stopping' = stopping /\ k.link = "none" BY <1>2 DEF Dial, orVars
  <2> HIDE DEF k, new
  <2>3. ConnOK(new, stopping) BY <1>0, <2>1, <2>2 DEF ConnOK
  <2>4. Becomes(k, new, c) BY <1>0, <2>1, <2>2 DEF Becomes, ConnRec
  <2> QED BY <2>1, <2>2, <2>3, <2>4, ConnStep DEF k
<1>3. CASE \E x \in {"registering", "pushing", "sending", "registered"} :
              /\ Set(c, [conn[c] EXCEPT !.control = x]) /\ UNCHANGED <<orVars, req, graceful>>
  <2> PICK x \in {"registering", "pushing", "sending", "registered"} :
              /\ Set(c, [conn[c] EXCEPT !.control = x]) /\ UNCHANGED <<orVars, req, graceful>>
    BY <1>3
  <2> DEFINE new == [k EXCEPT !.control = x]
  <2>1. new \in ConnRec /\ new.proto = k.proto /\ new.link = k.link
        /\ new.waited = k.waited /\ new.err = k.err /\ new.done = k.done
        /\ (new.control # "grace" \/ new.control = k.control)
    BY <1>0 DEF ConnRec
  <2>2. Set(c, new) /\ req' = req /\ stopping' = stopping BY DEF orVars
  <2> QED BY <2>1, <2>2, Keeps, ConnStep
<1>4. CASE OpenControlStream(c) \/ Registered(c) \/ PushConfig(c) \/ SendLocalConfiguration(c)
  BY <1>3, <1>4 DEF OpenControlStream, Registered, PushConfig, SendLocalConfiguration
<1>5. CASE \E e \in {"nil", "dup", "permanent", "retry", "rpc", "ctx"} :
              /\ Set(c, ControlReturns(c, conn[c], e)) /\ UNCHANGED <<orVars, req, graceful>>
  <2> PICK e \in {"nil", "dup", "permanent", "retry", "rpc", "ctx"} :
              /\ Set(c, ControlReturns(c, conn[c], e)) /\ UNCHANGED <<orVars, req, graceful>>
    BY <1>5
  <2>1. req' = req /\ stopping' = stopping BY DEF orVars
  <2> QED BY <2>1, ControlReturnsOK, ConnStep
<1>6. CASE \/ \E e \in RegErrors : RegisterFails(c, e)
           \/ GracefulShutdown(c) \/ UnregisterFails(c)
  BY <1>5, <1>6 DEF RegErrors, RegisterFails, GracefulShutdown, UnregisterFails
<1>7. CASE WaitForUnregister(c)
  <2> DEFINE one == [k EXCEPT !.control = "unregistering"]
             two == [k EXCEPT !.control = "unregistering", !.stopped = TRUE]
  <2>1. one \in ConnRec /\ one.proto = k.proto /\ one.link = k.link
        /\ one.waited = k.waited /\ one.err = k.err /\ one.done = k.done
        /\ one.control # "grace"
    BY <1>0 DEF ConnRec
  <2>2. two \in ConnRec /\ two.proto = k.proto /\ two.link = k.link
        /\ two.waited = k.waited /\ two.err = k.err /\ two.done = k.done
        /\ two.control # "grace"
    BY <1>0 DEF ConnRec
  <2>3. (Set(c, one) \/ Set(c, two)) /\ req' = req /\ stopping' = stopping
    BY <1>7 DEF WaitForUnregister, orVars
  <2>4. CASE Set(c, one) BY <2>1, <2>3, <2>4, Keeps, ConnStep
  <2>5. CASE Set(c, two) BY <2>2, <2>3, <2>5, Keeps, ConnStep
  <2> QED BY <2>3, <2>4, <2>5
<1>8. CASE GraceOver(c)
  <2> DEFINE new == [k EXCEPT !.control = "returned", !.done = TRUE, !.waited = TRUE]
  <2>1. new \in ConnRec /\ new.proto = k.proto /\ new.link = k.link
        /\ new.waited /\ new.err = k.err /\ new.done /\ new.control = "returned"
    BY <1>0 DEF ConnRec
  <2>2. Set(c, new) /\ req' = req /\ stopping' = stopping /\ k.control = "grace"
    BY <1>8 DEF GraceOver, orVars
  <2>3. k.proto = "quic" BY <1>0, <2>2 DEF ConnOK, ConnRec
  <2> HIDE DEF k, new
  <2>4. ConnOK(new, stopping) BY <2>1, <2>3 DEF ConnOK
  <2>5. Becomes(k, new, c) BY <2>1, <2>3 DEF Becomes
  <2> QED BY <2>1, <2>2, <2>4, <2>5, ConnStep DEF k
<1> QED BY <1>1, <1>2, <1>4, <1>6, <1>7, <1>8 DEF ControlStep

\* The end of a connection: its routines fail, the transport is lost, or Serve
\* waits, closes and returns.
LEMMA ServeInv ==
    ASSUME ConnInv, ReqInv, NEW c \in Conns,
           ServeStep(c) \/ OtherRoutineFails(c) \/ Lost(c)
    PROVE  ConnInv' /\ ReqInv'
<1> DEFINE k == conn[c]
<1>0. k \in ConnRec /\ ConnOK(k, stopping) BY DEF ConnInv
<1>1. CASE OtherRoutineFails(c)
  <2> DEFINE new == [k EXCEPT !.done = TRUE, !.err = IF @ = "none" THEN "other" ELSE @]
  <2>1. new \in ConnRec /\ new.proto = k.proto /\ new.link = k.link /\ new.control = k.control
        /\ new.waited = k.waited /\ new.done /\ new.err # "none"
    BY <1>0 DEF ConnRec
  <2>2. Set(c, new) /\ req' = req /\ stopping' = stopping BY <1>1 DEF OtherRoutineFails, orVars
  <2> HIDE DEF k, new
  <2>3. ConnOK(new, stopping) BY <1>0, <2>1 DEF ConnOK
  <2>4. Becomes(k, new, c) BY <1>0, <2>1 DEF Becomes, ConnRec
  <2> QED BY <2>1, <2>2, <2>3, <2>4, ConnStep DEF k
<1>2. CASE Lost(c)
  <2> DEFINE new == [k EXCEPT !.link = "lost", !.done = TRUE]
  <2>1. new \in ConnRec /\ new.proto = k.proto /\ new.link = "lost" /\ new.control = k.control
        /\ new.waited = k.waited /\ new.done
    BY <1>0 DEF ConnRec
  <2>2. Set(c, new) /\ req' = req /\ stopping' = stopping /\ k.link = "up" BY <1>2 DEF Lost, orVars
  <2> HIDE DEF k, new
  <2>3. ConnOK(new, stopping) BY <1>0, <2>1 DEF ConnOK
  <2>4. Becomes(k, new, c) BY <1>0, <2>1, <2>2 DEF Becomes, ConnRec
  <2> QED BY <2>1, <2>2, <2>3, <2>4, ConnStep DEF k
<1>3. CASE H2Waited(c)
  <2> DEFINE new == [k EXCEPT !.waited = TRUE]
  <2>1. new \in ConnRec /\ new.proto = k.proto /\ new.link = k.link /\ new.control = k.control
        /\ new.waited /\ new.done = k.done /\ new.err = k.err
    BY <1>0 DEF ConnRec
  <2>2. Set(c, new) /\ req' = req /\ stopping' = stopping /\ Active(c) = {} /\ k.done
    BY <1>3 DEF H2Waited, orVars
  <2> HIDE DEF k, new
  <2>3. ConnOK(new, stopping) BY <1>0, <2>1, <2>2 DEF ConnOK
  <2>4. Becomes(k, new, c) BY <1>0, <2>1, <2>2 DEF Becomes, ConnRec
  <2> QED BY <2>1, <2>2, <2>3, <2>4, ConnStep DEF k
<1>4. CASE H2Close(c)
  <2> DEFINE new == [k EXCEPT !.link = "closed"]
  <2>1. new \in ConnRec /\ new.proto = k.proto /\ new.link = "closed" /\ new.control = k.control
        /\ new.waited = k.waited /\ new.done = k.done /\ new.err = k.err
    BY <1>0 DEF ConnRec
  <2>2. Set(c, new) /\ req' = req /\ stopping' = stopping /\ k.link = "up" /\ k.waited
    BY <1>4 DEF H2Close, orVars
  <2> HIDE DEF k, new
  <2>3. ConnOK(new, stopping) BY <1>0, <2>1, <2>2 DEF ConnOK
  <2>4. Becomes(k, new, c) BY <1>0, <2>1, <2>2 DEF Becomes, ConnRec
  <2> QED BY <2>1, <2>2, <2>3, <2>4, ConnStep DEF k
<1>5. CASE H2Ends(c)
  <2> DEFINE new == [k EXCEPT !.result = H2Result(k), !.done = TRUE]
  <2>1. H2Result(k) \in {"nil", "lost", "dup", "permanent", "retry", "rpc", "ctx", "other"}
    BY <1>0 DEF H2Result, ConnRec
  <2>2. new \in ConnRec /\ new.proto = k.proto /\ new.link = k.link /\ new.control = k.control
        /\ new.waited = k.waited /\ new.done /\ new.err = k.err
    BY <1>0, <2>1 DEF ConnRec
  <2>3. Set(c, new) /\ req' = req /\ stopping' = stopping /\ k.proto # "quic"
    BY <1>5 DEF H2Ends, IsQUIC, orVars
  <2> HIDE DEF k, new
  <2>4. ConnOK(new, stopping) BY <1>0, <2>2, <2>3 DEF ConnOK
  <2>5. Becomes(k, new, c) BY <1>0, <2>2, <2>3 DEF Becomes, ConnRec
  <2> QED BY <2>2, <2>3, <2>4, <2>5, ConnStep DEF k
<1>6. CASE QuicEnds(c)
  <2> DEFINE x == IF k.link = "up" THEN "closed" ELSE k.link
             y == IF k.err = "none" THEN "control" ELSE k.err
             new == [k EXCEPT !.result = y, !.link = x]
  <2>1. /\ x \in {"none", "up", "closed", "lost"}
        /\ y \in {"control", "dup", "permanent", "retry", "rpc", "ctx", "other"}
    BY <1>0 DEF ConnRec
  <2>2. Set(c, new) /\ req' = req /\ stopping' = stopping /\ k.proto = "quic" /\ k.done
    BY <1>6 DEF QuicEnds, IsQUIC, orVars
  <2> HIDE DEF x, y
  <2>6. new \in ConnRec
    <3>1. [k EXCEPT !.result = y] \in ConnRec BY <1>0, <2>1 DEF ConnRec
    <3>2. \A m \in ConnRec : [m EXCEPT !.link = x] \in ConnRec BY <2>1 DEF ConnRec
    <3> QED BY <3>1, <3>2
  <2>3. /\ new \in ConnRec /\ new.proto = k.proto /\ new.control = k.control
        /\ new.waited = k.waited /\ new.done = k.done /\ new.err = k.err /\ new.link = x
    BY <1>0, <2>1, <2>6 DEF ConnRec
  <2> HIDE DEF k, new
  <2>4. ConnOK(new, stopping) BY <1>0, <2>2, <2>3 DEF ConnOK, x
  <2>5. Becomes(k, new, c) BY <1>0, <2>2, <2>3 DEF Becomes, ConnRec, x
  <2> QED BY <2>2, <2>3, <2>4, <2>5, ConnStep DEF k
<1> QED BY <1>1, <1>2, <1>3, <1>4, <1>5, <1>6 DEF ServeStep

\* A step of one request that leaves the connections alone.
LEMMA ReqStep ==
    ASSUME ConnInv, ReqInv, NEW r \in Reqs, NEW q \in ReqRec,
           req' = [req EXCEPT ![r] = q], conn' = conn, stopping' = stopping,
           q.at \in {"done", "reset"} => q.answers = 1,
           q.at \in {"active", "cut"} => q.conn \in Conns /\ ReqOK(q, conn[q.conn])
    PROVE  ConnInv' /\ ReqInv'
<1>1. ConnInv' BY DEF ConnInv
<1>2. req' \in [Reqs -> ReqRec] BY DEF ReqInv
<1>3. \A s \in Reqs : req'[s] = IF s = r THEN q ELSE req[s] BY DEF ReqInv
<1>4. ReqInv' BY <1>2, <1>3 DEF ReqInv
<1> QED BY <1>1, <1>4

\* Requests arrive, are answered, end, fail and are cut.
LEMMA RequestInv ==
    ASSUME ConnInv, ReqInv, NEW r \in Reqs,
           \/ \E c \in Conns, k \in {"http", "stream"} : ServeHTTP(r, c, k) \/ AcceptStream(r, c, k)
           \/ WriteRespHeaders(r) \/ WriteConnectResponse(r)
           \/ RequestFails(r) \/ RequestEnds(r) \/ Cut(r)
    PROVE  ConnInv' /\ ReqInv'
<1> DEFINE old == req[r]
<1>0. /\ old \in ReqRec
      /\ old.at \in {"active", "cut"} => old.conn \in Conns /\ ReqOK(old, conn[old.conn])
  BY DEF ReqInv
<1>1. ASSUME NEW c \in Conns, NEW k \in {"http", "stream"}, Arrives(r, c, k)
      PROVE  ConnInv' /\ ReqInv'
  <2> DEFINE q == [at |-> "active", conn |-> c, kind |-> k, answers |-> 0, late |-> conn[c].done]
  <2>0. conn[c] \in ConnRec /\ ConnOK(conn[c], stopping) BY DEF ConnInv
  <2>1. q \in ReqRec BY <2>0 DEF ReqRec, ConnRec
  <2>2. q.at = "active" /\ q.conn = c /\ q.late = conn[c].done OBVIOUS
  <2>3. req' = [req EXCEPT ![r] = q] /\ conn' = conn /\ stopping' = stopping /\ conn[c].link = "up"
    BY <1>1 DEF Arrives, orVars
  <2> HIDE DEF q
  <2>4. ReqOK(q, conn[c]) BY <2>0, <2>2, <2>3 DEF ReqOK, ConnOK
  <2> QED BY <2>1, <2>2, <2>3, <2>4, ReqStep
<1>2. ASSUME Responds(r) PROVE ConnInv' /\ ReqInv'
  <2> DEFINE q == [old EXCEPT !.answers = 1]
  <2>1. q \in ReqRec /\ q.at = old.at /\ q.conn = old.conn /\ q.late = old.late /\ q.answers = 1
    BY <1>0 DEF ReqRec
  <2>2. req' = [req EXCEPT ![r] = q] /\ conn' = conn /\ stopping' = stopping
    BY <1>2 DEF Responds, orVars
  <2> HIDE DEF q, old
  <2>3. q.at \in {"active", "cut"} => q.conn \in Conns /\ ReqOK(q, conn[q.conn])
    BY <1>0, <2>1 DEF ReqOK
  <2> QED BY <2>1, <2>2, <2>3, ReqStep
<1>3. CASE RequestFails(r)
  <2> DEFINE q == [old EXCEPT !.answers = 1, !.at = IF old.answers = 0 THEN "done" ELSE "reset"]
  <2>1. q \in ReqRec /\ q.at \in {"done", "reset"} /\ q.answers = 1
    BY <1>0 DEF ReqRec
  <2>2. req' = [req EXCEPT ![r] = q] /\ conn' = conn /\ stopping' = stopping
    BY <1>3 DEF RequestFails, orVars, ReqInv
  <2> HIDE DEF q, old
  <2> QED BY <2>1, <2>2, ReqStep
<1>4. CASE RequestEnds(r)
  <2> DEFINE q == [old EXCEPT !.at = "done"]
  <2>1. q \in ReqRec /\ q.at = "done" /\ q.answers = old.answers
    BY <1>0 DEF ReqRec
  <2>2. req' = [req EXCEPT ![r] = q] /\ conn' = conn /\ stopping' = stopping /\ old.answers = 1
    BY <1>4 DEF RequestEnds, orVars
  <2> HIDE DEF q, old
  <2> QED BY <2>1, <2>2, ReqStep
<1>5. CASE Cut(r)
  <2> DEFINE q == [old EXCEPT !.at = "cut"]
  <2>1. q \in ReqRec /\ q.at = "cut" /\ q.conn = old.conn /\ q.late = old.late
    BY <1>0 DEF ReqRec
  <2>2. req' = [req EXCEPT ![r] = q] /\ conn' = conn /\ stopping' = stopping
        /\ old.at = "active" /\ conn[old.conn].link # "up"
    BY <1>5 DEF Cut, orVars
  <2> HIDE DEF q, old
  <2>3. old.conn \in Conns /\ ReqOK(old, conn[old.conn]) BY <1>0, <2>2
  <2>4. conn[old.conn] \in ConnRec /\ ConnOK(conn[old.conn], stopping) BY <2>3 DEF ConnInv
  <2>5. ReqOK(q, conn[old.conn]) BY <2>1, <2>2, <2>3, <2>4 DEF ReqOK, ConnOK, ConnRec
  <2> QED BY <2>1, <2>2, <2>3, <2>5, ReqStep
<1> QED BY <1>1, <1>2, <1>3, <1>4, <1>5 DEF ServeHTTP, AcceptStream, WriteRespHeaders, WriteConnectResponse

\* The end of the context of the server ends every serve context.
LEMMA CancelInv ==
    ASSUME ConnInv, ReqInv, Cancel
    PROVE  ConnInv' /\ ReqInv'
<1>1. \A c \in Conns : conn[c] \in ConnRec /\ ConnOK(conn[c], stopping) BY DEF ConnInv
<1>2. ASSUME NEW k \in ConnRec, ConnOK(k, stopping)
      PROVE  LET new == [k EXCEPT !.done = TRUE] IN
             /\ new \in ConnRec /\ ConnOK(new, TRUE)
             /\ new.proto = k.proto /\ new.link = k.link /\ new.waited = k.waited
  <2> DEFINE new == [k EXCEPT !.done = TRUE]
  <2>1. new \in ConnRec /\ new.proto = k.proto /\ new.link = k.link /\ new.waited = k.waited
        /\ new.done /\ new.control = k.control
    BY DEF ConnRec
  <2> HIDE DEF new
  <2>2. ConnOK(new, TRUE) BY <1>2, <2>1 DEF ConnOK
  <2> QED BY <2>1, <2>2 DEF new
<1>3. \A c \in Conns : /\ conn'[c] \in ConnRec /\ ConnOK(conn'[c], TRUE)
                       /\ conn'[c].proto = conn[c].proto /\ conn'[c].link = conn[c].link
                       /\ conn'[c].waited = conn[c].waited
  BY <1>1, <1>2 DEF Cancel
<1>4. stopping' = TRUE /\ req' = req BY DEF Cancel
<1>5. ConnInv'
  <2>1. conn' \in [Conns -> ConnRec] BY <1>3 DEF Cancel
  <2> QED BY <1>3, <1>4, <2>1 DEF ConnInv, ConnOK
<1>6. ReqInv'
  <2>1. \A r \in Reqs : req[r].at \in {"active", "cut"} =>
            req[r].conn \in Conns /\ ReqOK(req[r], conn'[req[r].conn])
    BY <1>3 DEF ReqInv, ReqOK
  <2> QED BY <1>4, <2>1 DEF ReqInv, ReqOK
<1> QED BY <1>5, <1>6
-----------------------------------------------------------------------------
\* Every step of the process, of its operator and of the edge keeps Inv.
LEMMA NextInv == Inv /\ [Next]_vars => Inv'
<1> SUFFICES ASSUME Inv, [Next]_vars PROVE Inv' OBVIOUS
<1> USE DEF Inv
<1>1. CASE UNCHANGED vars
  BY <1>1 DEF vars, orVars, OrInv, AppliedWhole, Free, ConnInv, ConnOK, ReqInv, ReqOK
<1>2. ASSUME UNCHANGED <<conn, req, stopping>> PROVE ConnInv' /\ ReqInv'
  BY <1>2 DEF ConnInv, ConnOK, ReqInv, ReqOK
<1>3. ASSUME UNCHANGED orVars PROVE OrInv'
  BY <1>3 DEF orVars, OrInv, AppliedWhole, Free
<1>4. CASE Shutdown
  BY <1>2, <1>3, <1>4 DEF Shutdown, orVars
<1>5. CASE Cancel
  <2>1. OrInv' BY <1>5 DEF Cancel, OrInv, AppliedWhole, Free
  <2> QED BY <1>5, <2>1, CancelInv
<1>6. CASE Orchestrate
  <2>1. stopping' = stopping
    BY <1>6 DEF Orchestrate, OrStep, SetLimits, StoreProxy, ClosePrevious, CloseLastProxy
  <2> QED BY <1>2, <1>6, <2>1, OrStepInv DEF Orchestrate
<1>7. ASSUME NEW c \in Conns, NEW v \in Versions, PushedConfig(c, v) PROVE Inv'
  <2>1. stopping' = stopping
    BY <1>7 DEF PushedConfig, OrUpdate, OldVersion, Refuse, StartFails, StartOrigins, orVars
  <2> QED BY <1>2, <1>7, <2>1, OrUpdateInv DEF PushedConfig
<1>8. ASSUME NEW c \in Conns,
             \/ DialFails(c) \/ Dial(c) \/ OpenControlStream(c) \/ Registered(c)
             \/ \E e \in RegErrors : RegisterFails(c, e)
             \/ ControlStep(c)
      PROVE  Inv'
  <2>1. UNCHANGED orVars
    BY <1>8 DEF DialFails, Dial, OpenControlStream, Registered, RegisterFails, ControlStep, PushConfig,
                SendLocalConfiguration, WaitForUnregister, GracefulShutdown, UnregisterFails, GraceOver
  <2> QED BY <1>3, <1>8, <2>1, ControlInv
<1>9. ASSUME NEW c \in Conns, ServeStep(c) \/ OtherRoutineFails(c) \/ Lost(c) PROVE Inv'
  <2>1. UNCHANGED orVars
    BY <1>9 DEF ServeStep, OtherRoutineFails, Lost, H2Waited, H2Close, H2Ends, QuicEnds
  <2> QED BY <1>3, <1>9, <2>1, ServeInv
<1>10. ASSUME NEW r \in Reqs,
              \/ \E c \in Conns, k \in {"http", "stream"} : ServeHTTP(r, c, k) \/ AcceptStream(r, c, k)
              \/ WriteRespHeaders(r) \/ WriteConnectResponse(r)
              \/ RequestFails(r) \/ RequestEnds(r) \/ Cut(r)
       PROVE  Inv'
  <2>1. UNCHANGED orVars
    BY <1>10 DEF ServeHTTP, AcceptStream, Arrives, WriteRespHeaders, WriteConnectResponse, Responds,
                 RequestFails, RequestEnds, Cut
  <2> QED BY <1>3, <1>10, <2>1, RequestInv
<1> QED BY <1>1, <1>4, <1>5, <1>6, <1>7, <1>8, <1>9, <1>10 DEF Next

\* A request is never handed a proxy whose origins were shut down, until
\* cloudflared itself stops: in every order of pushed configurations, and when
\* the shutdown meets an update half way.
THEOREM ProxySafe == Spec => []ProxyRuns
<1>1. Inv => ProxyRuns BY DEF Inv, OrInv, AppliedWhole, ProxyRuns, ProxyIsServed, Free
<1> QED BY InitInv, NextInv, <1>1, PTL DEF Spec

\* The version of an update is a number.
LEMMA UpdatesAreNumbers == \A u \in Updates : u.v \in Int
<1>1. \A u \in Updates : u.v \in Versions BY DEF Updates
<1>2. Versions \subseteq Int BY VersionsAssumption
<1> QED BY <1>1, <1>2

\* However the updates of several connections interleave, the version and the
\* proxy only move forward.
THEOREM ConfigurationsMoveForward == Spec => VersionsGrow
<1> DEFINE Grows == version' >= version /\ proxy' >= proxy
<1>1. Inv /\ [Next]_vars => [Grows]_orVars
  <2> SUFFICES ASSUME Inv, [Next]_vars, orVars' # orVars PROVE Grows
    OBVIOUS
  <2>0. version \in Int /\ proxy \in Int
    <3>0. version \in Versions \union {Local} /\ (~Free => updating \in Updates) BY DEF Inv, OrInv, Free
    <3>1. version \in Int BY <3>0, VersionsAssumption DEF Local
    <3>2. CASE Free BY <3>1, <3>2 DEF Inv, OrInv, AppliedWhole
    <3>3. CASE ~Free
      <4>1. updating.v \in Int BY <3>0, <3>3, UpdatesAreNumbers
      <4> QED BY <3>1, <3>3, <4>1 DEF Inv, OrInv
    <3> QED BY <3>2, <3>3, <3>1
  <2>1. CASE UNCHANGED <<version, proxy>> BY <2>0, <2>1
  <2>2. CASE StoreProxy
    <3>1. proxy' = updating.v /\ version' = version /\ updating.v > version /\ proxy = version
      BY <2>2 DEF StoreProxy, Inv, OrInv
    <3>2. updating \in Updates BY <2>2 DEF StoreProxy, Inv, OrInv, Free
    <3>3. updating.v \in Int BY <3>2, UpdatesAreNumbers
    <3> QED BY <2>0, <3>1, <3>3
  <2>3. CASE ClosePrevious
    <3>1. version' = updating.v /\ proxy' = proxy /\ updating.v > version
      BY <2>3 DEF ClosePrevious, Inv, OrInv
    <3>2. updating \in Updates BY <2>3 DEF ClosePrevious, Inv, OrInv, Free
    <3>3. updating.v \in Int BY <3>2, UpdatesAreNumbers
    <3> QED BY <2>0, <3>1, <3>3
  <2>4. CASE Orchestrate
    <3>1. StoreProxy \/ ClosePrevious \/ UNCHANGED <<version, proxy>>
      BY <2>4 DEF Orchestrate, OrStep, SetLimits, CloseLastProxy
    <3> QED BY <2>1, <2>2, <2>3, <3>1
  <2>5. CASE \E c \in Conns, v \in Versions : PushedConfig(c, v)
    <3>1. UNCHANGED <<version, proxy>>
      BY <2>5 DEF PushedConfig, OrUpdate, OldVersion, Refuse, StartFails, StartOrigins, orVars
    <3> QED BY <2>1, <3>1
  <2>6. CASE Cancel BY <2>1, <2>6 DEF Cancel
  <2>7. CASE ~Orchestrate /\ ~Cancel /\ ~(\E c \in Conns, v \in Versions : PushedConfig(c, v))
    <3>1. UNCHANGED orVars
      <4>1. ASSUME NEW c \in Conns,
                   \/ DialFails(c) \/ Dial(c) \/ OpenControlStream(c) \/ Registered(c)
                   \/ \E e \in RegErrors : RegisterFails(c, e)
                   \/ ControlStep(c)
            PROVE  UNCHANGED orVars
        BY <4>1 DEF DialFails, Dial, OpenControlStream, Registered, RegisterFails, ControlStep, PushConfig,
                    SendLocalConfiguration, WaitForUnregister, GracefulShutdown, UnregisterFails, GraceOver
      <4>2. ASSUME NEW c \in Conns, ServeStep(c) \/ OtherRoutineFails(c) \/ Lost(c) PROVE UNCHANGED orVars
        BY <4>2 DEF ServeStep, OtherRoutineFails, Lost, H2Waited, H2Close, H2Ends, QuicEnds
      <4>3. ASSUME NEW r \in Reqs,
                   \/ \E c \in Conns, k \in {"http", "stream"} : ServeHTTP(r, c, k) \/ AcceptStream(r, c, k)
                   \/ WriteRespHeaders(r) \/ WriteConnectResponse(r)
                   \/ RequestFails(r) \/ RequestEnds(r) \/ Cut(r)
            PROVE  UNCHANGED orVars
        BY <4>3 DEF ServeHTTP, AcceptStream, Arrives, WriteRespHeaders, WriteConnectResponse, Responds,
                    RequestFails, RequestEnds, Cut
      <4>4. CASE Shutdown \/ UNCHANGED vars BY <4>4 DEF Shutdown, vars
      <4> QED BY <2>7, <4>1, <4>2, <4>3, <4>4 DEF Next
    <3> QED BY <3>1
  <2> QED BY <2>4, <2>5, <2>6, <2>7
<1>2. VersionsGrow <=> [][Grows]_orVars BY PTL DEF VersionsGrow
<1> HIDE DEF Grows
<1> QED BY <1>1, <1>2, InitInv, NextInv, PTL DEF Spec

\* However many connections and requests there are, ServeHTTP and
\* handleDataStream answer each request at most once, and close and Serve cut
\* none without a reason.
THEOREM RequestsSafe == Spec => []RequestsKept
<1>1. Inv => RequestsKept
  <2> SUFFICES ASSUME Inv PROVE RequestsKept OBVIOUS
  <2>1. AnsweredOnce BY DEF Inv, ReqInv, ReqRec, AnsweredOnce
  <2>2. DrainKept
    <3> SUFFICES ASSUME NEW r \in Reqs, req[r].at = "cut", conn[req[r].conn].link = "closed"
                 PROVE  IF conn[req[r].conn].proto = "quic"
                        THEN conn[req[r].conn].waited \/ stopping \/ conn[req[r].conn].err # "none"
                        ELSE req[r].late
      BY DEF DrainKept
    <3>1. req[r].conn \in Conns /\ ReqOK(req[r], conn[req[r].conn]) BY DEF Inv, ReqInv
    <3>2. conn[req[r].conn] \in ConnRec /\ ConnOK(conn[req[r].conn], stopping)
      BY <3>1 DEF Inv, ConnInv
    <3> QED BY <3>1, <3>2 DEF ReqOK, ConnOK, ConnRec
  <2> QED BY <2>1, <2>2 DEF RequestsKept
<1> QED BY InitInv, NextInv, <1>1, PTL DEF Spec
-----------------------------------------------------------------------------
(* Refinement of ConnectionDrain *)

Stutters == UNCHANGED <<Lines, Draining, Excused, Asks>>

\* The first states map to first states of ConnectionDrain.
LEMMA InitRefines == Init => Drain!Init
<1> SUFFICES ASSUME Init PROVE Drain!Init OBVIOUS
<1>1. \A c \in Conns : conn[c].link = "none" /\ ~conn[c].done /\ ~conn[c].waited /\ conn[c].err = "none"
  BY DEF Init, NewConn
<1>2. ~stopping BY DEF Init, OrInit
<1>3. Lines = [c \in Conns |-> "none"] BY <1>1 DEF Lines
<1>4. Draining = {} BY <1>1 DEF Draining
<1>5. Excused = {} BY <1>1, <1>2 DEF Excused, ExcusedBy
<1>6. View(NewReq) = [at |-> "none", on |-> None, answers |-> 0, late |-> FALSE] BY DEF View, NewReq
<1>7. \A r \in Reqs : req[r] = NewReq BY DEF Init
<1>8. Asks = [r \in Reqs |-> [at |-> "none", on |-> None, answers |-> 0, late |-> FALSE]]
  BY <1>6, <1>7 DEF Asks
<1> QED BY <1>3, <1>4, <1>5, <1>8 DEF Drain!Init

\* A connection that began to drain, or was excused, stays so.
Forward(k, new) ==
    /\ new.proto = k.proto
    /\ k.done => new.done
    /\ k.waited => new.waited
    /\ k.err # "none" => new.err # "none"

\* What a step of one connection shows.
LEMMA ConnShows ==
    ASSUME ConnInv, NEW c \in Conns, NEW new, Set(c, new), req' = req, stopping' = stopping
    PROVE  /\ Lines' = [Lines EXCEPT ![c] = new.link] /\ Asks' = Asks
           /\ conn'[c] = new /\ \A d \in Conns : d # c => conn'[d] = conn[d]
<1>1. conn'[c] = new /\ \A d \in Conns : d # c => conn'[d] = conn[d] BY DEF Set, ConnInv
<1>2. Lines' = [Lines EXCEPT ![c] = new.link] BY <1>1 DEF Lines
<1>3. Asks' = Asks BY DEF Asks, View
<1> QED BY <1>1, <1>2, <1>3

\* A step that keeps the transport is a notice.
LEMMA NoticeRefines ==
    ASSUME ConnInv, NEW c \in Conns, NEW new \in ConnRec, Set(c, new), req' = req, stopping' = stopping,
           new.link = conn[c].link, Forward(conn[c], new)
    PROVE  Drain!Next
<1>1. /\ Lines' = [Lines EXCEPT ![c] = new.link] /\ Asks' = Asks
      /\ conn'[c] = new /\ \A d \in Conns : d # c => conn'[d] = conn[d]
  BY ConnShows
<1>2. Lines' = Lines BY <1>1 DEF Lines
<1>3. Draining' = Draining \union Draining'
  BY <1>1 DEF Draining, Forward
<1>4. Excused' = Excused \union Excused'
  BY <1>1 DEF Excused, ExcusedBy, Forward
<1>5. Draining' \in SUBSET Conns /\ Excused' \in SUBSET Conns BY DEF Draining, Excused
<1> HIDE DEF Lines, Draining, Excused, Asks
<1>6. Drain!Notice(Draining', Excused') BY <1>1, <1>2, <1>3, <1>4 DEF Drain!Notice
<1> QED BY <1>5, <1>6 DEF Drain!Next

\* The connection is dialled.
LEMMA OpenRefines ==
    ASSUME ConnInv, NEW c \in Conns, Dial(c)
    PROVE  Drain!Next
<1> DEFINE k == conn[c]
           new == [k EXCEPT !.link = "up"]
<1>0. k \in ConnRec BY DEF ConnInv
<1>1. new.link = "up" /\ new.done = k.done /\ ExcusedBy(new, stopping) = ExcusedBy(k, stopping)
  BY <1>0 DEF ConnRec, ExcusedBy
<1>2. Set(c, new) /\ req' = req /\ stopping' = stopping /\ k.link = "none" BY DEF Dial, orVars
<1> HIDE DEF k, new
<1>3. /\ Lines' = [Lines EXCEPT ![c] = new.link] /\ Asks' = Asks
      /\ conn'[c] = new /\ \A d \in Conns : d # c => conn'[d] = conn[d]
  BY <1>2, ConnShows
<1>4. Draining' = Draining BY <1>1, <1>3 DEF Draining, k
<1>5. Excused' = Excused BY <1>1, <1>2, <1>3 DEF Excused, k
<1>6. Lines[c] = "none" BY <1>2 DEF Lines, k
<1> HIDE DEF Lines, Draining, Excused, Asks
<1>7. Drain!Open(c) BY <1>1, <1>3, <1>4, <1>5, <1>6 DEF Drain!Open
<1> QED BY <1>7 DEF Drain!Next

\* The transport is lost.
LEMMA LoseRefines ==
    ASSUME ConnInv, NEW c \in Conns, Lost(c)
    PROVE  Drain!Next
<1> DEFINE k == conn[c]
           new == [k EXCEPT !.link = "lost", !.done = TRUE]
<1>0. k \in ConnRec BY DEF ConnInv
<1>1. new.link = "lost" /\ new.done /\ ExcusedBy(new, stopping) = ExcusedBy(k, stopping)
  BY <1>0 DEF ConnRec, ExcusedBy
<1>2. Set(c, new) /\ req' = req /\ stopping' = stopping /\ k.link = "up" BY DEF Lost, orVars
<1> HIDE DEF k, new
<1>3. /\ Lines' = [Lines EXCEPT ![c] = new.link] /\ Asks' = Asks
      /\ conn'[c] = new /\ \A d \in Conns : d # c => conn'[d] = conn[d]
  BY <1>2, ConnShows
<1>4. Draining' = Draining \union {c} BY <1>1, <1>3 DEF Draining
<1>5. Excused' = Excused BY <1>1, <1>2, <1>3 DEF Excused, k
<1>6. Lines[c] = "up" BY <1>2 DEF Lines, k
<1> HIDE DEF Lines, Draining, Excused, Asks
<1>7. Drain!Lose(c) BY <1>1, <1>3, <1>4, <1>5, <1>6 DEF Drain!Lose
<1> QED BY <1>7 DEF Drain!Next

\* cloudflared closes the connection: of HTTP/2 after the wait, after which
\* only late requests are active, of QUIC for one of its reasons.
LEMMA CloseRefines ==
    ASSUME ConnInv, ReqInv, NEW c \in Conns, NEW new \in ConnRec, Set(c, new), req' = req, stopping' = stopping,
           conn[c].link = "up", new.link = "closed", conn[c].done, new.done,
           conn[c].proto = "http2" => conn[c].waited,
           ExcusedBy(new, stopping) = ExcusedBy(conn[c], stopping)
    PROVE  Drain!Next
<1>1. /\ Lines' = [Lines EXCEPT ![c] = new.link] /\ Asks' = Asks
      /\ conn'[c] = new /\ \A d \in Conns : d # c => conn'[d] = conn[d]
  BY ConnShows
<1>2. Draining' = Draining /\ c \in Draining BY <1>1 DEF Draining
<1>3. Excused' = Excused BY <1>1 DEF Excused
<1>4. Lines[c] = "up" BY DEF Lines
<1>5. conn[c] \in ConnRec /\ ConnOK(conn[c], stopping) BY DEF ConnInv
<1>6. CASE conn[c].proto = "quic"
  <2>1. c \in Excused BY <1>5, <1>6 DEF ConnOK, Excused, ExcusedBy
  <2> HIDE DEF Lines, Draining, Excused, Asks
  <2>2. Drain!Close(c) BY <1>1, <1>2, <1>3, <1>4, <2>1 DEF Drain!Close
  <2> QED BY <2>2 DEF Drain!Next
<1>7. CASE conn[c].proto = "http2"
  <2>1. ASSUME NEW r \in Reqs, Asks[r].at = "active", Asks[r].on = c PROVE Asks[r].late
    <3>1. req[r].at = "active" /\ req[r].conn = c /\ Asks[r].late = req[r].late BY <2>1 DEF Asks, View
    <3>2. ReqOK(req[r], conn[c]) BY <3>1 DEF ReqInv
    <3> QED BY <1>7, <3>1, <3>2 DEF ReqOK
  <2> HIDE DEF Lines, Draining, Excused, Asks
  <2>2. Drain!Close(c) BY <1>1, <1>2, <1>3, <1>4, <2>1 DEF Drain!Close
  <2> QED BY <2>2 DEF Drain!Next
<1> QED BY <1>5, <1>6, <1>7 DEF ConnRec

\* The steps of the control stream.
LEMMA ControlRefines ==
    ASSUME ConnInv, NEW c \in Conns,
           \/ DialFails(c) \/ OpenControlStream(c) \/ Registered(c)
           \/ \E e \in RegErrors : RegisterFails(c, e)
           \/ ControlStep(c) \/ OtherRoutineFails(c)
    PROVE  Drain!Next
<1> DEFINE k == conn[c]
<1>0. k \in ConnRec BY DEF ConnInv
<1>1. req' = req /\ stopping' = stopping
  BY DEF DialFails, OpenControlStream, Registered, RegisterFails, ControlStep, PushConfig, SendLocalConfiguration,
         WaitForUnregister, GracefulShutdown, UnregisterFails, GraceOver, OtherRoutineFails, orVars
<1>2. ASSUME NEW new \in ConnRec, Set(c, new), new.link = k.link, Forward(k, new) PROVE Drain!Next
  BY <1>1, <1>2, NoticeRefines
<1>3. CASE DialFails(c)
  <2> DEFINE new == [k EXCEPT !.result = "dial"]
  <2>1. new \in ConnRec BY <1>0 DEF ConnRec
  <2>3. new.link = k.link /\ Forward(k, new) BY <1>0 DEF ConnRec, Forward
  <2>2. Set(c, new) BY <1>3 DEF DialFails
  <2> HIDE DEF new
  <2> QED BY <1>2, <2>1, <2>2, <2>3
<1>4. ASSUME NEW x \in {"registering", "pushing", "sending", "registered", "unregistering"},
             Set(c, [conn[c] EXCEPT !.control = x])
      PROVE  Drain!Next
  <2> DEFINE new == [k EXCEPT !.control = x]
  <2>1. new \in ConnRec BY <1>0 DEF ConnRec
  <2>3. new.link = k.link /\ Forward(k, new) BY <1>0 DEF ConnRec, Forward
  <2>2. Set(c, new) BY <1>4
  <2> HIDE DEF new
  <2> QED BY <1>2, <2>1, <2>2, <2>3
<1>5. CASE OpenControlStream(c) \/ Registered(c) \/ PushConfig(c) \/ SendLocalConfiguration(c)
  BY <1>4, <1>5 DEF OpenControlStream, Registered, PushConfig, SendLocalConfiguration
<1>6. ASSUME NEW e \in {"nil", "dup", "permanent", "retry", "rpc", "ctx"}, Set(c, ControlReturns(c, conn[c], e))
      PROVE  Drain!Next
  <2> DEFINE new == ControlReturns(c, k, e)
  <2>1. new \in ConnRec BY ControlReturnsOK
  <2>2. new.link = k.link /\ Forward(k, new) BY <1>0 DEF ConnRec, Forward, ControlReturns
  <2>3. Set(c, new) BY <1>6
  <2> HIDE DEF new
  <2> QED BY <1>2, <2>1, <2>2, <2>3
<1>7. CASE (\E e \in RegErrors : RegisterFails(c, e)) \/ GracefulShutdown(c) \/ UnregisterFails(c)
  BY <1>6, <1>7 DEF RegErrors, RegisterFails, GracefulShutdown, UnregisterFails
<1>8. CASE WaitForUnregister(c)
  <2> DEFINE new == [k EXCEPT !.control = "unregistering", !.stopped = TRUE]
  <2>1. new \in ConnRec BY <1>0 DEF ConnRec
  <2>3. new.link = k.link /\ Forward(k, new) BY <1>0 DEF ConnRec, Forward
  <2>2. Set(c, new) \/ Set(c, [conn[c] EXCEPT !.control = "unregistering"]) BY <1>8 DEF WaitForUnregister
  <2> HIDE DEF new
  <2> QED BY <1>2, <1>4, <2>1, <2>2, <2>3
<1>9. CASE GraceOver(c)
  <2> DEFINE new == [k EXCEPT !.control = "returned", !.done = TRUE, !.waited = TRUE]
  <2>1. new \in ConnRec BY <1>0 DEF ConnRec
  <2>3. new.link = k.link /\ Forward(k, new) BY <1>0 DEF ConnRec, Forward
  <2>2. Set(c, new) BY <1>9 DEF GraceOver
  <2> HIDE DEF new
  <2> QED BY <1>2, <2>1, <2>2, <2>3
<1>10. CASE OtherRoutineFails(c)
  <2> DEFINE new == [k EXCEPT !.done = TRUE, !.err = IF @ = "none" THEN "other" ELSE @]
  <2>1. new \in ConnRec BY <1>0 DEF ConnRec
  <2>3. new.link = k.link /\ Forward(k, new) BY <1>0 DEF ConnRec, Forward
  <2>2. Set(c, new) BY <1>10 DEF OtherRoutineFails
  <2> HIDE DEF new
  <2> QED BY <1>2, <2>1, <2>2, <2>3
<1> QED BY <1>3, <1>5, <1>7, <1>8, <1>9, <1>10 DEF ControlStep

\* The end of Serve.
LEMMA ServeRefines ==
    ASSUME ConnInv, ReqInv, NEW c \in Conns, ServeStep(c)
    PROVE  Drain!Next
<1> DEFINE k == conn[c]
<1>0. k \in ConnRec /\ ConnOK(k, stopping) BY DEF ConnInv
<1>1. req' = req /\ stopping' = stopping BY DEF ServeStep, H2Waited, H2Close, H2Ends, QuicEnds, orVars
<1>2. ASSUME NEW new \in ConnRec, Set(c, new), new.link = k.link, Forward(k, new) PROVE Drain!Next
  BY <1>1, <1>2, NoticeRefines
<1>3. CASE H2Waited(c)
  <2> DEFINE new == [k EXCEPT !.waited = TRUE]
  <2>1. new \in ConnRec /\ new.link = k.link /\ Forward(k, new) BY <1>0 DEF ConnRec, Forward
  <2>2. Set(c, new) BY <1>3 DEF H2Waited
  <2> HIDE DEF new
  <2> QED BY <1>2, <2>1, <2>2
<1>4. CASE H2Close(c)
  <2> DEFINE new == [k EXCEPT !.link = "closed"]
  <2>1. /\ new \in ConnRec /\ new.link = "closed" /\ new.done = k.done
        /\ ExcusedBy(new, stopping) = ExcusedBy(k, stopping)
    BY <1>0 DEF ConnRec, ExcusedBy
  <2>2. Set(c, new) /\ k.link = "up" /\ k.waited /\ k.proto = "http2" BY <1>0, <1>4 DEF H2Close, IsQUIC, ConnRec
  <2>3. k.done BY <1>0, <2>2 DEF ConnOK
  <2> HIDE DEF new
  <2> QED BY <1>1, <2>1, <2>2, <2>3, CloseRefines
<1>5. CASE H2Ends(c)
  <2> DEFINE new == [k EXCEPT !.result = H2Result(k), !.done = TRUE]
  <2>1. H2Result(k) \in {"nil", "lost", "dup", "permanent", "retry", "rpc", "ctx", "other"}
    BY <1>0 DEF H2Result, ConnRec
  <2>2. new \in ConnRec BY <1>0, <2>1 DEF ConnRec
  <2>3. new.link = k.link /\ Forward(k, new) BY <1>0 DEF ConnRec, Forward
  <2>4. Set(c, new) BY <1>5 DEF H2Ends
  <2> HIDE DEF new
  <2> QED BY <1>2, <2>2, <2>3, <2>4
<1>6. CASE QuicEnds(c)
  <2> DEFINE y == IF k.err = "none" THEN "control" ELSE k.err
  <2>1. y \in {"control", "dup", "permanent", "retry", "rpc", "ctx", "other"} BY <1>0 DEF ConnRec
  <2>2. k.proto = "quic" /\ k.done BY <1>6 DEF QuicEnds, IsQUIC
  <2>3. CASE k.link = "up"
    <3> DEFINE new == [k EXCEPT !.result = y, !.link = "closed"]
    <3>1. Set(c, new) BY <1>6, <2>3 DEF QuicEnds
    <3> HIDE DEF y
    <3>2. new \in ConnRec /\ new.link = "closed" /\ new.done = k.done BY <1>0, <2>1 DEF ConnRec
    <3>3. ExcusedBy(new, stopping) = ExcusedBy(k, stopping) BY <1>0 DEF ConnRec, ExcusedBy
    <3> HIDE DEF new
    <3> QED BY <1>1, <2>2, <2>3, <3>1, <3>2, <3>3, CloseRefines
  <2>4. CASE k.link # "up"
    <3> DEFINE new == [k EXCEPT !.result = y]
    <3>1. Set(c, [k EXCEPT !.result = y, !.link = k.link]) BY <1>6, <2>4 DEF QuicEnds
    <3> HIDE DEF y
    <3>2. new = [k EXCEPT !.result = y, !.link = k.link] BY <1>0 DEF ConnRec
    <3>3. new \in ConnRec BY <1>0, <2>1 DEF ConnRec
    <3>4. new.link = k.link /\ Forward(k, new) BY <1>0 DEF ConnRec, Forward
    <3> HIDE DEF new
    <3> QED BY <1>2, <3>1, <3>2, <3>3, <3>4
  <2> QED BY <2>3, <2>4
<1> QED BY <1>3, <1>4, <1>5, <1>6 DEF ServeStep

\* What a step of one request shows.
LEMMA RequestShows ==
    ASSUME ReqInv, NEW r \in Reqs, NEW q, req' = [req EXCEPT ![r] = q], conn' = conn, stopping' = stopping
    PROVE  /\ UNCHANGED <<Lines, Draining, Excused>>
           /\ Asks' = [Asks EXCEPT ![r] = View(q)] /\ Asks[r] = View(req[r])
<1>1. UNCHANGED <<Lines, Draining, Excused>> BY DEF Lines, Draining, Excused, ExcusedBy
<1>2. req'[r] = q /\ \A s \in Reqs : s # r => req'[s] = req[s] BY DEF ReqInv
<1>3. Asks' = [Asks EXCEPT ![r] = View(q)] BY <1>2 DEF Asks, View
<1>4. Asks[r] = View(req[r]) BY DEF Asks
<1> QED BY <1>1, <1>3, <1>4

\* Requests arrive, are answered, end, fail and are cut.
LEMMA RequestRefines ==
    ASSUME ConnInv, ReqInv, NEW r \in Reqs,
           \/ \E c \in Conns, k \in {"http", "stream"} : ServeHTTP(r, c, k) \/ AcceptStream(r, c, k)
           \/ WriteRespHeaders(r) \/ WriteConnectResponse(r)
           \/ RequestFails(r) \/ RequestEnds(r) \/ Cut(r)
    PROVE  Drain!Next
<1> DEFINE old == req[r]
<1>0. old \in ReqRec /\ (old.at = "active" => old.conn \in Conns) BY DEF ReqInv
<1>1. ASSUME NEW c \in Conns, NEW k \in {"http", "stream"}, Arrives(r, c, k) PROVE Drain!Next
  <2> DEFINE q == [at |-> "active", conn |-> c, kind |-> k, answers |-> 0, late |-> conn[c].done]
  <2>1. req' = [req EXCEPT ![r] = q] /\ conn' = conn /\ stopping' = stopping /\ conn[c].link = "up" /\ old.at = "none"
    BY <1>1 DEF Arrives, orVars
  <2>2. conn[c].done = (c \in Draining)
    <3>1. conn[c].done \in BOOLEAN BY DEF ConnInv, ConnRec
    <3> QED BY <3>1 DEF Draining
  <2>3. View(q) = [at |-> "active", on |-> c, answers |-> 0, late |-> c \in Draining] BY <2>2 DEF View
  <2> HIDE DEF q
  <2>4. /\ UNCHANGED <<Lines, Draining, Excused>>
        /\ Asks' = [Asks EXCEPT ![r] = View(q)] /\ Asks[r] = View(old)
    BY <2>1, RequestShows
  <2>5. Lines[c] = "up" BY <2>1 DEF Lines
  <2>6. Asks[r].at = "none" BY <2>1, <2>4 DEF View
  <2> HIDE DEF Lines, Draining, Excused, Asks
  <2>7. Drain!Arrive(r, c) BY <2>3, <2>4, <2>5, <2>6 DEF Drain!Arrive
  <2> QED BY <2>7 DEF Drain!Next
<1>2. ASSUME Responds(r) PROVE Drain!Next
  <2> DEFINE q == [old EXCEPT !.answers = 1]
  <2>1. req' = [req EXCEPT ![r] = q] /\ conn' = conn /\ stopping' = stopping /\ old.at = "active" /\ old.answers = 0
    BY <1>2 DEF Responds, orVars
  <2>2. View(q) = [View(old) EXCEPT !.answers = 1] BY <1>0 DEF View, ReqRec
  <2> HIDE DEF q
  <2>3. /\ UNCHANGED <<Lines, Draining, Excused>>
        /\ Asks' = [Asks EXCEPT ![r] = View(q)] /\ Asks[r] = View(old)
    BY <2>1, RequestShows
  <2>4. Asks[r].at = "active" /\ Asks[r].answers = 0 BY <2>1, <2>3 DEF View
  <2>5. Asks' = [Asks EXCEPT ![r].answers = 1] BY <2>2, <2>3
  <2> HIDE DEF Lines, Draining, Excused, Asks
  <2>6. Drain!Begin(r) BY <2>3, <2>4, <2>5 DEF Drain!Begin
  <2> QED BY <2>6 DEF Drain!Next
<1>3. CASE RequestFails(r)
  <2> DEFINE q == [old EXCEPT !.answers = 1, !.at = IF old.answers = 0 THEN "done" ELSE "reset"]
  <2>1. req' = [req EXCEPT ![r] = q] /\ conn' = conn /\ stopping' = stopping /\ old.at = "active"
    BY <1>3 DEF RequestFails, orVars, ReqInv
  <2>2. View(q) = [View(old) EXCEPT !.answers = 1, !.at = IF old.answers = 0 THEN "done" ELSE "reset"]
    <3> DEFINE x == IF old.answers = 0 THEN "done" ELSE "reset"
    <3> HIDE DEF x, old
    <3>1. q.at = x /\ q.conn = old.conn /\ q.answers = 1 /\ q.late = old.late BY <1>0 DEF ReqRec, x
    <3>2. View(q) = [at |-> x, on |-> old.conn, answers |-> 1, late |-> old.late] BY <3>1 DEF View
    <3> DEFINE v == View(old)
               w == [v EXCEPT !.answers = 1]
    <3>3. w = [at |-> old.at, on |-> old.conn, answers |-> 1, late |-> old.late] BY DEF View
    <3> HIDE DEF v, w
    <3>4. [w EXCEPT !.at = x] = [at |-> x, on |-> old.conn, answers |-> 1, late |-> old.late] BY <3>3
    <3>5. [v EXCEPT !.answers = 1, !.at = x] = [w EXCEPT !.at = x] BY DEF w
    <3> QED BY <3>2, <3>4, <3>5 DEF x, v
  <2> HIDE DEF q
  <2>3. /\ UNCHANGED <<Lines, Draining, Excused>>
        /\ Asks' = [Asks EXCEPT ![r] = View(q)] /\ Asks[r] = View(old)
    BY <2>1, RequestShows
  <2>4. Asks[r].at = "active" /\ Asks[r].answers = old.answers BY <2>1, <2>3 DEF View
  <2>5. Asks' = [Asks EXCEPT ![r].answers = 1, ![r].at = IF Asks[r].answers = 0 THEN "done" ELSE "reset"]
    BY <2>2, <2>3, <2>4 DEF Asks
  <2> HIDE DEF Lines, Draining, Excused, Asks
  <2>6. Drain!Fail(r) BY <2>3, <2>4, <2>5 DEF Drain!Fail
  <2> QED BY <2>6 DEF Drain!Next
<1>4. CASE RequestEnds(r)
  <2> DEFINE q == [old EXCEPT !.at = "done"]
  <2>1. req' = [req EXCEPT ![r] = q] /\ conn' = conn /\ stopping' = stopping /\ old.at = "active" /\ old.answers = 1
    BY <1>4 DEF RequestEnds, orVars
  <2>2. View(q) = [View(old) EXCEPT !.at = "done"] BY <1>0 DEF View, ReqRec
  <2> HIDE DEF q
  <2>3. /\ UNCHANGED <<Lines, Draining, Excused>>
        /\ Asks' = [Asks EXCEPT ![r] = View(q)] /\ Asks[r] = View(old)
    BY <2>1, RequestShows
  <2>4. Asks[r].at = "active" /\ Asks[r].answers = 1 BY <2>1, <2>3 DEF View
  <2>5. Asks' = [Asks EXCEPT ![r].at = "done"] BY <2>2, <2>3
  <2> HIDE DEF Lines, Draining, Excused, Asks
  <2>6. Drain!End(r) BY <2>3, <2>4, <2>5 DEF Drain!End
  <2> QED BY <2>6 DEF Drain!Next
<1>5. CASE Cut(r)
  <2> DEFINE q == [old EXCEPT !.at = "cut"]
  <2>1. /\ req' = [req EXCEPT ![r] = q] /\ conn' = conn /\ stopping' = stopping
        /\ old.at = "active" /\ conn[old.conn].link # "up"
    BY <1>5 DEF Cut, orVars
  <2>2. View(q) = [View(old) EXCEPT !.at = "cut"] BY <1>0 DEF View, ReqRec
  <2> HIDE DEF q
  <2>3. /\ UNCHANGED <<Lines, Draining, Excused>>
        /\ Asks' = [Asks EXCEPT ![r] = View(q)] /\ Asks[r] = View(old)
    BY <2>1, RequestShows
  <2>4. Asks[r].at = "active" /\ Asks[r].on = old.conn BY <2>1, <2>3 DEF View
  <2>5. Asks' = [Asks EXCEPT ![r].at = "cut"] BY <2>2, <2>3
  <2>6. Lines[Asks[r].on] # "up" BY <1>0, <2>1, <2>4 DEF Lines
  <2> HIDE DEF Lines, Draining, Excused, Asks
  <2>7. Drain!Cut(r) BY <2>3, <2>4, <2>5, <2>6 DEF Drain!Cut
  <2> QED BY <2>7 DEF Drain!Next
<1> QED BY <1>1, <1>2, <1>3, <1>4, <1>5 DEF ServeHTTP, AcceptStream, WriteRespHeaders, WriteConnectResponse

\* The end of the server's context is a notice to all connections.
LEMMA CancelRefines ==
    ASSUME ConnInv, Cancel
    PROVE  Drain!Next
<1>1. stopping' = TRUE /\ req' = req /\ \A c \in Conns : conn'[c] = [conn[c] EXCEPT !.done = TRUE] BY DEF Cancel
<1>2. \A c \in Conns : /\ conn'[c].link = conn[c].link /\ conn'[c].done /\ conn'[c].proto = conn[c].proto
                       /\ conn'[c].waited = conn[c].waited /\ conn'[c].err = conn[c].err
  <2> TAKE c \in Conns
  <2>1. conn[c] \in ConnRec /\ conn'[c] = [conn[c] EXCEPT !.done = TRUE] BY <1>1 DEF ConnInv
  <2> QED BY <2>1 DEF ConnRec
<1>3. Lines' = Lines BY <1>2 DEF Lines
<1>4. Asks' = Asks BY <1>1 DEF Asks, View
<1>5. Draining' = Draining \union Draining' BY <1>2 DEF Draining
<1>6. Excused' = Excused \union Excused' BY <1>1, <1>2 DEF Excused, ExcusedBy
<1>7. Draining' \in SUBSET Conns /\ Excused' \in SUBSET Conns BY DEF Draining, Excused
<1> HIDE DEF Lines, Draining, Excused, Asks
<1>8. Drain!Notice(Draining', Excused') BY <1>3, <1>4, <1>5, <1>6 DEF Drain!Notice
<1> QED BY <1>7, <1>8 DEF Drain!Next

\* Every step maps to a step of ConnectionDrain or changes nothing in it.
LEMMA NextRefines ==
    ASSUME Inv, [Next]_vars
    PROVE  Drain!Next \/ Stutters
<1> USE DEF Inv
<1>1. ASSUME UNCHANGED <<conn, req, stopping>> PROVE Stutters
  BY <1>1 DEF Stutters, Lines, Draining, Excused, ExcusedBy, Asks, View
<1>2. CASE UNCHANGED vars \/ Shutdown BY <1>1, <1>2 DEF vars, orVars, Shutdown
<1>3. CASE Cancel BY <1>3, CancelRefines
<1>4. CASE Orchestrate
  <2>1. stopping' = stopping
    BY <1>4 DEF Orchestrate, OrStep, SetLimits, StoreProxy, ClosePrevious, CloseLastProxy
  <2> QED BY <1>1, <1>4, <2>1 DEF Orchestrate
<1>5. ASSUME NEW c \in Conns, NEW v \in Versions, PushedConfig(c, v) PROVE Stutters
  <2>1. stopping' = stopping
    BY <1>5 DEF PushedConfig, OrUpdate, OldVersion, Refuse, StartFails, StartOrigins, orVars
  <2> QED BY <1>1, <1>5, <2>1 DEF PushedConfig
<1>6. ASSUME NEW c \in Conns,
             \/ DialFails(c) \/ OpenControlStream(c) \/ Registered(c)
             \/ \E e \in RegErrors : RegisterFails(c, e)
             \/ ControlStep(c) \/ OtherRoutineFails(c)
      PROVE  Drain!Next
  BY <1>6, ControlRefines
<1>7. ASSUME NEW c \in Conns, Dial(c) PROVE Drain!Next BY <1>7, OpenRefines
<1>8. ASSUME NEW c \in Conns, Lost(c) PROVE Drain!Next BY <1>8, LoseRefines
<1>9. ASSUME NEW c \in Conns, ServeStep(c) PROVE Drain!Next BY <1>9, ServeRefines
<1>10. ASSUME NEW r \in Reqs,
              \/ \E c \in Conns, k \in {"http", "stream"} : ServeHTTP(r, c, k) \/ AcceptStream(r, c, k)
              \/ WriteRespHeaders(r) \/ WriteConnectResponse(r)
              \/ RequestFails(r) \/ RequestEnds(r) \/ Cut(r)
       PROVE  Drain!Next
  BY <1>10, RequestRefines
<1> HIDE DEF Inv, Stutters
<1> QED BY <1>2, <1>3, <1>4, <1>5, <1>6, <1>7, <1>8, <1>9, <1>10 DEF Next

\* For any number of connections and requests every behaviour of the process is,
\* to the edge, one of ConnectionDrain: HTTP2Connection.close and
\* quicConnection.Serve end a connection only as it promises.
THEOREM DrainRefined == Spec => ImplementsDrain
<1>1. Inv /\ [Next]_vars => [Drain!Next]_(Drain!vars) BY NextRefines DEF Stutters, Drain!vars
<1> QED BY <1>1, InitRefines, InitInv, NextInv, PTL DEF Spec, Drain!Spec, ImplementsDrain
=============================================================================
