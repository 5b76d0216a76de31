----------------------------- MODULE ProxyProofs -----------------------------
(***************************************************************************)
(* Proofs about what the proxy does with a stream, a rule and a datagram.  *)
(*                                                                         *)
(* No frame is written after the handler of a WebSocket stream returned    *)
(* (OriginStreams): the write lock belongs to the one writer that is       *)
(* inside a Write, and a connection that is done was marked so while       *)
(* nobody held the lock.  The rule that serves a request is the first one  *)
(* that matches it, and is the same after the migration of a configuration *)
(* to the edge (IngressRules).  Every datagram of version 3 that can be    *)
(* written is read back as it was (FlowDatagrams).                         *)
(***************************************************************************)
EXTENDS OriginStreams, IngressRules, FlowDatagrams, SequenceTheorems, WellFoundedInduction, TLAPS

StreamSpec == StreamInit /\ [][StreamNext]_streamVars

\* The handler before the pinger of a WebSocket starts, and after it.
Early == {"start", "dial", "ack", "stream"}
Late == {"socks", "request", "address", "connect", "refuse", "accept", "pipe", "close", "return", "done"}

\* The lock names exactly the goroutine that is writing; only a WebSocket has
\* one, and it is free once the connection is done.
LockOwned ==
    /\ WS => (down = "write" <=> lock = "down")
    /\ pinger = "write" <=> lock = "ping"
    /\ ~WS => pinger = "off" /\ lock = "free"
    /\ done => lock = "free"

\* The pinger runs from the start of the stream, so that a handler behind that
\* point that returns went through Conn.Close.
PingerStarted ==
    /\ main \in Early => pinger = "off" /\ down = "off"
    /\ (WS /\ pinger = "off") => main \in Early \union {"return", "done"}
    /\ (pinger # "off" /\ main \in {"return", "done"}) => done

StreamInv ==
    /\ StreamTypeOK
    /\ main \in Early \union Late
    /\ LockOwned /\ PingerStarted

\* Nothing runs at first.
LEMMA StreamInitInv == StreamInit => StreamInv
BY DEF StreamInit, StreamInv, StreamTypeOK, LockOwned, PingerStarted, Early, Late, WS, Over

\* Every step of the handler, the goroutines and the pinger keeps the owner of
\* the lock and the order of start and close.
LEMMA StreamStepInv == StreamInv /\ [StreamNext]_streamVars => StreamInv'
<1> SUFFICES ASSUME StreamInv, [StreamNext]_streamVars PROVE StreamInv'  OBVIOUS
<1> USE DEF StreamInv, StreamTypeOK, LockOwned, PingerStarted, Early, Late, WS, Over
<1>1. CASE ProxyTCP  BY <1>1 DEF ProxyTCP, HandlerOnly
<1>2. CASE ProxyHTTP  BY <1>2 DEF ProxyHTTP, HandlerOnly
<1>3. CASE EstablishConnection  BY <1>3 DEF EstablishConnection, HandlerOnly
<1>4. CASE AckConnection  BY <1>4 DEF AckConnection, HandlerOnly
<1>5. CASE Stream  BY <1>5 DEF Stream, Socks
<1>6. CASE SocksAuth \/ SocksRequest \/ ReadAddrSpec \/ HandleConnect
  BY <1>6 DEF SocksAuth, SocksRequest, ReadAddrSpec, HandleConnect, HandlerOnly
<1>7. CASE SendReply  BY <1>7 DEF SendReply
<1>8. CASE PipeReturns  BY <1>8 DEF PipeReturns, HandlerOnly, Socks
<1>9. CASE ConnClose  BY <1>9 DEF ConnClose, HandlerOnly
<1>10. CASE HandlerReturns  BY <1>10 DEF HandlerReturns, HandlerOnly
<1>11. CASE CloseStream \/ TunnelLost  BY <1>11 DEF CloseStream, TunnelLost
<1>12. CASE UpRead \/ UpReadFails \/ UpPong \/ UpWrite
  BY <1>12 DEF UpRead, UpReadFails, UpPong, UpWrite, UpStep
<1>13. CASE DownRead \/ DownReadFails  BY <1>13 DEF DownRead, DownReadFails, DownStep
<1>14. CASE DownLock  BY <1>14 DEF DownLock, DownStep
<1>15. CASE DownWrite \/ DownWriteFails  BY <1>15 DEF DownWrite, DownWriteFails, DownStep, Unlock
<1>16. CASE PingTick \/ PingerStops \/ Ping  BY <1>16 DEF PingTick, PingerStops, Ping, PingStep
<1>17. CASE PingWritten \/ PingFails  BY <1>17 DEF PingWritten, PingFails, PingStep, Unlock
<1>18. CASE UNCHANGED streamVars  BY <1>18 DEF streamVars
<1> QED  BY <1>1, <1>2, <1>3, <1>4, <1>5, <1>6, <1>7, <1>8, <1>9, <1>10, <1>11, <1>12, <1>13, <1>14, <1>15,
            <1>16, <1>17, <1>18 DEF StreamNext

\* Whatever the two peers do and however the goroutines are scheduled, when the
\* handler of a WebSocket stream has returned, no frame of Conn.Write or of the
\* pinger is being written and none can follow.
THEOREM StreamSafe == StreamSpec => []NoLateFrame
<1>1. StreamInv => NoLateFrame
  BY DEF StreamInv, StreamTypeOK, LockOwned, PingerStarted, NoLateFrame, WS
<1> QED  BY <1>1, StreamInitInv, StreamStepInv, PTL DEF StreamSpec

\* Only private TCP takes a slot, after it was started; the handler that has
\* taken none yet has no origin either.
HeldInv ==
    /\ main = "start" => origin = "none" /\ ~slot
    /\ NothingHeld

\* For every kind of stream a handler that returned has closed its origin and
\* given its slot back, and nothing that still runs takes either again.
THEOREM StreamLeavesNothing == StreamSpec => []NothingHeld
<1>1. StreamInit => HeldInv BY DEF StreamInit, HeldInv, NothingHeld
<1>2. HeldInv /\ [StreamNext]_streamVars => HeldInv'
  <2> SUFFICES ASSUME HeldInv, [StreamNext]_streamVars PROVE HeldInv' OBVIOUS
  <2> USE DEF HeldInv, NothingHeld
  <2>1. CASE UNCHANGED <<main, origin, slot>> BY <2>1
  <2>2. CASE ProxyTCP \/ ProxyHTTP BY <2>2 DEF ProxyTCP, ProxyHTTP
  <2>3. CASE EstablishConnection \/ AckConnection BY <2>3 DEF EstablishConnection, AckConnection
  <2>4. CASE Stream \/ SocksAuth \/ SocksRequest \/ ReadAddrSpec
    BY <2>4 DEF Stream, SocksAuth, SocksRequest, ReadAddrSpec
  <2>5. CASE HandleConnect \/ SendReply BY <2>5 DEF HandleConnect, SendReply
  <2>6. CASE PipeReturns \/ ConnClose \/ HandlerReturns BY <2>6 DEF PipeReturns, ConnClose, HandlerReturns
  <2>7. CASE \/ CloseStream \/ TunnelLost \/ UpRead \/ UpReadFails \/ UpPong \/ UpWrite
             \/ DownRead \/ DownReadFails \/ DownLock \/ DownWrite \/ DownWriteFails
             \/ PingTick \/ PingerStops \/ Ping \/ PingWritten \/ PingFails \/ UNCHANGED streamVars
    <3>1. UNCHANGED <<main, origin, slot>>
      BY <2>7 DEF CloseStream, TunnelLost, UpRead, UpReadFails, UpPong, UpWrite, UpStep,
         DownRead, DownReadFails, DownLock, DownWrite, DownWriteFails, DownStep,
         PingTick, PingerStops, Ping, PingWritten, PingFails, PingStep, streamVars
    <3> QED BY <2>1, <3>1
  <2> QED BY <2>2, <2>3, <2>4, <2>5, <2>6, <2>7 DEF StreamNext
<1>3. HeldInv => NothingHeld BY DEF HeldInv
<1> QED BY <1>1, <1>2, <1>3, PTL DEF StreamSpec
-----------------------------------------------------------------------------
(* Ingress rules *)

IngressSpec == IngressInit /\ [][IngressNext]_ingressVars

\* What Reverse returns.
LEMMA ReverseSeq ==
  ASSUME NEW S, NEW s \in Seq(S)
  PROVE  /\ Reverse(s) \in Seq(S) /\ Len(Reverse(s)) = Len(s)
         /\ \A i \in 1 .. Len(s) : Reverse(s)[i] = s[(Len(s) - i) + 1]
<1>1. Reverse(s) \in [1 .. Len(s) -> S] BY DEF Reverse
<1>2. Len(s) \in Nat OBVIOUS
<1>3. Reverse(s) \in Seq(S) BY <1>1, <1>2
<1>4. DOMAIN Reverse(s) = 1 .. Len(s) BY <1>1
<1>5. Len(Reverse(s)) = Len(s) BY <1>2, <1>3, <1>4
<1> QED BY <1>3, <1>5 DEF Reverse

\* IsSuffix, label by label.
LEMMA SuffixMeans ==
  ASSUME NEW S, NEW s \in Seq(S), NEW T, NEW t \in Seq(T)
  PROVE  IsSuffix(s, t) <=> /\ Len(s) <= Len(t)
                            /\ \A i \in 1 .. Len(s) : s[i] = t[(Len(t) - Len(s)) + i]
<1> DEFINE a == Reverse(s)
           b == Reverse(t)
           n == Len(s)
           m == Len(t)
<1>1. /\ a \in Seq(S) /\ Len(a) = n /\ \A i \in 1 .. n : a[i] = s[(n - i) + 1]
  BY ReverseSeq
<1>2. /\ b \in Seq(T) /\ Len(b) = m /\ \A i \in 1 .. m : b[i] = t[(m - i) + 1]
  BY ReverseSeq
<1>3. n \in Nat /\ m \in Nat OBVIOUS
<1> HIDE DEF a, b, n, m
<1>4. IsSuffix(s, t) <=> n <= m /\ SubSeq(a, 1, n) = SubSeq(b, 1, n)
  BY <1>1, <1>2 DEF IsSuffix, IsPrefix, a, b
<1>5. ASSUME n <= m
      PROVE  SubSeq(a, 1, n) = SubSeq(b, 1, n) <=> \A i \in 1 .. n : a[i] = b[i]
  <2>1. SubSeq(a, 1, n) \in Seq(S) /\ Len(SubSeq(a, 1, n)) = n /\ \A i \in 1 .. n : SubSeq(a, 1, n)[i] = a[i]
    BY <1>1, <1>3
  <2>2. SubSeq(b, 1, n) \in Seq(T) /\ Len(SubSeq(b, 1, n)) = n /\ \A i \in 1 .. n : SubSeq(b, 1, n)[i] = b[i]
    BY <1>2, <1>3, <1>5
  <2> DEFINE u == SubSeq(a, 1, n)
             v == SubSeq(b, 1, n)
  <2> HIDE DEF u, v
  <2>3. u = v <=> \A i \in 1 .. n : u[i] = v[i]
    <3>1. u = [i \in 1 .. n |-> u[i]] /\ v = [i \in 1 .. n |-> v[i]]  BY <2>1, <2>2, <1>3 DEF u, v
    <3> QED BY <3>1
  <2> QED BY <2>1, <2>2, <2>3 DEF u, v
<1>6. ASSUME n <= m
      PROVE  (\A i \in 1 .. n : a[i] = b[i]) <=> (\A i \in 1 .. n : s[i] = t[(m - n) + i])
  <2>1. ASSUME \A i \in 1 .. n : a[i] = b[i], NEW i \in 1 .. n PROVE s[i] = t[(m - n) + i]
    <3>1. (n - i) + 1 \in 1 .. n /\ (n - i) + 1 \in 1 .. m BY <1>3, <1>6
    <3>2. (n - ((n - i) + 1)) + 1 = i /\ (m - ((n - i) + 1)) + 1 = (m - n) + i BY <1>3
    <3>3. a[(n - i) + 1] = s[i] BY <1>1, <3>1, <3>2
    <3>4. b[(n - i) + 1] = t[(m - n) + i] BY <1>2, <3>1, <3>2
    <3> QED BY <2>1, <3>1, <3>3, <3>4
  <2>2. ASSUME \A i \in 1 .. n : s[i] = t[(m - n) + i], NEW i \in 1 .. n PROVE a[i] = b[i]
    <3>1. (n - i) + 1 \in 1 .. n /\ i \in 1 .. m BY <1>3, <1>6
    <3>2. (m - n) + ((n - i) + 1) = (m - i) + 1 BY <1>3
    <3>3. a[i] = s[(n - i) + 1] /\ b[i] = t[(m - i) + 1] BY <1>1, <1>2, <3>1
    <3>4. s[(n - i) + 1] = t[(m - n) + ((n - i) + 1)] BY <2>2, <3>1
    <3> QED BY <3>2, <3>3, <3>4
  <2> QED BY <2>1, <2>2
<1> QED BY <1>4, <1>5, <1>6 DEF n, m

\* A least element exists and is what Min returns.
LEMMA MinIsLeast ==
  ASSUME NEW S \in SUBSET Nat, S # {}
  PROVE  Min(S) \in S /\ \A y \in S : Min(S) =< y
<1> DEFINE R == OpToRel(<, Nat)
<1>1. \E x \in S : \A y \in S : ~(<<y, x>> \in R)
  <2>1. IsWellFoundedOn(R, Nat) BY NatLessThanWellFounded
  <2> HIDE DEF R
  <2> QED BY <2>1, WFMin
<1>2. \E x \in S : \A y \in S : x =< y
  <2>1. \A x, y \in Nat : y < x => <<y, x>> \in R BY DEF OpToRel
  <2> HIDE DEF R
  <2>2. PICK x \in S : \A y \in S : ~(<<y, x>> \in R) BY <1>1
  <2>3. \A y \in S : ~(y < x) BY <2>1, <2>2
  <2> QED BY <2>3
<1> QED BY <1>2 DEF Min

\* The name below a domain: matchHost's comparison of suffixes finds exactly
\* the hosts that have the domain below at least one label of their own.
LEMMA WildcardMeans ==
  ASSUME NEW S, NEW name \in Seq(S), NEW T, NEW host \in Seq(T), Len(name) > 1, name[1] = Star
  PROVE  (IsSuffix(Tail(name), host) /\ Len(host) >= Len(name)) <=>
            \E k \in 1 .. Len(host) - 1 : name = <<Star>> \o SubSeq(host, k + 1, Len(host))
<1> DEFINE n == Len(name)
           m == Len(host)
           rest == Tail(name)
<1>1. n \in Nat /\ m \in Nat /\ n > 1 OBVIOUS
<1>2. rest \in Seq(S) /\ Len(rest) = n - 1 /\ \A i \in 1 .. n - 1 : rest[i] = name[i + 1] OBVIOUS
<1> HIDE DEF rest
<1>3. IsSuffix(rest, host) <=> n - 1 <= m /\ \A i \in 1 .. n - 1 : rest[i] = host[(m - (n - 1)) + i]
  <2>1. IsSuffix(rest, host) <=> /\ Len(rest) <= Len(host)
                                 /\ \A i \in 1 .. Len(rest) : rest[i] = host[(Len(host) - Len(rest)) + i]
    BY <1>2, SuffixMeans
  <2> QED BY <1>2, <2>1
<1>4. ASSUME IsSuffix(rest, host), m >= n
      PROVE  \E k \in 1 .. m - 1 : name = <<Star>> \o SubSeq(host, k + 1, m)
  <2> DEFINE k == (m - n) + 1
             tail == SubSeq(host, k + 1, m)
             whole == <<Star>> \o tail
  <2>1. k \in 1 .. m - 1 BY <1>1, <1>4
  <2>2. tail \in Seq(T) /\ Len(tail) = n - 1 /\ \A i \in 1 .. n - 1 : tail[i] = host[k + i]
    <3>1. k + 1 \in 1 .. m + 1 BY <1>1, <1>4
    <3> HIDE DEF k
    <3>2. tail \in Seq(T) /\ Len(tail) = m - k /\ \A i \in 1 .. m - k : tail[i] = host[(k + 1) + i - 1]
      BY <1>1, <2>1, <3>1
    <3>3. \A i \in 1 .. m - k : (k + 1) + i - 1 = k + i BY <1>1, <2>1
    <3>4. m - k = n - 1 BY <1>1 DEF k
    <3> QED BY <3>2, <3>3, <3>4
  <2>3. \A i \in 1 .. n - 1 : name[i + 1] = tail[i]
    <3>1. \A i \in 1 .. n - 1 : (m - (n - 1)) + i = k + i BY <1>1
    <3> HIDE DEF k, tail
    <3> QED BY <1>2, <1>3, <1>4, <2>2, <3>1
  <2> HIDE DEF k, tail
  <2>4. Len(whole) = n /\ whole[1] = Star /\ \A i \in 1 .. n - 1 : whole[i + 1] = tail[i]
    BY <1>1, <2>2
  <2>5. whole \in Seq(T \union {Star}) BY <2>2
  <2> HIDE DEF whole
  <2>6. \A i \in 1 .. n : i = 1 \/ (i - 1 \in 1 .. n - 1 /\ (i - 1) + 1 = i) BY <1>1
  <2>7. \A i \in 1 .. n : whole[i] = name[i] BY <2>3, <2>4, <2>6
  <2>8. whole = name BY <1>1, <2>4, <2>5, <2>7
  <2> QED BY <2>1, <2>8 DEF whole, tail
<1>5. ASSUME NEW k \in 1 .. m - 1, name = <<Star>> \o SubSeq(host, k + 1, m)
      PROVE  IsSuffix(rest, host) /\ m >= n
  <2> DEFINE tail == SubSeq(host, k + 1, m)
  <2>1. tail \in Seq(T) /\ Len(tail) = m - k /\ \A i \in 1 .. m - k : tail[i] = host[k + i]
    <3>1. tail \in Seq(T) /\ Len(tail) = m - k /\ \A i \in 1 .. m - k : tail[i] = host[(k + 1) + i - 1]
      BY <1>1
    <3>2. \A i \in 1 .. m - k : (k + 1) + i - 1 = k + i BY <1>1
    <3> QED BY <3>1, <3>2
  <2> HIDE DEF tail
  <2>2. n = (m - k) + 1 /\ \A i \in 1 .. m - k : name[i + 1] = tail[i] BY <1>1, <1>5, <2>1 DEF tail
  <2>3. n - 1 = m - k /\ m - (n - 1) = k /\ m >= n /\ n - 1 <= m BY <1>1, <2>2
  <2> QED BY <1>2, <1>3, <2>1, <2>2, <2>3
<1> QED BY <1>4, <1>5 DEF rest

\* A validated rule matches a host exactly when its name in the configuration,
\* a wildcard or not, in unicode or not, covers that host.
LEMMA CoverMeans ==
  ASSUME NEW r, r.host \in Seq(DOMAIN Puny \union {Star}),
         \A j \in 2 .. Len(r.host) : r.host[j] # Star,
         NEW host \in Seq(STRING)
  PROVE  (\/ r.host \in {NoHost, <<Star>>} \/ MatchHost(r.host, host)
          \/ Punycode(r) # NoHost /\ MatchHost(Punycode(r), host)) <=> Covers(r.host, host)
<1> DEFINE name == r.host
           puny == [i \in DOMAIN name |-> Puny[name[i]]]
           below == \E k \in 1 .. Len(host) - 1 : name = <<Star>> \o SubSeq(host, k + 1, Len(host))
<1>1. CASE name \in {NoHost, <<Star>>} BY <1>1 DEF Covers
<1>2. CASE name \notin {NoHost, <<Star>>} /\ name[1] = Star
  <2>1. Len(name) > 1
    <3>1. name # <<>> /\ name # <<Star>> BY <1>2 DEF NoHost
    <3>2. Len(name) \in Nat /\ Len(name) # 0 BY <3>1
    <3>3. Len(name) # 1
      <4> SUFFICES ASSUME Len(name) = 1 PROVE FALSE OBVIOUS
      <4>1. name = <<Star>> BY <1>2
      <4> QED BY <3>1, <4>1
    <3> DEFINE l == Len(name)
    <3>4. l \in Nat /\ l # 0 /\ l # 1 BY <3>2, <3>3
    <3> HIDE DEF l
    <3>5. l > 1 BY <3>4
    <3> QED BY <3>5 DEF l
  <2>2. Star \in Range(name) BY <1>2, <2>1 DEF Range
  <2>3. Punycode(r) = NoHost BY <2>2 DEF Punycode
  <2>4. (IsSuffix(Tail(name), host) /\ Len(host) >= Len(name)) <=> below
    BY <1>2, <2>1, WildcardMeans
  <2>5. name = host => below
    <3> SUFFICES ASSUME name = host PROVE below OBVIOUS
    <3>1. 1 \in 1 .. Len(host) - 1 BY <2>1
    <3> DEFINE whole == <<Star>> \o SubSeq(host, 1 + 1, Len(host))
    <3>2. whole = name BY <1>2, <2>1
    <3> QED BY <3>1, <3>2
  <2>6. MatchHost(name, host) <=> below BY <1>2, <2>1, <2>4, <2>5 DEF MatchHost
  <2> QED BY <1>2, <2>2, <2>3, <2>6 DEF Covers
<1>3. CASE name \notin {NoHost, <<Star>>} /\ name[1] # Star
  <2>1. Len(name) \in Nat /\ Len(name) # 0 /\ DOMAIN name = 1 .. Len(name) BY <1>3 DEF NoHost
  <2>2. \A i \in DOMAIN name : name[i] # Star /\ name[i] \in DOMAIN Puny
    <3>1. \A i \in 1 .. Len(name) : i = 1 \/ i \in 2 .. Len(name) BY <2>1
    <3> QED BY <1>3, <2>1, <3>1
  <2>3. Star \notin Range(name) BY <2>2 DEF Range
  <2>4. ~below
    <3>1. ASSUME NEW k \in 1 .. Len(host) - 1, name = <<Star>> \o SubSeq(host, k + 1, Len(host)) PROVE FALSE
      <4> DEFINE tail == SubSeq(host, k + 1, Len(host))
      <4>1. tail \in Seq(STRING) OBVIOUS
      <4> HIDE DEF tail
      <4>2. (<<Star>> \o tail)[1] = Star BY <4>1
      <4> QED BY <1>3, <3>1, <4>2 DEF tail
    <3> QED BY <3>1
  <2>5. MatchHost(name, host) <=> host = name BY <1>3 DEF MatchHost
  <2>6. puny # NoHost /\ puny[1] # Star
    <3>1. 1 \in DOMAIN name /\ DOMAIN puny = DOMAIN name BY <2>1
    <3>2. puny # <<>> BY <3>1
    <3>3. puny[1] = Puny[name[1]] /\ name[1] \in DOMAIN Puny BY <2>2, <3>1
    <3>4. puny[1] # Star BY <3>3, RulesAssumption DEF Range
    <3> QED BY <3>2, <3>4 DEF NoHost
  <2>7. MatchHost(puny, host) <=> host = puny BY <2>6 DEF MatchHost
  <2>8. Punycode(r) = IF puny = name THEN NoHost ELSE puny
    BY <1>3, <2>3 DEF Punycode, IsCatchAll
  <2> HIDE DEF puny, below
  <2>9. Covers(name, host) <=> host \in {name, puny}
    BY <1>3, <2>3, <2>4 DEF Covers, puny, below
  <2> QED BY <1>3, <2>5, <2>6, <2>7, <2>8, <2>9
<1> QED BY <1>1, <1>2, <1>3

\* A configuration that is in use was validated: its rules are those of the
\* file, each of which is valid.
Validated ==
    /\ given.rules # <<>> => given \in Files
    /\ stage = "local" /\ given.rules # <<>> =>
          LET top == SetConfig(Default, given.top) IN
          /\ local = ValidateIngress(given.rules, top)
          /\ \A i \in DOMAIN given.rules : ValidRule(given.rules, i, top)

\* FindMatchingRule on validated rules returns the first one that covers the
\* request, and there is one: the last rule catches all.
LEMMA FirstCovers ==
  ASSUME Validated, stage = "local", given.rules # <<>>, NEW q \in Requests
  PROVE  LET i == FindMatchingRule(local, q)
             Serves(j) == Covers(given.rules[j].host, q.host) /\ PathMatches(given.rules[j], q.path)
         IN  \/ i = -1 /\ q.host = Management
             \/ i \in DOMAIN local /\ Serves(i) /\ \A j \in 1 .. i - 1 : ~Serves(j)
<1> DEFINE rules == given.rules
           top == SetConfig(Default, given.top)
           Serves(j) == Covers(rules[j].host, q.host) /\ PathMatches(rules[j], q.path)
           S == {j \in DOMAIN local : Matches(local[j], q.host, q.path)}
           n == Len(rules)
<1>1. given \in Files /\ local = ValidateIngress(rules, top)
      /\ \A i \in DOMAIN rules : ValidRule(rules, i, top)
  BY DEF Validated
<1>2. /\ rules \in Seq(Range(rules)) /\ q.host \in Seq(STRING)
      /\ \A i \in DOMAIN rules : rules[i].host \in Seq(DOMAIN Puny \union {Star})
  BY <1>1, RulesAssumption
<1>3. n \in Nat /\ n # 0 /\ DOMAIN rules = 1 .. n /\ DOMAIN local = 1 .. n
  BY <1>1, <1>2 DEF ValidateIngress
<1>4. ASSUME NEW j \in 1 .. n PROVE Matches(local[j], q.host, q.path) <=> Serves(j)
  <2>1. local[j] = ValidateRule(rules[j], top) BY <1>1, <1>3 DEF ValidateIngress
  <2>2. local[j].host = rules[j].host /\ local[j].puny = Punycode(rules[j]) /\ local[j].path = rules[j].path
    BY <2>1 DEF ValidateRule
  <2>3. \A k \in 2 .. Len(rules[j].host) : rules[j].host[k] # Star
    BY <1>1, <1>3 DEF ValidRule, ValidHostname
  <2>4. (\/ rules[j].host \in {NoHost, <<Star>>} \/ MatchHost(rules[j].host, q.host)
         \/ Punycode(rules[j]) # NoHost /\ MatchHost(Punycode(rules[j]), q.host))
            <=> Covers(rules[j].host, q.host)
    BY <1>2, <1>3, <2>3, CoverMeans
  <2> QED BY <2>2, <2>4 DEF Matches, PathMatches
<1>5. n \in S
  <2>1. n \in 1 .. n BY <1>3
  <2>2. IsCatchAll(rules[n]) BY <1>1, <1>3, <2>1 DEF ValidRule, ValidHostname
  <2>3. Serves(n) BY <2>2 DEF IsCatchAll, Covers, PathMatches
  <2> HIDE DEF Serves
  <2> QED BY <1>3, <1>4, <2>1, <2>3
<1>6. S \in SUBSET Nat /\ S # {} BY <1>3, <1>5
<1>7. MatchHost(Management, q.host) => q.host = Management
  <2>1. Management[1] # Star \/ ~(Len(Management) > 1) BY RulesAssumption DEF Range
  <2> QED BY <2>1 DEF MatchHost
<1>8. FindMatchingRule(local, q) = IF MatchHost(Management, q.host) THEN -1 ELSE Min(S)
  BY <1>6 DEF FindMatchingRule
<1> DEFINE m == Min(S)
<1>9. m \in S /\ \A y \in S : m =< y BY <1>6, MinIsLeast
<1> HIDE DEF m, Serves
<1>10. m \in DOMAIN local /\ Serves(m) /\ \A j \in 1 .. m - 1 : ~Serves(j)
  <2>1. m \in 1 .. n /\ Serves(m) BY <1>3, <1>4, <1>9
  <2>2. ASSUME NEW j \in 1 .. m - 1, Serves(j) PROVE FALSE
    <3>1. j \in 1 .. n /\ ~(m =< j) BY <1>3, <2>1
    <3>2. j \in S BY <1>3, <1>4, <2>2, <3>1
    <3> QED BY <1>9, <3>1, <3>2
  <2> QED BY <1>3, <2>1, <2>2
<1> QED BY <1>7, <1>8, <1>10 DEF m, Serves

\* For any configuration file and any request, FindMatchingRule chooses the
\* first rule whose name and path cover the request.
THEOREM IngressSafe == IngressSpec => []FirstRuleServes
<1>1. IngressInit => Validated BY DEF IngressInit, Validated
<1>2. Validated /\ [IngressNext]_ingressVars => Validated'
  <2> SUFFICES ASSUME Validated, [IngressNext]_ingressVars PROVE Validated'
    OBVIOUS
  <2>1. CASE Load
    <3> DEFINE top == SetConfig(Default, given.top)
    <3>1. given' = given BY <2>1 DEF Load
    <3>2. stage' = "local" => /\ local' = ValidateIngress(given.rules, top)
                              /\ \A i \in DOMAIN given.rules : ValidRule(given.rules, i, top)
      BY <2>1 DEF Load
    <3> QED BY <3>1, <3>2 DEF Validated
  <2>2. CASE LoadFlags BY <2>2 DEF LoadFlags, Validated
  <2>3. CASE Migrate BY <2>3 DEF Migrate, Validated
  <2>4. CASE UNCHANGED ingressVars BY <2>4 DEF ingressVars, Validated
  <2> QED BY <2>1, <2>2, <2>3, <2>4 DEF IngressNext
<1>3. Validated => FirstRuleServes BY FirstCovers DEF FirstRuleServes
<1> QED BY <1>1, <1>2, <1>3, PTL DEF IngressSpec

\* What a rule in use has, wherever it comes from, that its migration relies
\* on; plain says that its validator and policy are those of its options.
Exempt == {"unix", "status", "badstatus", "hello", "socks"}
Portable(l, plain) ==
    /\ l = [host |-> l.host, puny |-> l.puny, path |-> l.path, service |-> l.service,
            jwt |-> l.jwt, policy |-> l.policy, cfg |-> l.cfg]
    /\ l.cfg = [o \in Options |-> l.cfg[o]] /\ \A o \in Options : l.cfg[o] # "unset"
    /\ l.puny = Punycode(l)
    /\ \A j \in 2 .. Len(l.host) : l.host[j] # Star
    /\ l.path # {"badRegexp"} /\ l.service \notin {"badstatus", "badurl"}
    /\ l.service = "bastion" => l.cfg["bastion"] = "on"
    /\ l.service \notin Exempt \union {"bastion"} => l.cfg["bastion"] # "on"
    /\ l.service = "socks" => l.cfg["ipRules"] # "bad"
    /\ plain => /\ l.jwt = (l.cfg["access"] = "required")
                /\ l.service = "socks" => l.policy = (IF l.cfg["ipRules"] = "zero" THEN "unset" ELSE l.cfg["ipRules"])
                /\ l.service # "socks" => l.policy = "none"

\* ConvertToRawOriginConfig and setConfig give back what an option was, the
\* Access section apart.
LEMMA OptionsKept ==
  ASSUME NEW c, \A o \in Options : c[o] # "unset"
  PROVE  LET own == ConvertToRawOriginConfig(c)
             new == SetConfig(Default, own)
         IN  /\ \A o \in Options \ {"access"} : new[o] = c[o]
             /\ new = [o \in Options |-> new[o]]
             /\ own["access"] # "noTeam" /\ (own["access"] = "required" <=> c["access"] = "required")
             /\ own["ipRules"] = IF c["ipRules"] = "zero" THEN "unset" ELSE c["ipRules"]
BY DEF SetConfig, ConvertToRawOriginConfig, Default, Options

\* The rule r that migration sends for the rule l passes the checks of a
\* configuration, and new, what these make of it, matches what l matches.
Migrated(l, r, new, plain) ==
    /\ ServiceOf(r, SetConfig(Default, r.own)) \notin {"badstatus", "badurl"}
    /\ r.service = "socks" => r.own["ipRules"] # "bad"
    /\ r.own["access"] # "noTeam" /\ r.path # {"badRegexp"} /\ ~r.port
    /\ \A j \in 2 .. Len(r.host) : r.host[j] # Star
    /\ IsCatchAll(r) <=> IsCatchAll(l)
    /\ new.host = l.host /\ new.puny = l.puny /\ new.path = l.path
    /\ plain => [new EXCEPT !.cfg["access"] = "-"] = [l EXCEPT !.cfg["access"] = "-"]

\* A rule that is in use is valid when it comes back from the edge, and the
\* same as before.
LEMMA Migrates ==
  ASSUME NEW l, NEW plain \in BOOLEAN, Portable(l, plain)
  PROVE  Migrated(l, Unvalidated(l), ValidateRule(Unvalidated(l), Default), plain)
<1> DEFINE r == Unvalidated(l)
           own == ConvertToRawOriginConfig(l.cfg)
           cfg == SetConfig(Default, own)
           new == ValidateRule(r, Default)
<1>1. /\ \A o \in Options \ {"access"} : cfg[o] = l.cfg[o]
      /\ cfg = [o \in Options |-> cfg[o]]
      /\ own["access"] # "noTeam" /\ (own["access"] = "required" <=> l.cfg["access"] = "required")
      /\ own["ipRules"] = IF l.cfg["ipRules"] = "zero" THEN "unset" ELSE l.cfg["ipRules"]
  BY OptionsKept DEF Portable
<1>2. r.host = l.host /\ r.port = FALSE /\ r.path = l.path /\ r.service = l.service /\ r.own = own
  BY DEF Unvalidated
<1>3. Options = {"timeout", "header", "bastion", "ipRules", "access"} BY DEF Options
<1> HIDE DEF r, own, cfg
<1>4. cfg["bastion"] = l.cfg["bastion"] BY <1>1, <1>3
<1>5. ServiceOf(r, cfg) = l.service BY <1>2, <1>4 DEF ServiceOf, Portable, Exempt
<1>6. (IsCatchAll(r) <=> IsCatchAll(l)) /\ Punycode(r) = l.puny
  BY <1>2 DEF IsCatchAll, Punycode, Portable
<1>7. SetConfig(Default, r.own) = cfg BY <1>2 DEF cfg
<1> DEFINE full == IF l.service = "bastion" THEN [cfg EXCEPT !["bastion"] = "on"] ELSE cfg
           policy == IF l.service = "socks" THEN own["ipRules"] ELSE "none"
           jwt == own["access"] = "required"
<1>8. new = [host |-> l.host, puny |-> l.puny, path |-> l.path, service |-> l.service,
             jwt |-> jwt, policy |-> policy, cfg |-> full]
  BY <1>2, <1>5, <1>6, <1>7 DEF ValidateRule
<1>9. full = [o \in Options |-> full[o]] /\ \A o \in Options \ {"access"} : full[o] = l.cfg[o]
  <2>1. CASE l.service = "bastion" BY <1>1, <1>3, <2>1 DEF Portable
  <2>2. CASE l.service # "bastion" BY <1>1, <2>2
  <2> QED BY <2>1, <2>2
<1> HIDE DEF full
<1>10. [full EXCEPT !["access"] = "-"] = [l.cfg EXCEPT !["access"] = "-"]
  BY <1>9 DEF Portable
<1>11. ASSUME plain PROVE [new EXCEPT !.cfg["access"] = "-"] = [l EXCEPT !.cfg["access"] = "-"]
  <2>1. jwt = l.jwt
    <3>1. l.jwt = (l.cfg["access"] = "required") BY <1>11 DEF Portable
    <3> QED BY <1>1, <3>1
  <2>2. policy = l.policy BY <1>1, <1>11 DEF Portable
  <2> HIDE DEF jwt, policy
  <2> DEFINE c == [l.cfg EXCEPT !["access"] = "-"]
  <2>3. l = [host |-> l.host, puny |-> l.puny, path |-> l.path, service |-> l.service,
             jwt |-> l.jwt, policy |-> l.policy, cfg |-> l.cfg]
    BY DEF Portable
  <2>4. [l EXCEPT !.cfg["access"] = "-"] =
           [host |-> l.host, puny |-> l.puny, path |-> l.path, service |-> l.service,
            jwt |-> l.jwt, policy |-> l.policy, cfg |-> c]
    BY <2>3
  <2>5. [new EXCEPT !.cfg["access"] = "-"] =
           [host |-> l.host, puny |-> l.puny, path |-> l.path, service |-> l.service,
            jwt |-> jwt, policy |-> policy, cfg |-> [full EXCEPT !["access"] = "-"]]
    BY <1>8
  <2> QED BY <1>10, <2>1, <2>2, <2>4, <2>5
<1>12. new.host = l.host /\ new.puny = l.puny /\ new.path = l.path BY <1>8
<1>13. l.service = "socks" => own["ipRules"] # "bad" BY <1>1 DEF Portable
<1> HIDE DEF new
<1>14. Migrated(l, r, new, plain)
  BY <1>1, <1>2, <1>5, <1>6, <1>7, <1>11, <1>12, <1>13 DEF Migrated, r, Portable
<1> QED BY <1>14 DEF r, new

\* The options that the validator and the policy of a rule leave out.
PlainTop == given.top["access"] = "unset" /\ given.top["ipRules"] = "unset"

\* A valid rule of a file becomes a rule that can be migrated.
LEMMA FileRulePortable ==
  ASSUME NEW f \in Files, NEW i \in DOMAIN f.rules, ValidRule(f.rules, i, SetConfig(Default, f.top))
  PROVE  Portable(ValidateRule(f.rules[i], SetConfig(Default, f.top)),
                  f.top["access"] = "unset" /\ f.top["ipRules"] = "unset")
<1> DEFINE r == f.rules[i]
           top == SetConfig(Default, f.top)
           cfg == SetConfig(top, r.own)
           service == ServiceOf(r, cfg)
           l == ValidateRule(r, top)
           full == IF service = "bastion" THEN [cfg EXCEPT !["bastion"] = "on"] ELSE cfg
           policy == IF service = "socks" THEN r.own["ipRules"] ELSE "none"
           jwt == r.own["access"] = "required"
           plain == f.top["access"] = "unset" /\ f.top["ipRules"] = "unset"
<1>1. /\ service \notin {"badstatus", "badurl"} /\ (r.service = "socks" => r.own["ipRules"] # "bad")
      /\ r.own["access"] # "noTeam" /\ r.path # {"badRegexp"}
      /\ \A j \in 2 .. Len(r.host) : r.host[j] # Star
  BY DEF ValidRule, ValidHostname
<1>2. f.top["ipRules"] # "bad" /\ r.own["ipRules"] # "zero" BY RulesAssumption
<1>3. /\ cfg = [o \in Options |-> cfg[o]] /\ \A o \in Options : cfg[o] # "unset"
      /\ cfg["access"] = IF r.own["access"] # "unset" THEN r.own["access"]
                         ELSE IF f.top["access"] # "unset" THEN f.top["access"] ELSE "zero"
      /\ cfg["ipRules"] = IF r.own["ipRules"] # "unset" THEN r.own["ipRules"]
                          ELSE IF f.top["ipRules"] # "unset" THEN f.top["ipRules"] ELSE "zero"
  BY DEF SetConfig, Default, Options
<1>4. l = [host |-> r.host, puny |-> Punycode(r), path |-> r.path, service |-> service,
           jwt |-> jwt, policy |-> policy, cfg |-> full]
  BY DEF ValidateRule
<1>5. /\ service = "socks" => r.service = "socks"
      /\ service = "bastion" \/ service = r.service
      /\ service \notin Exempt \union {"bastion"} => cfg["bastion"] # "on"
  BY DEF ServiceOf, Exempt
<1>6. "bastion" \in Options /\ "access" \in Options /\ "ipRules" \in Options BY DEF Options
<1> HIDE DEF r, top, cfg, service, l
<1>7. /\ full = [o \in Options |-> full[o]] /\ \A o \in Options : full[o] # "unset"
      /\ full["access"] = cfg["access"] /\ full["ipRules"] = cfg["ipRules"]
      /\ service = "bastion" => full["bastion"] = "on"
      /\ service # "bastion" => full["bastion"] = cfg["bastion"]
  <2>1. CASE service = "bastion" BY <1>3, <1>6, <2>1
  <2>2. CASE service # "bastion" BY <1>3, <2>2
  <2> QED BY <2>1, <2>2
<1> HIDE DEF full
<1>8. Punycode(l) = Punycode(r) BY <1>4 DEF Punycode, IsCatchAll
<1>9. plain => /\ jwt = (full["access"] = "required")
               /\ service = "socks" => policy = (IF full["ipRules"] = "zero" THEN "unset" ELSE full["ipRules"])
               /\ service # "socks" => policy = "none"
  BY <1>2, <1>3, <1>7
<1>10. service = "socks" => full["ipRules"] # "bad" BY <1>1, <1>2, <1>3, <1>5, <1>7
<1>11. service \notin Exempt \union {"bastion"} => full["bastion"] # "on" BY <1>5, <1>7
<1> HIDE DEF jwt, policy, plain
<1>12. /\ l.host = r.host /\ l.puny = Punycode(r) /\ l.path = r.path /\ l.service = service
       /\ l.jwt = jwt /\ l.policy = policy /\ l.cfg = full
  BY <1>4
<1>13. Portable(l, plain)
  BY <1>1, <1>4, <1>7, <1>8, <1>9, <1>10, <1>11, <1>12 DEF Portable
<1> QED BY <1>13 DEF l, r, top, plain

\* A rule without a host name that has no Access and no IP rules.
Single(l, service, cfg) ==
    /\ l = [host |-> NoHost, puny |-> NoHost, path |-> AnyPath, jwt |-> FALSE, policy |-> "none",
            service |-> service, cfg |-> cfg]
    /\ cfg = [o \in Options |-> cfg[o]] /\ \A o \in Options : cfg[o] # "unset"
    /\ cfg["access"] = "zero" /\ service \notin {"socks", "badstatus", "badurl"}
    /\ service = "bastion" => cfg["bastion"] = "on"
    /\ cfg["bastion"] = "on" => service \in Exempt \union {"bastion"}

\* So do the rule from the flags and the one that answers 503.
LEMMA FlagRulePortable ==
  /\ Portable(DefaultOrigin, TRUE)
  /\ \A f \in Flags : f.service # "badurl" => Portable(CLIRule(f), TRUE)
<1>1. ASSUME NEW l, NEW service, NEW cfg, Single(l, service, cfg)
      PROVE  Portable(l, TRUE)
  <2>1. /\ l.host = NoHost /\ l.puny = NoHost /\ l.path = AnyPath /\ l.service = service
        /\ l.jwt = FALSE /\ l.policy = "none" /\ l.cfg = cfg
    BY <1>1 DEF Single
  <2>2. Punycode(l) = NoHost BY <2>1 DEF Punycode, IsCatchAll
  <2>3. AnyPath # {"badRegexp"} BY DEF AnyPath
  <2>4. \A j \in 2 .. Len(l.host) : l.host[j] # Star BY <2>1 DEF NoHost
  <2>5. l.jwt = (l.cfg["access"] = "required") BY <1>1, <2>1 DEF Single
  <2>6. l = [host |-> l.host, puny |-> l.puny, path |-> l.path, service |-> l.service,
             jwt |-> l.jwt, policy |-> l.policy, cfg |-> l.cfg]
    BY <1>1 DEF Single
  <2> QED BY <1>1, <2>1, <2>2, <2>3, <2>4, <2>5, <2>6 DEF Portable, Single
<1>2. Portable(DefaultOrigin, TRUE)
  <2> DEFINE cfg == [o \in Options |-> "zero"]
             f == [service |-> "status", own |-> Unset]
             rule == CLIRule(f)
             l == DefaultOrigin
             service == "status"
  <2>0. rule = [host |-> NoHost, puny |-> NoHost, path |-> AnyPath, jwt |-> FALSE, policy |-> "none",
                service |-> service, cfg |-> SetConfig(Default, Unset)]
    <3>1. f.service = service /\ f.own = Unset OBVIOUS
    <3> HIDE DEF f, service
    <3> QED BY <3>1 DEF CLIRule
  <2>4. l = [rule EXCEPT !.cfg = cfg] BY DEF DefaultOrigin
  <2> HIDE DEF rule
  <2>1. l = [host |-> NoHost, puny |-> NoHost, path |-> AnyPath, jwt |-> FALSE, policy |-> "none",
                         service |-> service, cfg |-> cfg]
    BY <2>0, <2>4
  <2>2. cfg = [o \in Options |-> cfg[o]] /\ (\A o \in Options : cfg[o] # "unset")
        /\ cfg["access"] = "zero" /\ cfg["bastion"] = "zero"
    BY DEF Options
  <2>3. service \notin {"socks", "badstatus", "badurl", "bastion"} OBVIOUS
  <2> HIDE DEF cfg, service, l
  <2>5. Single(l, service, cfg) BY <2>1, <2>2, <2>3 DEF Single
  <2>6. Portable(l, TRUE) BY <1>1, <2>5
  <2> QED BY <2>6 DEF l
<1>3. ASSUME NEW f \in Flags, f.service # "badurl" PROVE Portable(CLIRule(f), TRUE)
  <2> DEFINE cfg == SetConfig(Default, f.own)
  <2>1. CLIRule(f) = [host |-> NoHost, puny |-> NoHost, path |-> AnyPath, jwt |-> FALSE, policy |-> "none",
                      service |-> f.service, cfg |-> cfg]
    BY DEF CLIRule
  <2>2. /\ f.own["access"] = "unset" /\ f.service \notin {"socks", "badstatus"}
        /\ f.service = "bastion" => f.own["bastion"] = "on"
        /\ f.own["bastion"] = "on" => f.service \in {"bastion", "hello"}
    BY RulesAssumption
  <2>3. cfg = [o \in Options |-> cfg[o]] /\ (\A o \in Options : cfg[o] # "unset")
        /\ cfg["access"] = "zero" /\ (cfg["bastion"] = "on" <=> f.own["bastion"] = "on")
    BY <2>2 DEF SetConfig, Default, Options
  <2> DEFINE l == CLIRule(f)
             service == f.service
  <2>4. /\ service \notin {"socks", "badstatus", "badurl"}
        /\ service = "bastion" => cfg["bastion"] = "on"
        /\ cfg["bastion"] = "on" => service \in Exempt \union {"bastion"}
    BY <1>3, <2>2, <2>3 DEF Exempt
  <2>5. l = [host |-> NoHost, puny |-> NoHost, path |-> AnyPath, jwt |-> FALSE, policy |-> "none",
             service |-> service, cfg |-> cfg]
    BY <2>1
  <2> HIDE DEF cfg, l, service
  <2>6. Single(l, service, cfg) BY <2>3, <2>4, <2>5 DEF Single
  <2>7. Portable(l, TRUE) BY <1>1, <2>6
  <2> QED BY <2>7 DEF l
<1> QED BY <1>2, <1>3

\* The rules in use can be migrated, the last one and no other catches all, and
\* the remote rules are those that the edge has sent back.
MigrationInv ==
    /\ given \in Files \/ (\E f \in Flags : given = [rules |-> <<>>, top |-> Unset, flags |-> f])
    /\ stage \in {"raw", "refused"} => local = <<>>
    /\ stage \in {"local", "remote"} =>
          /\ local = [i \in 1 .. Len(local) |-> local[i]] /\ Len(local) \in Nat
          /\ \A i \in 1 .. Len(local) : /\ Portable(local[i], PlainTop)
                                        /\ IsCatchAll(local[i]) <=> i = Len(local)
    /\ stage = "remote" =>
          remote = ValidateIngress([i \in DOMAIN local |-> Unvalidated(local[i])], Default)

\* Migration refuses no rule that is in use.
LEMMA NeverRefused ==
  ASSUME MigrationInv, stage = "local", NEW i \in DOMAIN local
  PROVE  ValidRule([j \in DOMAIN local |-> Unvalidated(local[j])], i, Default)
<1> DEFINE rules == [j \in DOMAIN local |-> Unvalidated(local[j])]
           n == Len(local)
<1>1. DOMAIN local = 1 .. n /\ n \in Nat BY DEF MigrationInv
<1>2. rules[i] = Unvalidated(local[i]) OBVIOUS
<1>3. Len(rules) = n BY <1>1
<1> HIDE DEF rules
<1>4. Portable(local[i], PlainTop) /\ (IsCatchAll(local[i]) <=> i = n) BY <1>1 DEF MigrationInv
<1>5. PlainTop \in BOOLEAN BY DEF PlainTop
<1>6. LET r == Unvalidated(local[i]) IN
      /\ ServiceOf(r, SetConfig(Default, r.own)) \notin {"badstatus", "badurl"}
      /\ r.service = "socks" => r.own["ipRules"] # "bad"
      /\ r.own["access"] # "noTeam" /\ r.path # {"badRegexp"} /\ ~r.port
      /\ \A j \in 2 .. Len(r.host) : r.host[j] # Star
      /\ IsCatchAll(r) <=> IsCatchAll(local[i])
  <2>1. Migrated(local[i], Unvalidated(local[i]), ValidateRule(Unvalidated(local[i]), Default), PlainTop)
    BY <1>4, <1>5, Migrates, Zenon
  <2> QED BY <2>1, Zenon DEF Migrated
<1>7. ValidRule(rules, i, Default) BY <1>2, <1>3, <1>4, <1>6 DEF ValidRule, ValidHostname
<1> QED BY <1>7 DEF rules

\* Loading, from the file or from the flags, gives rules that can be migrated.
LEMMA MigrationStep ==
  ASSUME MigrationInv, [IngressNext]_ingressVars
  PROVE  MigrationInv'
<1>1. CASE Load
  <2> DEFINE top == SetConfig(Default, given.top)
  <2>1. given' = given /\ remote' = remote /\ stage' \in {"local", "refused"} BY <1>1 DEF Load
  <2>2. CASE stage' = "refused"
    <3>1. local' = local /\ stage = "raw" BY <1>1, <2>2 DEF Load
    <3> QED BY <2>1, <2>2, <3>1 DEF MigrationInv
  <2>3. CASE stage' = "local"
    <3>1. /\ given.rules # <<>> /\ local' = ValidateIngress(given.rules, top)
          /\ \A i \in DOMAIN given.rules : ValidRule(given.rules, i, top)
      BY <1>1, <2>3 DEF Load
    <3>2. given \in Files BY <3>1 DEF MigrationInv
    <3>3. given.rules \in Seq(Range(given.rules)) BY <3>2, RulesAssumption
    <3> DEFINE n == Len(given.rules)
    <3>4. n \in Nat /\ DOMAIN given.rules = 1 .. n BY <3>3
    <3>5. local' = [i \in 1 .. n |-> ValidateRule(given.rules[i], top)] BY <3>1, <3>4 DEF ValidateIngress
    <3> HIDE DEF n, top
    <3>6. Len(local') = n /\ local' = [i \in 1 .. n |-> local'[i]] BY <3>4, <3>5
    <3>7. ASSUME NEW i \in 1 .. n PROVE Portable(local'[i], PlainTop) /\ (IsCatchAll(local'[i]) <=> i = n)
      <4>1. local'[i] = ValidateRule(given.rules[i], top) BY <3>5
      <4>2. Portable(local'[i], PlainTop) BY <3>1, <3>2, <3>4, <4>1, FileRulePortable DEF PlainTop, top
      <4>3. IsCatchAll(given.rules[i]) <=> i = n BY <3>1, <3>4 DEF ValidRule, ValidHostname, n
      <4>4. local'[i].host = given.rules[i].host /\ local'[i].path = given.rules[i].path
        BY <4>1 DEF ValidateRule
      <4> QED BY <4>2, <4>3, <4>4 DEF IsCatchAll
    <3>8. PlainTop' = PlainTop BY <2>1 DEF PlainTop
    <3> QED BY <2>1, <2>3, <3>2, <3>4, <3>6, <3>7, <3>8 DEF MigrationInv
  <2> QED BY <2>1, <2>2, <2>3
<1>2. CASE LoadFlags
  <2>1. given' = given /\ remote' = remote /\ stage = "raw" /\ stage' \in {"local", "refused"} BY <1>2 DEF LoadFlags
  <2>2. CASE stage' = "refused"
    <3>1. local' = local BY <1>2, <2>2 DEF LoadFlags
    <3> QED BY <2>1, <2>2, <3>1 DEF MigrationInv
  <2>3. CASE stage' = "local"
    <3>1. PICK l : local' = <<l>> /\ Portable(l, PlainTop) /\ IsCatchAll(l)
      <4>1. given.rules = <<>> BY <1>2 DEF LoadFlags
      <4>2. IsCatchAll(DefaultOrigin) /\ IsCatchAll(CLIRule(given.flags))
        BY DEF IsCatchAll, DefaultOrigin, CLIRule
      <4>3. CASE local' = <<DefaultOrigin>>
        BY <4>2, <4>3, FlagRulePortable DEF Portable
      <4>4. CASE local' = <<CLIRule(given.flags)>> /\ given.flags.service \notin {"none", "badurl"}
        <5>1. given.flags \in Flags BY <4>1, RulesAssumption DEF MigrationInv
        <5>2. Portable(CLIRule(given.flags), TRUE) BY <4>4, <5>1, FlagRulePortable
        <5> QED BY <4>2, <4>4, <5>2 DEF Portable
      <4> QED BY <1>2, <2>3, <4>3, <4>4 DEF LoadFlags
    <3>2. PlainTop' = PlainTop BY <2>1 DEF PlainTop
    <3>3. Len(local') = 1 /\ local' = [i \in 1 .. 1 |-> local'[i]] /\ local'[1] = l BY <3>1
    <3> QED BY <2>1, <2>3, <3>1, <3>2, <3>3 DEF MigrationInv
  <2> QED BY <2>1, <2>2, <2>3
<1>3. CASE Migrate
  <2> DEFINE rules == [i \in DOMAIN local |-> Unvalidated(local[i])]
  <2>1. given' = given /\ local' = local /\ stage = "local" BY <1>3 DEF Migrate
  <2>2. \A i \in DOMAIN local : ValidRule(rules, i, Default) BY <2>1, NeverRefused
  <2>3. DOMAIN rules = DOMAIN local OBVIOUS
  <2> HIDE DEF rules
  <2>4. stage' = "remote" /\ remote' = ValidateIngress(rules, Default) BY <1>3, <2>2, <2>3 DEF Migrate, rules
  <2>5. PlainTop' = PlainTop BY <2>1 DEF PlainTop
  <2> QED BY <2>1, <2>4, <2>5 DEF MigrationInv, rules
<1>4. CASE UNCHANGED ingressVars BY <1>4 DEF ingressVars, MigrationInv, PlainTop
<1> QED BY <1>1, <1>2, <1>3, <1>4 DEF IngressNext

\* A configuration that the edge takes over is never refused and routes and
\* treats every request as before.
THEOREM MigrationKeepsRules == IngressSpec => []SameAfterMigration
<1>1. IngressInit => MigrationInv BY DEF IngressInit, MigrationInv
<1>2. MigrationInv => SameAfterMigration
  <2> SUFFICES ASSUME MigrationInv PROVE SameAfterMigration
    OBVIOUS
  <2>1. stage = "refused" => local = <<>> BY DEF MigrationInv
  <2>2. ASSUME stage = "remote", given.top["access"] = "unset", given.top["ipRules"] = "unset"
        PROVE  /\ \A q \in Requests : FindMatchingRule(remote, q) = FindMatchingRule(local, q)
               /\ \A i \in DOMAIN local :
                     [remote[i] EXCEPT !.cfg["access"] = "-"] = [local[i] EXCEPT !.cfg["access"] = "-"]
    <3> DEFINE n == Len(local)
    <3>1. n \in Nat /\ DOMAIN local = 1 .. n BY <2>2 DEF MigrationInv
    <3>2. PlainTop BY <2>2 DEF PlainTop
    <3>3. remote = [i \in DOMAIN local |-> ValidateRule(Unvalidated(local[i]), Default)]
      BY <2>2 DEF MigrationInv, ValidateIngress
    <3>4. DOMAIN remote = 1 .. n /\ Len(remote) = n BY <3>1, <3>3
    <3>5. ASSUME NEW i \in 1 .. n
          PROVE  /\ remote[i].host = local[i].host /\ remote[i].puny = local[i].puny /\ remote[i].path = local[i].path
                 /\ [remote[i] EXCEPT !.cfg["access"] = "-"] = [local[i] EXCEPT !.cfg["access"] = "-"]
      <4>1. Portable(local[i], TRUE) BY <2>2, <3>2 DEF MigrationInv, Portable
      <4>2. remote[i] = ValidateRule(Unvalidated(local[i]), Default) BY <3>1, <3>3
      <4>3. Migrated(local[i], Unvalidated(local[i]), remote[i], TRUE) BY <4>1, <4>2, Migrates, Zenon
      <4> QED BY <4>3 DEF Migrated
    <3> HIDE DEF n
    <3>6. ASSUME NEW q \in Requests PROVE FindMatchingRule(remote, q) = FindMatchingRule(local, q)
      <4>1. \A i \in 1 .. n : Matches(remote[i], q.host, q.path) <=> Matches(local[i], q.host, q.path)
        BY <3>5 DEF Matches, PathMatches
      <4>2. {i \in DOMAIN remote : Matches(remote[i], q.host, q.path)}
              = {i \in DOMAIN local : Matches(local[i], q.host, q.path)}
        BY <3>1, <3>4, <4>1
      <4> QED BY <3>4, <4>2 DEF FindMatchingRule, n
    <3> QED BY <3>1, <3>5, <3>6
  <2> QED BY <2>1, <2>2 DEF SameAfterMigration
<1> QED BY <1>1, <1>2, MigrationStep, PTL DEF IngressSpec

-----------------------------------------------------------------------------
(* Datagrams of version 3 *)

FlowSpec == FlowInit /\ [][FlowNext]_flowVars

\* What is known of w, the concatenation of a, of length n, and b, of length m.
Joined(w, a, b, n, m) ==
    /\ w \in Seq(Nat) /\ Len(w) = n + m
    /\ \A i \in 1 .. n : w[i] = a[i]
    /\ \A i \in 1 .. m : w[n + i] = b[i]
    /\ SubSeq(w, n + 1, n + m) = b
    /\ \A i, j \in Nat : i >= 1 /\ i <= j /\ j <= n => SubSeq(w, i, j) = SubSeq(a, i, j)

\* Two parts of sequences are equal when their elements are.
LEMMA SameSlice ==
  ASSUME NEW a \in Seq(Nat), NEW b \in Seq(Nat), NEW i \in Nat, NEW j \in Nat,
         i >= 1, i <= j, j <= Len(a), j <= Len(b), \A x \in 1 .. Len(a) : x <= j => b[x] = a[x]
  PROVE  SubSeq(b, i, j) = SubSeq(a, i, j)
<1> DEFINE s == SubSeq(b, i, j)
           t == SubSeq(a, i, j)
<1>1. s \in Seq(Nat) /\ Len(s) = j - i + 1 /\ \A x \in 1 .. (j - i + 1) : s[x] = b[i + x - 1]
  OBVIOUS
<1>2. t \in Seq(Nat) /\ Len(t) = j - i + 1 /\ \A x \in 1 .. (j - i + 1) : t[x] = a[i + x - 1]
  OBVIOUS
<1>3. \A x \in 1 .. (j - i + 1) : i + x - 1 \in 1 .. Len(a) /\ i + x - 1 <= j OBVIOUS
<1> HIDE DEF s, t
<1>4. \A x \in 1 .. Len(s) : s[x] = t[x] BY <1>1, <1>2, <1>3
<1>5. s = t BY <1>1, <1>2, <1>4, SeqEqual
<1> QED BY <1>5 DEF s, t

\* The end of a sequence.
LEMMA EndSlice ==
  ASSUME NEW w \in Seq(Nat), NEW b \in Seq(Nat), NEW n \in Nat, Len(w) = n + Len(b),
         \A i \in 1 .. Len(b) : w[n + i] = b[i]
  PROVE  SubSeq(w, n + 1, n + Len(b)) = b
<1> DEFINE m == Len(b)
           t == SubSeq(w, n + 1, n + m)
<1>1. m \in Nat OBVIOUS
<1>2. t \in Seq(Nat) /\ Len(t) = m /\ \A i \in 1 .. m : t[i] = w[(n + 1) + i - 1]
  <2>1. \A i \in (n + 1) .. (n + m) : w[i] \in Nat BY <1>1, ElementOfSeq
  <2>2. n + 1 \in Int /\ n + m \in Int /\ (n + m) - (n + 1) + 1 = m BY <1>1
  <2> HIDE DEF m
  <2>3. /\ t \in Seq(Nat) /\ Len(t) = IF n + 1 <= n + m THEN (n + m) - (n + 1) + 1 ELSE 0
        /\ \A i \in 1 .. (n + m) - (n + 1) + 1 : t[i] = w[(n + 1) + i - 1]
    BY <2>1, <2>2, SubSeqProperties
  <2> HIDE DEF t
  <2> QED BY <1>1, <2>2, <2>3
<1>3. \A i \in 1 .. m : (n + 1) + i - 1 = n + i BY <1>1
<1> HIDE DEF t
<1>4. \A i \in 1 .. Len(t) : t[i] = b[i] BY <1>2, <1>3
<1>5. t = b BY <1>2, <1>4, SeqEqual
<1> QED BY <1>5 DEF t

LEMMA Join ==
  ASSUME NEW a \in Seq(Nat), NEW b \in Seq(Nat)
  PROVE  Joined(a \o b, a, b, Len(a), Len(b))
<1> DEFINE w == a \o b
<1>1. w \in Seq(Nat) /\ Len(w) = Len(a) + Len(b) /\ (\A i \in 1 .. Len(a) : w[i] = a[i])
      /\ (\A i \in 1 .. Len(b) : w[Len(a) + i] = b[i]) /\ Len(a) \in Nat /\ Len(b) \in Nat
  OBVIOUS
<1> HIDE DEF w
<1>2. SubSeq(w, Len(a) + 1, Len(a) + Len(b)) = b BY <1>1, EndSlice
<1>3. ASSUME NEW i \in Nat, NEW j \in Nat, i >= 1, i <= j, j <= Len(a)
      PROVE  SubSeq(w, i, j) = SubSeq(a, i, j)
  <2>1. j <= Len(w) /\ \A x \in 1 .. Len(a) : x <= j => w[x] = a[x] BY <1>1, <1>3
  <2> QED BY <1>1, <1>3, <2>1, SameSlice
<1>4. Joined(w, a, b, Len(a), Len(b)) BY <1>1, <1>2, <1>3 DEF Joined
<1> QED BY <1>4 DEF w

LEMMA JoinOf ==
  ASSUME NEW a \in Seq(Nat), NEW b \in Seq(Nat), NEW n, NEW m, Len(a) = n, Len(b) = m
  PROVE  Joined(a \o b, a, b, n, m)
BY Join

\* Bytes are numbers.
LEMMA BytesAreNumbers ==
  /\ Bytes \subseteq Nat
  /\ \A s \in Seq(Bytes) : s \in Seq(Nat)
  /\ \A s \in RequestIDs : s \in Seq(Nat) /\ Len(s) = 16
  /\ \A s \in Addresses : s \in Seq(Nat) /\ Len(s) \in {4, 16}
<1>1. Bytes \subseteq Nat BY DEF Bytes
<1>2. \A s \in Seq(Bytes) : s \in Seq(Nat) BY <1>1, SeqMonotonic
<1>3. ASSUME NEW n \in Nat, NEW s \in [1 .. n -> Bytes] PROVE s \in Seq(Nat) /\ Len(s) = n
  <2>1. s \in [1 .. n -> Nat] BY <1>1
  <2> QED BY <2>1
<1> QED BY <1>1, <1>2, <1>3 DEF RequestIDs, Addresses

\* A number of 16 bits survives its two bytes.
LEMMA Uint16Read ==
  ASSUME NEW n \in Words
  PROVE  Uint16(n) \in Seq(Nat) /\ Len(Uint16(n)) = 2 /\ 256 * Uint16(n)[1] + Uint16(n)[2] = n
<1>1. n \div 256 \in Nat /\ n % 256 \in Nat /\ 256 * (n \div 256) + (n % 256) = n
  <2>1. MaxUint16 \in Nat BY DEF MaxUint16
  <2>2. n \in Nat BY <2>1 DEF Words
  <2> QED BY <2>2
<1> QED BY <1>1 DEF Uint16

\* The flags of a registration: IPv6, traced and with a payload.
LEMMA FlagsRead ==
  ASSUME NEW a \in BOOLEAN, NEW b \in BOOLEAN, NEW c \in BOOLEAN, NEW f, f = Bit(a, 1) + Bit(b, 2) + Bit(c, 4)
  PROVE  f \in Nat /\ (Has(f, 1) <=> a) /\ (Has(f, 2) <=> b) /\ (Has(f, 4) <=> c)
<1> USE DEF Bit, Has
<1>1. CASE a /\ b /\ c BY <1>1
<1>2. CASE a /\ b /\ ~c BY <1>2
<1>3. CASE a /\ ~b /\ c BY <1>3
<1>4. CASE a /\ ~b /\ ~c BY <1>4
<1>5. CASE ~a /\ b /\ c BY <1>5
<1>6. CASE ~a /\ b /\ ~c BY <1>6
<1>7. CASE ~a /\ ~b /\ c BY <1>7
<1>8. CASE ~a /\ ~b /\ ~c BY <1>8
<1> QED BY <1>1, <1>2, <1>3, <1>4, <1>5, <1>6, <1>7, <1>8

\* The layout of a registration: where its parts are joined, and what is
\* then read at their places.
RegistrationParts(w, head, u, v, id, addr, rest, n, m) ==
    \E p1, p2, p3, p4 :
        /\ Joined(p1, head, u, 2, 2) /\ Joined(p2, p1, v, 4, 2) /\ Joined(p3, p2, id, 6, 16)
        /\ Joined(p4, p3, addr, 22, n) /\ Joined(w, p4, rest, 22 + n, m)

RegistrationPlaces(w, head, u, v, id, addr, rest, n) ==
    /\ w[1] = head[1] /\ w[2] = head[2] /\ w[3] = u[1] /\ w[4] = u[2] /\ w[5] = v[1] /\ w[6] = v[2]
    /\ SubSeq(w, 7, 22) = id /\ SubSeq(w, 23, 22 + n) = addr /\ SubSeq(w, (22 + n) + 1, Len(w)) = rest

LEMMA RegistrationJoined ==
  ASSUME NEW head \in Seq(Nat), NEW u \in Seq(Nat), NEW v \in Seq(Nat), NEW id \in Seq(Nat),
         NEW addr \in Seq(Nat), NEW rest \in Seq(Nat),
         Len(head) = 2, Len(u) = 2, Len(v) = 2, Len(id) = 16
  PROVE  RegistrationParts(head \o u \o v \o id \o addr \o rest, head, u, v, id, addr, rest, Len(addr), Len(rest))
<1> DEFINE p1 == head \o u
           p2 == p1 \o v
           p3 == p2 \o id
           p4 == p3 \o addr
           w == p4 \o rest
<1>1. Joined(p1, head, u, 2, 2) BY JoinOf
<1>2. p1 \in Seq(Nat) /\ Len(p1) = 4 BY <1>1 DEF Joined
<1> HIDE DEF p1
<1>3. Joined(p2, p1, v, 4, 2) BY <1>2, JoinOf
<1>4. p2 \in Seq(Nat) /\ Len(p2) = 6 BY <1>3 DEF Joined
<1> HIDE DEF p2
<1>5. Joined(p3, p2, id, 6, 16) BY <1>4, JoinOf
<1>6. p3 \in Seq(Nat) /\ Len(p3) = 22 BY <1>5 DEF Joined
<1> HIDE DEF p3
<1>7. Joined(p4, p3, addr, 22, Len(addr)) BY <1>6, JoinOf
<1>8. p4 \in Seq(Nat) /\ Len(p4) = 22 + Len(addr) BY <1>7 DEF Joined
<1> HIDE DEF p4
<1>9. Joined(w, p4, rest, 22 + Len(addr), Len(rest)) BY <1>8, JoinOf
<1> HIDE DEF w
<1>10. RegistrationParts(w, head, u, v, id, addr, rest, Len(addr), Len(rest))
  BY <1>1, <1>3, <1>5, <1>7, <1>9 DEF RegistrationParts
<1>11. w = head \o u \o v \o id \o addr \o rest BY DEF w, p1, p2, p3, p4
<1> QED BY <1>10, <1>11

LEMMA RegistrationLayout ==
  ASSUME NEW w, NEW head, NEW u, NEW v, NEW id, NEW addr, NEW rest, NEW n \in Nat, NEW m \in Nat,
         n > 0, RegistrationParts(w, head, u, v, id, addr, rest, n, m)
  PROVE  RegistrationPlaces(w, head, u, v, id, addr, rest, n)
<1>1. PICK p1, p2, p3, p4 :
        /\ Joined(p1, head, u, 2, 2) /\ Joined(p2, p1, v, 4, 2) /\ Joined(p3, p2, id, 6, 16)
        /\ Joined(p4, p3, addr, 22, n) /\ Joined(w, p4, rest, 22 + n, m)
  BY DEF RegistrationParts
<1>2. Len(w) = (22 + n) + m BY <1>1 DEF Joined
<1>3. \A i \in 1 .. 6 : w[i] = p2[i]
  <2>1. \A i \in 1 .. 6 : p3[i] = p2[i] BY <1>1 DEF Joined
  <2>2. \A i \in 1 .. 22 : p4[i] = p3[i] BY <1>1 DEF Joined
  <2>3. \A i \in 1 .. 22 : w[i] = p4[i]
    <3>1. \A i \in 1 .. 22 : i \in 1 .. (22 + n) OBVIOUS
    <3>2. \A i \in 1 .. (22 + n) : w[i] = p4[i] BY <1>1 DEF Joined
    <3> QED BY <3>1, <3>2
  <2> QED BY <2>1, <2>2, <2>3
<1>4. w[1] = head[1] /\ w[2] = head[2] /\ w[3] = u[1] /\ w[4] = u[2] /\ w[5] = v[1] /\ w[6] = v[2]
  <2>1. p1[1] = head[1] /\ p1[2] = head[2] /\ p1[3] = u[1] /\ p1[4] = u[2] BY <1>1 DEF Joined
  <2>2. (\A i \in 1 .. 4 : p2[i] = p1[i]) /\ p2[5] = v[1] /\ p2[6] = v[2] BY <1>1 DEF Joined
  <2> QED BY <1>3, <2>1, <2>2
<1>5. 22 + n \in Nat /\ 22 <= 22 + n OBVIOUS
<1>6. \A i, j \in Nat : i >= 1 /\ i <= j /\ j <= 22 + n => SubSeq(w, i, j) = SubSeq(p4, i, j)
  BY <1>1 DEF Joined
<1>7. SubSeq(w, 7, 22) = id
  <2>1. SubSeq(p3, 7, 22) = id BY <1>1 DEF Joined
  <2>2. SubSeq(p4, 7, 22) = SubSeq(p3, 7, 22) BY <1>1 DEF Joined
  <2>3. 7 \in Nat /\ 22 \in Nat /\ 7 >= 1 /\ 7 <= 22 OBVIOUS
  <2>4. SubSeq(w, 7, 22) = SubSeq(p4, 7, 22) BY <1>5, <1>6, <2>3, Zenon
  <2> QED BY <2>1, <2>2, <2>4
<1>8. SubSeq(w, 23, 22 + n) = addr
  <2>1. SubSeq(p4, 23, 22 + n) = addr BY <1>1 DEF Joined
  <2>2. 23 \in Nat /\ 23 >= 1 /\ 23 <= 22 + n /\ 22 + n <= 22 + n OBVIOUS
  <2>3. SubSeq(w, 23, 22 + n) = SubSeq(p4, 23, 22 + n) BY <1>5, <1>6, <2>2, Zenon
  <2> QED BY <2>1, <2>3
<1>9. SubSeq(w, (22 + n) + 1, Len(w)) = rest BY <1>1, <1>2 DEF Joined
<1> QED BY <1>4, <1>7, <1>8, <1>9 DEF RegistrationPlaces

\* What is read from the bytes of a registration d with an address of n bytes.
RegistrationBytes(w, d, flags, n) ==
    /\ w[1] = 0 /\ w[2] = flags /\ ReadUint16(w, 3) = d.port /\ ReadUint16(w, 5) = d.idle
    /\ SubSeq(w, 7, 22) = d.id /\ SubSeq(w, 23, 22 + n) = d.addr /\ SubSeq(w, (22 + n) + 1, Len(w)) = d.payload
    /\ (Has(flags, 1) <=> n = 16) /\ (Has(flags, 2) <=> d.traced) /\ (Has(flags, 4) <=> d.payload # <<>>)

LEMMA RegistrationFields ==
  ASSUME NEW w, NEW d, NEW flags, NEW n \in {4, 16}, d.traced \in BOOLEAN, RegistrationBytes(w, d, flags, n)
  PROVE  Unmarshal(w) = [type |-> "registration", id |-> d.id, addr |-> d.addr, port |-> d.port,
                         idle |-> d.idle, traced |-> d.traced, payload |-> d.payload]
<1> USE DEF RegistrationBytes
<1> DEFINE header == IF Has(w[2], 1) THEN 38 ELSE 26
           rest == IF Has(w[2], 4) THEN SubSeq(w, header + 1, Len(w)) ELSE <<>>
<1>1. header = 22 + n
  <2>1. CASE n = 4 BY <2>1
  <2>2. CASE n = 16 BY <2>2
  <2> QED BY <2>1, <2>2
<1> HIDE DEF header
<1>2. rest = d.payload BY <1>1
<1>3. Has(w[2], 2) = d.traced
  <2>1. Has(w[2], 2) \in BOOLEAN BY DEF Has
  <2> QED BY <2>1
<1>4. Unmarshal(w) = UnmarshalRegistration(w) BY DEF Unmarshal
<1>5. Unmarshal(w) = [type |-> "registration", id |-> SubSeq(w, 7, 22), addr |-> SubSeq(w, 23, header),
                      port |-> ReadUint16(w, 3), idle |-> ReadUint16(w, 5), traced |-> Has(w[2], 2),
                      payload |-> rest]
  BY <1>4 DEF UnmarshalRegistration, header
<1> HIDE DEF rest
<1> QED BY <1>1, <1>2, <1>3, <1>5, Zenon

\* Session registrations, of both families and with every flag.
LEMMA RegistrationRead ==
  ASSUME NEW d \in Registrations, Marshal(d) # <<>>
  PROVE  Unmarshal(Marshal(d)) = d
<1>1. /\ d.type = "registration" /\ d.id \in RequestIDs /\ d.addr \in Addresses
      /\ d.port \in Words /\ d.idle \in Words /\ d.traced \in BOOLEAN /\ d.payload \in Seq(Bytes)
  BY DEF Registrations
<1>2. d = [type |-> "registration", id |-> d.id, addr |-> d.addr, port |-> d.port,
           idle |-> d.idle, traced |-> d.traced, payload |-> d.payload]
  BY DEF Registrations
<1> DEFINE n == Len(d.addr)
           m == Len(d.payload)
           flags == Bit(n = 16, 1) + Bit(d.traced, 2) + Bit(d.payload # <<>>, 4)
           head == <<0, flags>>
           u == Uint16(d.port)
           v == Uint16(d.idle)
           w == head \o u \o v \o d.id \o d.addr \o d.payload
<1>3. Marshal(d) = w
  <2>1. Marshal(d) = MarshalRegistration(d) BY <1>1 DEF Marshal
  <2> QED BY <2>1 DEF MarshalRegistration
<1> HIDE DEF n, m, flags, head, u, v, w
<1>4. /\ d.id \in Seq(Nat) /\ Len(d.id) = 16 /\ d.addr \in Seq(Nat) /\ n \in {4, 16}
      /\ d.payload \in Seq(Nat) /\ m \in Nat
  BY <1>1, BytesAreNumbers DEF n, m
<1>5. flags \in Nat /\ (Has(flags, 1) <=> n = 16) /\ (Has(flags, 2) <=> d.traced)
      /\ (Has(flags, 4) <=> d.payload # <<>>)
  <2>1. (n = 16) \in BOOLEAN /\ (d.payload # <<>>) \in BOOLEAN OBVIOUS
  <2> QED BY <1>1, <2>1, FlagsRead, Zenon DEF flags
<1>6. head \in Seq(Nat) /\ Len(head) = 2 /\ head[1] = 0 /\ head[2] = flags BY <1>5 DEF head
<1>7. /\ u \in Seq(Nat) /\ Len(u) = 2 /\ 256 * u[1] + u[2] = d.port
      /\ v \in Seq(Nat) /\ Len(v) = 2 /\ 256 * v[1] + v[2] = d.idle
  <2>1. u \in Seq(Nat) /\ Len(u) = 2 /\ 256 * u[1] + u[2] = d.port BY <1>1, Uint16Read, Zenon DEF u
  <2>2. v \in Seq(Nat) /\ Len(v) = 2 /\ 256 * v[1] + v[2] = d.idle BY <1>1, Uint16Read, Zenon DEF v
  <2> QED BY <2>1, <2>2, Zenon
<1>8. RegistrationParts(w, head, u, v, d.id, d.addr, d.payload, n, m)
  BY <1>4, <1>6, <1>7, RegistrationJoined, Zenon DEF w, n, m
<1>9. n \in Nat /\ n > 0 BY <1>4
<1>10. /\ w[1] = head[1] /\ w[2] = head[2] /\ w[3] = u[1] /\ w[4] = u[2] /\ w[5] = v[1] /\ w[6] = v[2]
       /\ SubSeq(w, 7, 22) = d.id
       /\ SubSeq(w, 23, 22 + n) = d.addr
       /\ SubSeq(w, (22 + n) + 1, Len(w)) = d.payload
  <2>1. RegistrationPlaces(w, head, u, v, d.id, d.addr, d.payload, n)
    BY <1>4, <1>8, <1>9, RegistrationLayout, Zenon
  <2> QED BY <2>1 DEF RegistrationPlaces
<1>11. w[1] = 0 /\ w[2] = flags /\ ReadUint16(w, 3) = d.port /\ ReadUint16(w, 5) = d.idle
  <2>1. ReadUint16(w, 3) = 256 * w[3] + w[4] /\ ReadUint16(w, 5) = 256 * w[5] + w[6] BY DEF ReadUint16
  <2>2. w[1] = 0 /\ w[2] = flags BY <1>6, <1>10, Zenon
  <2>3. ReadUint16(w, 3) = d.port BY <1>7, <1>10, <2>1, Zenon
  <2>4. ReadUint16(w, 5) = d.idle BY <1>7, <1>10, <2>1, Zenon
  <2> QED BY <2>2, <2>3, <2>4, Zenon
<1>12. Unmarshal(w) = [type |-> "registration", id |-> d.id, addr |-> d.addr, port |-> d.port,
                       idle |-> d.idle, traced |-> d.traced, payload |-> d.payload]
  <2>1. RegistrationBytes(w, d, flags, n) BY <1>5, <1>10, <1>11, Zenon DEF RegistrationBytes
  <2> QED BY <1>1, <1>4, <2>1, RegistrationFields, Zenon
<1> QED BY <1>2, <1>3, <1>12, Zenon

\* Payloads, within the limit that the reader checks.
LEMMA PayloadRead ==
  ASSUME NEW d \in Payloads, Marshal(d) # <<>>
  PROVE  Unmarshal(Marshal(d)) = d
<1>1. d.type = "payload" /\ d.id \in RequestIDs /\ d.payload \in Seq(Bytes) BY DEF Payloads
<1>2. d = [type |-> "payload", id |-> d.id, payload |-> d.payload] BY DEF Payloads
<1> DEFINE one == <<1>>
           p == one \o d.id
           w == p \o d.payload
           m == Len(d.payload)
<1>3. Marshal(d) = w /\ ~(m > MaxPayload)
  <2>1. Marshal(d) = MarshalPayload(d) BY <1>1 DEF Marshal
  <2> QED BY <2>1 DEF MarshalPayload
<1> HIDE DEF one, p, w, m
<1>4. d.id \in Seq(Nat) /\ Len(d.id) = 16 /\ d.payload \in Seq(Nat) /\ m \in Nat BY <1>1, BytesAreNumbers DEF m
<1>5. one \in Seq(Nat) /\ Len(one) = 1 /\ one[1] = 1 BY DEF one
<1>6. Joined(p, one, d.id, 1, 16) BY <1>4, <1>5, JoinOf, Zenon DEF p
<1>7. p \in Seq(Nat) /\ Len(p) = 17 /\ p[1] = 1 /\ SubSeq(p, 2, 17) = d.id
  BY <1>5, <1>6 DEF Joined
<1>8. Joined(w, p, d.payload, 17, m) BY <1>4, <1>7, JoinOf, Zenon DEF w, m
<1>9. Len(w) = 17 + m /\ w[1] = p[1] /\ SubSeq(w, 17 + 1, 17 + m) = d.payload BY <1>4, <1>8 DEF Joined
<1>10. SubSeq(w, 2, 17) = SubSeq(p, 2, 17)
  <2>1. \A i, j \in Nat : i >= 1 /\ i <= j /\ j <= 17 => SubSeq(w, i, j) = SubSeq(p, i, j) BY <1>8 DEF Joined
  <2>2. 2 \in Nat /\ 17 \in Nat /\ 2 >= 1 /\ 2 <= 17 /\ 17 <= 17 OBVIOUS
  <2> QED BY <2>1, <2>2, Zenon
<1>11. w[1] = 1 /\ ~(w[1] # 1 \/ Len(w) < 17 \/ Len(w) > MaxPayload + 17)
  BY <1>3, <1>4, <1>7, <1>9, MessagesAssumption
<1>12. SubSeq(w, 18, Len(w)) = d.payload BY <1>9
<1>13. Unmarshal(w) = UnmarshalPayload(w) BY <1>11 DEF Unmarshal
<1>14. Unmarshal(w) = [type |-> "payload", id |-> SubSeq(w, 2, 17), payload |-> SubSeq(w, 18, Len(w))]
  BY <1>11, <1>13 DEF UnmarshalPayload
<1> QED BY <1>2, <1>3, <1>7, <1>10, <1>12, <1>14, Zenon

\* ICMP packets.
LEMMA ICMPRead ==
  ASSUME NEW d \in Packets, Marshal(d) # <<>>
  PROVE  Unmarshal(Marshal(d)) = d
<1>1. d.type = "icmp" /\ d.payload \in Seq(Bytes) BY DEF Packets
<1>2. d = [type |-> "icmp", payload |-> d.payload] BY DEF Packets
<1> DEFINE two == <<2>>
           w == two \o d.payload
           m == Len(d.payload)
<1>3. Marshal(d) = w /\ d.payload # <<>> /\ ~(m > MaxPayload)
  <2>1. Marshal(d) = MarshalICMP(d) BY <1>1 DEF Marshal
  <2> QED BY <2>1 DEF MarshalICMP
<1>4. d.payload \in Seq(Nat) /\ m \in Nat /\ m # 0
  <2>1. d.payload \in Seq(Nat) BY <1>1, BytesAreNumbers
  <2> QED BY <1>3, <2>1, EmptySeq
<1> HIDE DEF two, w, m
<1>5. two \in Seq(Nat) /\ Len(two) = 1 /\ two[1] = 2 BY DEF two
<1>6. Joined(w, two, d.payload, 1, m) BY <1>4, <1>5, JoinOf, Zenon DEF w, m
<1>7. Len(w) = 1 + m /\ w[1] = 2 /\ SubSeq(w, 1 + 1, 1 + m) = d.payload BY <1>4, <1>5, <1>6 DEF Joined
<1>8. ~(w[1] # 2 \/ Len(w) = 1 \/ Len(w) > MaxPayload + 1) BY <1>3, <1>4, <1>7, MessagesAssumption
<1>9. SubSeq(w, 2, Len(w)) = d.payload BY <1>7
<1>10. Unmarshal(w) = UnmarshalICMP(w) BY <1>7 DEF Unmarshal
<1>11. Unmarshal(w) = [type |-> "icmp", payload |-> SubSeq(w, 2, Len(w))] BY <1>8, <1>10 DEF UnmarshalICMP
<1> QED BY <1>2, <1>3, <1>9, <1>11, Zenon

\* Responses, whose message may be empty.
LEMMA ResponseRead ==
  ASSUME NEW d \in Responses, Marshal(d) # <<>>
  PROVE  Unmarshal(Marshal(d)) = d
<1>1. d.type = "response" /\ d.id \in RequestIDs /\ d.resp \in Bytes /\ d.msg \in Seq(Bytes) BY DEF Responses
<1>2. d = [type |-> "response", id |-> d.id, resp |-> d.resp, msg |-> d.msg] BY DEF Responses
<1> DEFINE n == Len(d.msg)
           head == <<3, d.resp>>
           u == Uint16(n)
           p1 == head \o d.id
           p2 == p1 \o u
           w == p2 \o d.msg
<1>3. Marshal(d) = w /\ ~(n > MaxPayload - 20)
  <2>1. Marshal(d) = MarshalResponse(d) BY <1>1 DEF Marshal
  <2> QED BY <2>1 DEF MarshalResponse
<1> HIDE DEF n, head, u, p1, p2, w
<1>4. d.id \in Seq(Nat) /\ Len(d.id) = 16 /\ d.resp \in Nat /\ d.msg \in Seq(Nat) /\ n \in Nat
  <2>1. d.resp \in Nat BY <1>1, BytesAreNumbers
  <2>2. d.id \in Seq(Nat) /\ Len(d.id) = 16 /\ d.msg \in Seq(Nat) BY <1>1, BytesAreNumbers
  <2> QED BY <2>1, <2>2 DEF n
<1>5. head \in Seq(Nat) /\ Len(head) = 2 /\ head[1] = 3 /\ head[2] = d.resp BY <1>4 DEF head
<1>6. n \in Words
  <2>1. MaxUint16 \in Nat BY DEF MaxUint16
  <2>2. MaxPayload \in Nat /\ MaxPayload <= MaxUint16 BY MessagesAssumption
  <2> QED BY <1>3, <1>4, <2>1, <2>2 DEF Words
<1>7. u \in Seq(Nat) /\ Len(u) = 2 /\ 256 * u[1] + u[2] = n BY <1>6, Uint16Read, Zenon DEF u
<1>8. Joined(p1, head, d.id, 2, 16) BY <1>4, <1>5, JoinOf, Zenon DEF p1
<1>9. p1 \in Seq(Nat) /\ Len(p1) = 18 /\ p1[1] = 3 /\ p1[2] = d.resp /\ SubSeq(p1, 3, 18) = d.id
  BY <1>5, <1>8 DEF Joined
<1>10. Joined(p2, p1, u, 18, 2) BY <1>7, <1>9, JoinOf, Zenon DEF p2
<1>11. p2 \in Seq(Nat) /\ Len(p2) = 20 /\ p2[1] = 3 /\ p2[2] = d.resp /\ p2[19] = u[1] /\ p2[20] = u[2]
  <2>1. p2 \in Seq(Nat) /\ Len(p2) = 20 BY <1>10 DEF Joined
  <2>2. p2[1] = 3 /\ p2[2] = d.resp BY <1>9, <1>10 DEF Joined
  <2>3. p2[18 + 1] = u[1] /\ p2[18 + 2] = u[2] BY <1>10 DEF Joined
  <2> QED BY <2>1, <2>2, <2>3
<1>12. Joined(w, p2, d.msg, 20, n) BY <1>4, <1>11, JoinOf, Zenon DEF w, n
<1>13. /\ Len(w) = 20 + n /\ w[1] = 3 /\ w[2] = d.resp /\ w[19] = u[1] /\ w[20] = u[2]
       /\ SubSeq(w, 20 + 1, 20 + n) = d.msg
  <2>1. Len(w) = 20 + n /\ SubSeq(w, 20 + 1, 20 + n) = d.msg BY <1>12 DEF Joined
  <2>2. \A i \in 1 .. 20 : w[i] = p2[i] BY <1>12 DEF Joined
  <2>3. w[1] = p2[1] /\ w[2] = p2[2] /\ w[19] = p2[19] /\ w[20] = p2[20] BY <2>2
  <2> QED BY <1>11, <2>1, <2>3
<1>14. SubSeq(w, 3, 18) = d.id
  <2>1. \A i, j \in Nat : i >= 1 /\ i <= j /\ j <= 20 => SubSeq(w, i, j) = SubSeq(p2, i, j) BY <1>12 DEF Joined
  <2>2. \A i, j \in Nat : i >= 1 /\ i <= j /\ j <= 18 => SubSeq(p2, i, j) = SubSeq(p1, i, j) BY <1>10 DEF Joined
  <2>3. 3 \in Nat /\ 18 \in Nat /\ 3 >= 1 /\ 3 <= 18 /\ 18 <= 18 /\ 18 <= 20 OBVIOUS
  <2>4. SubSeq(w, 3, 18) = SubSeq(p2, 3, 18) BY <2>1, <2>3, Zenon
  <2>5. SubSeq(p2, 3, 18) = SubSeq(p1, 3, 18) BY <2>2, <2>3, Zenon
  <2> QED BY <1>9, <2>4, <2>5
<1> DEFINE k == ReadUint16(w, 19)
           msg == IF k > 0 THEN SubSeq(w, 21, Len(w)) ELSE <<>>
<1>15. k = n
  <2>1. k = 256 * w[19] + w[20] BY DEF ReadUint16
  <2> HIDE DEF k
  <2> QED BY <1>7, <1>13, <2>1
<1>16. Unmarshal(w) = UnmarshalResponse(w) BY <1>13 DEF Unmarshal
<1>17. UnmarshalResponse(w) = IF w[1] # 3 \/ Len(w) < 20 \/ k > MaxPayload - 20 \/ Len(w) - 20 < k THEN Failed
                              ELSE [type |-> "response", resp |-> w[2], id |-> SubSeq(w, 3, 18), msg |-> msg]
  BY DEF UnmarshalResponse
<1> HIDE DEF k
<1>18. ~(w[1] # 3 \/ Len(w) < 20 \/ k > MaxPayload - 20 \/ Len(w) - 20 < k)
  BY <1>3, <1>4, <1>13, <1>15, MessagesAssumption
<1>19. msg = d.msg
  <2>1. n = 0 => d.msg = <<>> BY <1>4, EmptySeq DEF n
  <2>2. SubSeq(w, 21, Len(w)) = d.msg BY <1>13
  <2>3. CASE n = 0 BY <1>15, <2>1, <2>3
  <2>4. CASE n > 0 BY <1>15, <2>2, <2>4
  <2>5. n = 0 \/ n > 0 BY <1>4
  <2> QED BY <2>3, <2>4, <2>5
<1> HIDE DEF msg
<1>20. Unmarshal(w) = [type |-> "response", resp |-> w[2], id |-> SubSeq(w, 3, 18), msg |-> msg]
  BY <1>16, <1>17, <1>18
<1>21. Unmarshal(w) = [type |-> "response", id |-> d.id, resp |-> d.resp, msg |-> d.msg]
  BY <1>13, <1>14, <1>19, <1>20
<1> QED BY <1>2, <1>3, <1>21, Zenon

\* Every datagram that can be written is read back as it was, whatever its
\* family, its flags, its contents and the limit on its length.
THEOREM CodecSafe == FlowSpec => []RoundTrips
<1>1. FlowInit => wire \in Messages BY DEF FlowInit
<1>2. wire \in Messages /\ [FlowNext]_flowVars => (wire \in Messages)'
  BY DEF FlowNext, flowVars, Receive, Enqueue, ReceiveFails, Serve, ServeReturns, ProcessICMP, WriteICMPPacket,
    RespondFlow, SessionReturns, Unregister, ReadOrigin, ReadFails, SendToEdge, WriteOrigin, WriteLoopEnds,
    QuicStops, QuicLost
<1>3. wire \in Messages => RoundTrips
  BY MessagesAssumption, RegistrationRead, PayloadRead, ICMPRead, ResponseRead DEF RoundTrips
<1> QED BY <1>1, <1>2, <1>3, PTL DEF FlowSpec
==============================================================================
