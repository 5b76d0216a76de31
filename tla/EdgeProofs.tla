----------------------------- MODULE EdgeProofs -----------------------------
(***************************************************************************)
(* Proofs about how connections reach the edge: the addresses they are     *)
(* given (EdgePool), for any set of connections, addresses and regions,    *)
(* and the protocol they use and the events they send (ProtocolFallback    *)
(* and ConnEvents), for any number of connections and any limits.          *)
(***************************************************************************)
EXTENDS EdgePool, ProtocolFallback, FiniteSetTheorems, TLAPS

-----------------------------------------------------------------------------
(* Addresses *)

\* Whatever region is chosen, an address handed out is unused and not the one
\* that was just given back.
LEMMA CandidatesAreFree ==
  ASSUME NEW ub, NEW fb, NEW x, NEW a \in Candidates(ub, fb, x)
  PROVE  a \in Addrs /\ ub[a] = NoConn /\ a # x
<1>1. PICK r \in {1, 2} : a \in Unused(ub, fb, r) \ {x} \/ a \in Unused(ub, fb, 3 - r) \ {x}
  BY DEF Candidates
<1>2. \A q : Unused(ub, fb, q) \subseteq {b \in Addrs : ub[b] = NoConn}
  BY DEF Unused, ActiveSet, Primary, Secondary
<1> QED BY <1>1, <1>2

IInv == PoolTypeOK /\ OneAddressEach /\ ServesOwnAddress

\* At first no address is used.
LEMMA InitIInv == PoolInit => IInv
  BY AddrsAssumption DEF PoolInit, IInv, PoolTypeOK, OneAddressEach, ServesOwnAddress

\* GetAddr keeps the invariant: the address it hands out is unused.
LEMMA GetAddrIInv ==
  ASSUME IInv, NEW c \in ConnIDs, GetAddr(c)
  PROVE  IInv'
<1> USE AddrsAssumption DEF IInv, PoolTypeOK, OneAddressEach, ServesOwnAddress
<1>1. CASE Held(usedBy, c) # {}
  BY <1>1 DEF GetAddr, Held
<1>2. CASE Held(usedBy, c) = {} /\ Candidates(usedBy, fellBack, NoConn) # {}
  <2>1. PICK a \in Candidates(usedBy, fellBack, NoConn) :
           /\ usedBy' = [usedBy EXCEPT ![a] = c]
           /\ addr' = [addr EXCEPT ![c] = a]
           /\ refused' = [refused EXCEPT ![c] = "no"]
    BY <1>2 DEF GetAddr
  <2>2. a \in Addrs /\ usedBy[a] = NoConn BY CandidatesAreFree
  <2>3. \A b \in Addrs : usedBy[b] # c BY <1>2 DEF Held
  <2>4. UNCHANGED <<override, fellBack, expired>> BY DEF GetAddr
  <2> QED BY <2>1, <2>2, <2>3, <2>4
<1>3. CASE Held(usedBy, c) = {} /\ Candidates(usedBy, fellBack, NoConn) = {}
  BY <1>3 DEF GetAddr
<1> QED BY <1>1, <1>2, <1>3

\* So does GetDifferentAddr, which gives the old address back first.
LEMMA GetDifferentAddrIInv ==
  ASSUME IInv, NEW c \in ConnIDs, NEW err \in BOOLEAN, GetDifferentAddr(c, err)
  PROVE  IInv'
<1> USE AddrsAssumption DEF IInv, PoolTypeOK
<1> DEFINE old == addr[c]
           ub == [usedBy EXCEPT ![old] = NoConn]
           new == Candidates(ub, fellBack', old)
<1>1. old \in Addrs /\ usedBy[old] = c
  BY DEF GetDifferentAddr, ServesOwnAddress
<1>2. fellBack' \in [{1, 2} -> BOOLEAN] /\ expired' \in [{1, 2} -> BOOLEAN]
  BY <1>1 DEF GetDifferentAddr, GiveBackRegion
<1>3. addr' = [addr EXCEPT ![c] = NoConn] /\ override' = override BY DEF GetDifferentAddr
<1>4. \A b \in Addrs : ub[b] # c
  BY <1>1 DEF OneAddressEach
<1>5. /\ ub \in [Addrs -> ConnIDs \cup {NoConn}]
      /\ \A a, b \in Addrs : ub[a] = ub[b] /\ ub[a] # NoConn => a = b
  BY <1>1 DEF OneAddressEach
<1>6. \A d \in ConnIDs \ {c} : addr[d] # NoConn => ub[addr[d]] = d
  BY <1>1 DEF ServesOwnAddress
<1> HIDE DEF ub, old
<1>7. CASE new # {}
  <2>1. PICK a \in new : usedBy' = [ub EXCEPT ![a] = c]
    BY <1>7 DEF GetDifferentAddr, ub, old
  <2>2. a \in Addrs /\ ub[a] = NoConn BY CandidatesAreFree
  <2>3. refused' = [refused EXCEPT ![c] = "no"]
    BY <1>7 DEF GetDifferentAddr, ub, old
  <2> HIDE DEF new
  <2>4. PoolTypeOK' BY <1>2, <1>3, <1>5, <2>1, <2>2, <2>3
  <2>5. OneAddressEach' BY <1>4, <1>5, <2>1, <2>2 DEF OneAddressEach
  <2>6. ServesOwnAddress' BY <1>3, <1>5, <1>6, <2>1, <2>2 DEF ServesOwnAddress
  <2> QED BY <2>4, <2>5, <2>6
<1>8. CASE new = {}
  <2>1. usedBy' = ub /\ refused' = [refused EXCEPT ![c] = "GetDifferentAddr"]
    BY <1>8 DEF GetDifferentAddr, ub, old
  <2>2. PoolTypeOK' BY <1>2, <1>3, <1>5, <2>1
  <2>3. OneAddressEach' BY <1>5, <2>1 DEF OneAddressEach
  <2>4. ServesOwnAddress' BY <1>3, <1>6, <2>1 DEF ServesOwnAddress
  <2> QED BY <2>2, <2>3, <2>4
<1> QED BY <1>7, <1>8

\* Every step keeps the invariant.
LEMMA NextIInv == IInv /\ [PoolNext]_poolVars => IInv'
<1> SUFFICES ASSUME IInv, [PoolNext]_poolVars PROVE IInv'
  OBVIOUS
<1>1. ASSUME NEW c \in ConnIDs, GetAddr(c) PROVE IInv'
  BY <1>1, GetAddrIInv
<1>2. ASSUME NEW c \in ConnIDs, ConnectionEnds(c) PROVE IInv'
  BY <1>2 DEF ConnectionEnds, IInv, PoolTypeOK, OneAddressEach, ServesOwnAddress
<1>3. ASSUME NEW c \in ConnIDs, GetDifferentAddr(c, TRUE) PROVE IInv'
  BY <1>3, GetDifferentAddrIInv
<1>4. ASSUME NEW r \in {1, 2}, TimeoutPasses(r) PROVE IInv'
  BY <1>4 DEF TimeoutPasses, IInv, PoolTypeOK, OneAddressEach, ServesOwnAddress
<1>5. CASE UNCHANGED poolVars
  BY <1>5 DEF poolVars, IInv, PoolTypeOK, OneAddressEach, ServesOwnAddress
<1> QED BY <1>1, <1>2, <1>3, <1>4, <1>5 DEF PoolNext, PoolStep

\* Connections never share an address and never hold two.
THEOREM Exclusive == PoolSpec => []AddressesOwned
<1>1. IInv => AddressesOwned BY DEF IInv, AddressesOwned
<1> QED BY <1>1, InitIInv, NextIInv, PTL DEF PoolSpec

\* A rotation never hands out the address it has just given back.
THEOREM RotationMovesAway ==
  PoolSpec => [][\A c \in ConnIDs : GetDifferentAddr(c, TRUE) => usedBy'[addr[c]] # c]_poolVars
<1>1. ASSUME IInv, NEW c \in ConnIDs, GetDifferentAddr(c, TRUE) PROVE usedBy'[addr[c]] # c
  <2> DEFINE ub == [usedBy EXCEPT ![addr[c]] = NoConn]
             new == Candidates(ub, fellBack', addr[c])
  <2>1. addr[c] \in Addrs BY <1>1 DEF GetDifferentAddr, IInv, PoolTypeOK
  <2>2. ub[addr[c]] # c /\ ub \in [Addrs -> ConnIDs \cup {NoConn}]
    BY <1>1, <2>1, AddrsAssumption DEF IInv, PoolTypeOK
  <2>3. CASE usedBy' = ub BY <2>2, <2>3
  <2>4. CASE \E a \in new : usedBy' = [ub EXCEPT ![a] = c]
    <3> PICK a \in new : usedBy' = [ub EXCEPT ![a] = c] BY <2>4
    <3>1. a # addr[c] BY CandidatesAreFree
    <3> QED BY <2>1, <2>2, <3>1
  <2> QED BY <1>1, <2>3, <2>4 DEF GetDifferentAddr
<1>2. IInv /\ [PoolNext]_poolVars => [\A c \in ConnIDs : GetDifferentAddr(c, TRUE) => usedBy'[addr[c]] # c]_poolVars
  BY <1>1
<1> QED BY <1>2, InitIInv, NextIInv, PTL DEF PoolSpec

\* Regions.GetUnusedAddr, read backwards: where an address comes from, and what
\* it means that there is none.
LEMMA CandidateCases ==
  ASSUME NEW ub, NEW fb, NEW x
  PROVE  LET n(r) == AvailableAddrs(ub, fb, r)
             free(r) == Unused(ub, fb, r) \ {x}
         IN  /\ \A a \in Candidates(ub, fb, x) :
                   \E q \in {1, 2} : /\ n(q) >= n(3 - q)
                                    /\ \/ free(q) # {} /\ a \in free(q)
                                       \/ free(q) = {} /\ a \in free(3 - q)
             /\ Candidates(ub, fb, x) = {} =>
                   \A q \in {1, 2} : n(q) >= n(3 - q) => free(q) = {} /\ free(3 - q) = {}
<1> DEFINE n(r) == AvailableAddrs(ub, fb, r)
           free(r) == Unused(ub, fb, r) \ {x}
           from(r) == IF free(r) # {} THEN free(r) ELSE free(3 - r)
<1>1. Candidates(ub, fb, x) = UNION {from(r) : r \in {q \in {1, 2} : n(q) >= n(3 - q)}}
  BY DEF Candidates
<1> HIDE DEF n, free
<1>2. \A a \in Candidates(ub, fb, x) : \E q \in {1, 2} : n(q) >= n(3 - q) /\ a \in from(q)
  BY <1>1
<1>3. Candidates(ub, fb, x) = {} => \A q \in {1, 2} : n(q) >= n(3 - q) => from(q) = {}
  BY <1>1
<1>4. /\ \A a \in Candidates(ub, fb, x) :
            \E q \in {1, 2} : /\ n(q) >= n(3 - q)
                             /\ \/ free(q) # {} /\ a \in free(q)
                                \/ free(q) = {} /\ a \in free(3 - q)
      /\ Candidates(ub, fb, x) = {} =>
            \A q \in {1, 2} : n(q) >= n(3 - q) => free(q) = {} /\ free(3 - q) = {}
  BY <1>2, <1>3
<1> QED BY <1>4 DEF n, free

\* The sets of addresses are finite.
LEMMA FiniteSets ==
  /\ \A S \in SUBSET Addrs : IsFiniteSet(S) /\ Cardinality(S) \in Nat
  /\ \A S \in SUBSET ConnIDs : IsFiniteSet(S) /\ Cardinality(S) \in Nat
BY AddrsAssumption, FS_Subset, FS_CardinalityType

\* A call that finds no address although its connection has none: the active
\* sets are used up by the other connections, one address each.
LEMMA RefusedMeansExhausted ==
  ASSUME IInv, NEW c \in ConnIDs, Held(usedBy, c) = {}, Candidates(usedBy, fellBack, NoConn) = {}
  PROVE  Cardinality(ActiveSet(fellBack, 1)) + Cardinality(ActiveSet(fellBack, 2)) < Cardinality(ConnIDs)
<1> DEFINE A1 == ActiveSet(fellBack, 1)
           A2 == ActiveSet(fellBack, 2)
           A == A1 \cup A2
           others == ConnIDs \ {c}
           f == [a \in A |-> usedBy[a]]
<1>1. A1 \in SUBSET Addrs /\ A2 \in SUBSET Addrs /\ A1 \cap A2 = {}
  BY DEF ActiveSet, Primary, Secondary
<1>2. Unused(usedBy, fellBack, 1) = {} /\ Unused(usedBy, fellBack, 2) = {}
  <2> DEFINE n(r) == AvailableAddrs(usedBy, fellBack, r)
             free(r) == Unused(usedBy, fellBack, r) \ {NoConn}
  <2>1. \A r : Unused(usedBy, fellBack, r) \in SUBSET Addrs
    BY DEF Unused, ActiveSet, Primary, Secondary
  <2>2. n(1) \in Nat /\ n(2) \in Nat BY <2>1, FiniteSets DEF AvailableAddrs
  <2>3. \A q \in {1, 2} : n(q) >= n(3 - q) => free(q) = {} /\ free(3 - q) = {}
    BY CandidateCases
  <2>4. \A r : free(r) = Unused(usedBy, fellBack, r) BY <2>1, AddrsAssumption
  <2> HIDE DEF n, free
  <2>5. 3 - 1 = 2 /\ 3 - 2 = 1 OBVIOUS
  <2>6. n(1) >= n(2) \/ n(2) >= n(1) BY <2>2
  <2>7. free(1) = {} /\ free(2) = {} BY <2>3, <2>5, <2>6
  <2> QED BY <2>4, <2>7
<1>3. \A a \in A : a \in Addrs /\ usedBy[a] \in others
  BY <1>1, <1>2 DEF Unused, Held, IInv, PoolTypeOK
<1>4. f \in Injection(A, others)
  <2>1. f \in [A -> others] BY <1>3
  <2>2. \A a, b \in A : f[a] = f[b] => a = b
    BY <1>3, AddrsAssumption DEF IInv, OneAddressEach
  <2> HIDE DEF f, A, others
  <2> QED BY <2>1, <2>2 DEF Injection, IsInjective
<1>5. IsFiniteSet(others) /\ Cardinality(others) = Cardinality(ConnIDs) - 1
  BY AddrsAssumption, FS_RemoveElement
<1>6. Cardinality(A) <= Cardinality(others) BY <1>4, <1>5, FS_Injection
<1>7. Cardinality(A) = Cardinality(A1) + Cardinality(A2)
  <2>1. Cardinality(A) = Cardinality(A1) + Cardinality(A2) - Cardinality(A1 \cap A2)
    BY <1>1, FiniteSets, FS_Union
  <2> HIDE DEF A, A1, A2
  <2>2. Cardinality(A1 \cap A2) = 0 BY <1>1, FS_EmptySet
  <2>3. Cardinality(A1) \in Nat /\ Cardinality(A2) \in Nat BY <1>1, FiniteSets
  <2> QED BY <2>1, <2>2, <2>3
<1>8. Cardinality(A1) \in Nat /\ Cardinality(A2) \in Nat /\ Cardinality(ConnIDs) \in Nat
  BY <1>1, FiniteSets
<1> HIDE DEF A, A1, A2, others
<1> QED BY <1>5, <1>6, <1>7, <1>8 DEF A1, A2

\* The pool never believes itself exhausted because of connections that are
\* gone: for any sets of connections and addresses, GetAddr fails only when the
\* active sets hold fewer addresses than there are connections.
THEOREM PoolNotExhausted == PoolSpec => RefusedOnlyWhenExhausted
<1>1. ASSUME IInv, [PoolNext]_poolVars, NEW c \in ConnIDs, refused'[c] = "GetAddr", refused[c] # "GetAddr"
      PROVE  Cardinality(ActiveSet(fellBack, 1)) + Cardinality(ActiveSet(fellBack, 2)) < Cardinality(ConnIDs)
  <2>0. refused \in [ConnIDs -> {"no", "GetAddr", "GetDifferentAddr"}] BY <1>1 DEF IInv, PoolTypeOK
  <2>1. ASSUME NEW d \in ConnIDs, GetAddr(d)
        PROVE  d = c /\ Held(usedBy, c) = {} /\ Candidates(usedBy, fellBack, NoConn) = {}
    BY <1>1, <2>0, <2>1 DEF GetAddr
  <2>2. ~\E d \in ConnIDs : ConnectionEnds(d) BY <1>1 DEF ConnectionEnds
  <2>3. ~\E d \in ConnIDs : GetDifferentAddr(d, TRUE) BY <1>1, <2>0 DEF GetDifferentAddr
  <2>4. ~\E r \in {1, 2} : TimeoutPasses(r) BY <1>1 DEF TimeoutPasses
  <2>5. ~UNCHANGED poolVars BY <1>1 DEF poolVars
  <2>6. PICK d \in ConnIDs : GetAddr(d) BY <1>1, <2>2, <2>3, <2>4, <2>5 DEF PoolNext, PoolStep
  <2> QED BY <1>1, <2>1, <2>6, RefusedMeansExhausted
<1>2. IInv /\ [PoolNext]_poolVars =>
        [\A c \in ConnIDs :
          refused'[c] = "GetAddr" /\ refused[c] # "GetAddr" =>
              Cardinality(ActiveSet(fellBack, 1)) + Cardinality(ActiveSet(fellBack, 2))
                  < Cardinality(ConnIDs)]_poolVars
  BY <1>1
<1> QED BY <1>2, InitIInv, NextIInv, PTL DEF PoolSpec, RefusedOnlyWhenExhausted

\* DNS returned as many addresses of each IP version for one region as for the
\* other.  Without this the larger region is used more: GetUnusedAddr compares
\* how many addresses are left.
EqualRegions ==
  \A v \in {4, 6} : Cardinality({a \in Addrs : RegionOf[a] = 1 /\ Version[a] = v})
                      = Cardinality({a \in Addrs : RegionOf[a] = 2 /\ Version[a] = v})

UsedOf(ub, r) == {a \in Primary(r) : ub[a] # NoConn}
Count(ub, r) == Cardinality(UsedOf(ub, r))
IsEven(ub) == Count(ub, 1) - Count(ub, 2) \in {-1, 0, 1}

\* With one IP version a region has no secondary set and never falls back.
EvenInv ==
  override # "auto" => /\ ~fellBack[1] /\ ~fellBack[2]
                       /\ IsEven(usedBy)

\* The two regions have the same number of addresses of the one version.
LEMMA SameSize ==
  ASSUME EqualRegions, override \in {"v4", "v6"}
  PROVE  /\ Secondary(1) = {} /\ Secondary(2) = {}
         /\ Cardinality(Primary(1)) = Cardinality(Primary(2))
<1>1. CASE override = "v4"
  BY <1>1 DEF EqualRegions, Secondary, Primary, PrimaryVersion
<1>2. CASE override = "v6"
  BY <1>2 DEF EqualRegions, Secondary, Primary, PrimaryVersion
<1> QED BY <1>1, <1>2

\* What is left of a region that has not fallen back.
LEMMA LeftOver ==
  ASSUME NEW ub, NEW fb, NEW r, ~fb[r]
  PROVE  /\ Unused(ub, fb, r) = Primary(r) \ UsedOf(ub, r)
         /\ Count(ub, r) \in Nat /\ Cardinality(Primary(r)) \in Nat
         /\ AvailableAddrs(ub, fb, r) = Cardinality(Primary(r)) - Count(ub, r)
<1>1. Primary(r) \in SUBSET Addrs /\ UsedOf(ub, r) \in SUBSET Primary(r)
  BY DEF Primary, UsedOf
<1>2. Unused(ub, fb, r) = Primary(r) \ UsedOf(ub, r)
  BY DEF Unused, ActiveSet, UsedOf
<1> DEFINE P == Primary(r)
           U == UsedOf(ub, r)
           F == P \ U
<1>3. IsFiniteSet(P) /\ IsFiniteSet(U) /\ IsFiniteSet(F) /\ Cardinality(P) \in Nat
      /\ Cardinality(U) \in Nat /\ Cardinality(F) \in Nat
  BY <1>1, FiniteSets
<1> HIDE DEF P, U
<1>4. U \cup F = P /\ U \cap F = {} BY <1>1 DEF P, U
<1>5. Cardinality(U \cup F) = Cardinality(U) + Cardinality(F) - Cardinality(U \cap F)
  BY <1>3, FS_Union
<1> HIDE DEF F
<1>7. Cardinality(U \cap F) = 0 /\ Cardinality(U \cup F) = Cardinality(P) BY <1>4, FS_EmptySet
<1>6. Cardinality(F) = Cardinality(P) - Cardinality(U)
  BY <1>3, <1>5, <1>7
<1> QED BY <1>2, <1>3, <1>6 DEF AvailableAddrs, Count, P, U, F

\* From ub to new, region r has d more used addresses and the other region as
\* many as before.
Moves(ub, new, r, d) == Count(new, r) = Count(ub, r) + d /\ Count(new, 3 - r) = Count(ub, 3 - r)

\* An address of region r is taken, or given back.
LEMMA TakeOne ==
  ASSUME NEW ub \in [Addrs -> ConnIDs \cup {NoConn}], NEW r \in {1, 2}, NEW a \in Primary(r),
         ub[a] = NoConn, NEW c \in ConnIDs
  PROVE  Moves(ub, [ub EXCEPT ![a] = c], r, 1)
<1> DEFINE new == [ub EXCEPT ![a] = c]
<1>1. a \in Addrs /\ RegionOf[a] = r BY DEF Primary
<1>2. UsedOf(new, r) = UsedOf(ub, r) \cup {a} /\ a \notin UsedOf(ub, r)
  BY <1>1, AddrsAssumption DEF UsedOf, Primary
<1>3. UsedOf(new, 3 - r) = UsedOf(ub, 3 - r)
  BY <1>1 DEF UsedOf, Primary
<1>4. UsedOf(ub, r) \in SUBSET Addrs BY DEF UsedOf, Primary
<1>5. Cardinality(UsedOf(ub, r) \cup {a}) = Cardinality(UsedOf(ub, r)) + 1
  BY <1>2, <1>4, FiniteSets, FS_AddElement
<1>6. Count(new, r) = Count(ub, r) + 1 /\ Count(new, 3 - r) = Count(ub, 3 - r)
  <2> HIDE DEF new
  <2> QED BY <1>2, <1>3, <1>5 DEF Count
<1> QED BY <1>6, Zenon DEF Moves

\* The same for an address that is given back.
LEMMA GiveOne ==
  ASSUME NEW ub \in [Addrs -> ConnIDs \cup {NoConn}], NEW r \in {1, 2}, NEW a \in Primary(r),
         ub[a] # NoConn
  PROVE  Moves(ub, [ub EXCEPT ![a] = NoConn], r, -1)
<1> DEFINE new == [ub EXCEPT ![a] = NoConn]
<1>1. a \in Addrs /\ RegionOf[a] = r BY DEF Primary
<1>2. UsedOf(new, r) = UsedOf(ub, r) \ {a} /\ a \in UsedOf(ub, r)
  BY <1>1, AddrsAssumption DEF UsedOf, Primary
<1>3. UsedOf(new, 3 - r) = UsedOf(ub, 3 - r)
  BY <1>1 DEF UsedOf, Primary
<1>4. UsedOf(ub, r) \in SUBSET Addrs BY DEF UsedOf, Primary
<1>5. Cardinality(UsedOf(ub, r) \ {a}) = Cardinality(UsedOf(ub, r)) - 1
  BY <1>2, <1>4, FiniteSets, FS_RemoveElement
<1>6. Cardinality(UsedOf(ub, r)) \in Nat BY <1>4, FiniteSets, FS_CardinalityType
<1> HIDE DEF new
<1>7. Count(new, r) = Count(ub, r) + (-1) /\ Count(new, 3 - r) = Count(ub, 3 - r)
  BY <1>2, <1>3, <1>5, <1>6 DEF Count
<1>8. Moves(ub, new, r, -1) BY <1>7 DEF Moves
<1> QED BY <1>8 DEF new

\* GetUnusedAddr keeps the balance.  Either nothing is excluded (e = 0), or the
\* address x of region s, which was given back just before (e = 1): then the
\* counts were in balance with x.
LEMMA PickEven ==
  ASSUME EqualRegions, override \in {"v4", "v6"}, NEW ub \in [Addrs -> ConnIDs \cup {NoConn}],
         NEW fb, ~fb[1], ~fb[2], NEW x, NEW s \in {1, 2}, NEW e \in {0, 1},
         e = 0 => x \notin Primary(1) \cup Primary(2),
         e = 1 => x \in Primary(s) /\ ub[x] = NoConn,
         (Count(ub, s) + e) - Count(ub, 3 - s) \in {-1, 0, 1}
  PROVE  /\ Candidates(ub, fb, x) = {} => IsEven(ub)
         /\ \A a \in Candidates(ub, fb, x), c \in ConnIDs : IsEven([ub EXCEPT ![a] = c])
<1> DEFINE t == 3 - s
           N == Cardinality(Primary(s))
           n(r) == AvailableAddrs(ub, fb, r)
           free(r) == Unused(ub, fb, r) \ {x}
           u == Count(ub, s)
           w == Count(ub, t)
<1>1. t \in {1, 2} /\ t # s /\ 3 - t = s /\ (\A r \in {1, 2} : r = s \/ r = t) OBVIOUS
<1>2. Cardinality(Primary(t)) = N BY SameSize
<1>3. ~fb[s] /\ ~fb[t] OBVIOUS
<1>4. u \in Nat /\ w \in Nat /\ N \in Nat /\ n(s) = N - u /\ n(t) = N - w
  BY <1>2, <1>3, LeftOver
<1>5. free(s) = (Primary(s) \ UsedOf(ub, s)) \ {x} /\ free(t) = (Primary(t) \ UsedOf(ub, t)) \ {x}
  BY <1>3, LeftOver
<1>6. Primary(s) \cap Primary(t) = {} /\ Primary(s) \in SUBSET Addrs /\ Primary(t) \in SUBSET Addrs
  BY <1>1 DEF Primary
<1>7. Unused(ub, fb, s) \in SUBSET Addrs /\ Unused(ub, fb, t) \in SUBSET Addrs
  BY DEF Unused, ActiveSet, Primary, Secondary
<1>8. x \notin Unused(ub, fb, t) /\ (x \in Unused(ub, fb, s) <=> e = 1)
  <2>1. Unused(ub, fb, s) = Primary(s) \ UsedOf(ub, s) /\ Unused(ub, fb, t) = Primary(t) \ UsedOf(ub, t)
    BY <1>3, LeftOver
  <2> QED BY <1>1, <1>6, <2>1 DEF UsedOf
<1>9. Cardinality(free(s)) = N - u - e /\ Cardinality(free(t)) = N - w
  <2>1. IsFiniteSet(Unused(ub, fb, s)) /\ IsFiniteSet(Unused(ub, fb, t)) BY <1>7, FiniteSets
  <2>2. Cardinality(free(s)) = IF x \in Unused(ub, fb, s) THEN n(s) - 1 ELSE n(s)
    BY <2>1, FS_RemoveElement DEF AvailableAddrs
  <2>3. Cardinality(free(t)) = IF x \in Unused(ub, fb, t) THEN n(t) - 1 ELSE n(t)
    BY <2>1, FS_RemoveElement DEF AvailableAddrs
  <2> HIDE DEF n, u, w, N
  <2> QED BY <1>4, <1>8, <2>2, <2>3
<1>10. free(s) \in SUBSET Addrs /\ free(t) \in SUBSET Addrs BY <1>7
<1>11. (free(s) = {} <=> N - u - e = 0) /\ (free(t) = {} <=> N - w = 0)
       /\ N - u - e \in Nat /\ N - w \in Nat
  BY <1>9, <1>10, FiniteSets, FS_EmptySet
<1>12. /\ \A a \in free(s) : a \in Primary(s) /\ ub[a] = NoConn
       /\ \A a \in free(t) : a \in Primary(t) /\ ub[a] = NoConn
  BY <1>5 DEF UsedOf
<1>13. (u + e) - w \in {-1, 0, 1} OBVIOUS
<1>14. \A v : IsEven(v) <=> Count(v, s) - Count(v, t) \in {-1, 0, 1} \/ Count(v, s) - Count(v, t) \notin Int
  <2> SUFFICES ASSUME NEW v PROVE IsEven(v) <=> Count(v, s) - Count(v, t) \in {-1, 0, 1}
                                               \/ Count(v, s) - Count(v, t) \notin Int
    OBVIOUS
  <2>1. Count(v, s) \in Nat /\ Count(v, t) \in Nat BY <1>3, LeftOver
  <2> QED BY <1>1, <2>1 DEF IsEven
<1>15. \A v : Count(v, s) - Count(v, t) \in {-1, 0, 1} => IsEven(v) BY <1>14
<1>16. ASSUME NEW a \in free(s), NEW c \in ConnIDs, (u + 1) - w \in {-1, 0, 1}
       PROVE  IsEven([ub EXCEPT ![a] = c])
  <2> DEFINE new == [ub EXCEPT ![a] = c]
  <2>0. a \in Primary(s) /\ ub[a] = NoConn BY <1>12, <1>16
  <2>1. Count(new, s) = u + 1 /\ Count(new, t) = w
    <3>1. Moves(ub, new, s, 1) BY <2>0, TakeOne, Zenon
    <3> QED BY <3>1, Zenon DEF Moves
  <2> HIDE DEF new, u, w
  <2>2. Count(new, s) - Count(new, t) \in {-1, 0, 1} BY <1>16, <2>1
  <2>3. IsEven(new) BY <1>15, <2>2
  <2> QED BY <2>3 DEF new
<1>17. ASSUME NEW a \in free(t), NEW c \in ConnIDs, u - (w + 1) \in {-1, 0, 1}
       PROVE  IsEven([ub EXCEPT ![a] = c])
  <2> DEFINE new == [ub EXCEPT ![a] = c]
  <2>0. a \in Primary(t) /\ ub[a] = NoConn BY <1>12
  <2>1. Count(new, t) = w + 1 /\ Count(new, s) = u
    <3>1. t \in {1, 2} /\ 3 - t = s BY <1>1
    <3> HIDE DEF t
    <3>2. Moves(ub, new, t, 1) BY <2>0, <3>1, TakeOne, Zenon
    <3> HIDE DEF new
    <3> QED BY <3>1, <3>2, Zenon DEF Moves
  <2> HIDE DEF new, u, w
  <2>2. Count(new, s) - Count(new, t) \in {-1, 0, 1} BY <1>17, <2>1
  <2>3. IsEven(new) BY <1>15, <2>2
  <2> QED BY <2>3 DEF new
<1>18. u - w \in {-1, 0, 1} => IsEven(ub) BY <1>15
<1>19. /\ \A a \in Candidates(ub, fb, x) :
             \E q \in {1, 2} : /\ n(q) >= n(3 - q)
                              /\ \/ free(q) # {} /\ a \in free(q)
                                 \/ free(q) = {} /\ a \in free(3 - q)
       /\ Candidates(ub, fb, x) = {} =>
             \A q \in {1, 2} : n(q) >= n(3 - q) => free(q) = {} /\ free(3 - q) = {}
  BY CandidateCases
<1> HIDE DEF n, free, u, w, N, t
<1>20. ASSUME Candidates(ub, fb, x) = {} PROVE IsEven(ub)
  <2>1. n(s) >= n(t) \/ n(t) >= n(s) BY <1>4
  <2>2. free(s) = {} /\ free(t) = {} BY <1>1, <1>19, <1>20, <2>1 DEF t
  <2> QED BY <1>4, <1>11, <1>13, <1>18, <2>2
<1>21. ASSUME NEW a \in Candidates(ub, fb, x), NEW c \in ConnIDs PROVE IsEven([ub EXCEPT ![a] = c])
  <2>1. PICK q \in {1, 2} : /\ n(q) >= n(3 - q)
                            /\ \/ free(q) # {} /\ a \in free(q)
                               \/ free(q) = {} /\ a \in free(3 - q)
    BY <1>19, <1>21
  <2>2. CASE q = s
    <3>1. 3 - q = t BY <2>2 DEF t
    <3>2. n(s) >= n(t) BY <2>1, <2>2, <3>1
    <3>3. CASE free(s) # {} /\ a \in free(s)
      <4>1. (u + 1) - w \in {-1, 0, 1} BY <1>4, <1>13, <3>2
      <4> QED BY <1>16, <3>3, <4>1
    <3>4. CASE free(s) = {} /\ a \in free(t)
      <4>1. u - (w + 1) \in {-1, 0, 1} BY <1>4, <1>11, <1>13, <3>2, <3>4
      <4> QED BY <1>17, <3>4, <4>1
    <3> QED BY <2>1, <2>2, <3>1, <3>3, <3>4
  <2>3. CASE q = t
    <3>1. 3 - q = s BY <1>1, <2>3
    <3>2. n(t) >= n(s) BY <2>1, <2>3, <3>1
    <3>3. CASE free(t) # {} /\ a \in free(t)
      <4>1. u - (w + 1) \in {-1, 0, 1} BY <1>4, <1>13, <3>2
      <4> QED BY <1>17, <3>3, <4>1
    <3>4. CASE free(t) = {} /\ a \in free(s)
      <4>1. FALSE BY <1>4, <1>11, <1>13, <3>2, <3>4
      <4> QED BY <4>1
    <3> QED BY <2>1, <2>3, <3>1, <3>3, <3>4
  <2> QED BY <1>1, <2>2, <2>3
<1> QED BY <1>20, <1>21

\* Every step of the pool keeps the regions in balance.
LEMMA EvenStep ==
  ASSUME EqualRegions, IInv, EvenInv, [PoolNext]_poolVars
  PROVE  EvenInv'
<1> USE AddrsAssumption DEF IInv, PoolTypeOK
<1>1. override' = override
  BY DEF poolVars, PoolNext, PoolStep, GetAddr, ConnectionEnds, GetDifferentAddr, TimeoutPasses
<1>2. SUFFICES ASSUME override # "auto" PROVE EvenInv'
  BY <1>1 DEF EvenInv
<1>3. override \in {"v4", "v6"} BY <1>2
<1>4. ~fellBack[1] /\ ~fellBack[2] /\ IsEven(usedBy) BY <1>2 DEF EvenInv
<1>5. Secondary(1) = {} /\ Secondary(2) = {} BY <1>3, SameSize
<1>7. IsEven(usedBy') /\ ~fellBack'[1] /\ ~fellBack'[2] => EvenInv'
  BY <1>1 DEF EvenInv, IsEven, Count, UsedOf, Primary, PrimaryVersion
<1>8. ASSUME NEW c \in ConnIDs, GetAddr(c) PROVE IsEven(usedBy') /\ ~fellBack'[1] /\ ~fellBack'[2]
  <2>1. fellBack' = fellBack BY <1>8 DEF GetAddr
  <2>2. NoConn \notin Primary(1) \cup Primary(2) BY DEF Primary
  <2>3. (Count(usedBy, 1) + 0) - Count(usedBy, 3 - 1) \in {-1, 0, 1}
    <3>1. Count(usedBy, 1) \in Nat BY <1>4, LeftOver
    <3> QED BY <1>4, <3>1 DEF IsEven
  <2>4. \A a \in Candidates(usedBy, fellBack, NoConn), d \in ConnIDs : IsEven([usedBy EXCEPT ![a] = d])
    <3> DEFINE e == 0
               s == 1
    <3>1. e \in {0, 1} /\ s \in {1, 2} /\ e # 1
          /\ (Count(usedBy, s) + e) - Count(usedBy, 3 - s) \in {-1, 0, 1}
      BY <2>3
    <3> HIDE DEF e, s
    <3> QED BY <1>3, <1>4, <2>2, <3>1, PickEven
  <2>5. CASE usedBy' = usedBy BY <1>4, <2>1, <2>5
  <2>6. CASE \E a \in Candidates(usedBy, fellBack, NoConn) : usedBy' = [usedBy EXCEPT ![a] = c]
    <3>1. PICK a \in Candidates(usedBy, fellBack, NoConn) : usedBy' = [usedBy EXCEPT ![a] = c]
      BY <2>6
    <3>2. IsEven([usedBy EXCEPT ![a] = c]) BY <2>4
    <3> QED BY <1>4, <2>1, <3>1, <3>2
  <2> QED BY <1>8, <2>5, <2>6 DEF GetAddr
<1>9. ASSUME NEW c \in ConnIDs, GetDifferentAddr(c, TRUE)
      PROVE  IsEven(usedBy') /\ ~fellBack'[1] /\ ~fellBack'[2]
  <2> DEFINE x == addr[c]
             ub == [usedBy EXCEPT ![x] = NoConn]
             s == RegionOf[x]
  <2>1. x \in Addrs /\ usedBy[x] = c /\ s \in {1, 2}
    BY <1>9 DEF GetDifferentAddr, ServesOwnAddress
  <2>2. ub \in [Addrs -> ConnIDs \cup {NoConn}] /\ ub[x] = NoConn BY <2>1
  <2>3. ~fellBack'[1] /\ ~fellBack'[2]
    BY <1>4, <1>5, <1>9, <2>1 DEF GetDifferentAddr, GiveBackRegion, FallsBack, Returns
  <2>4. \A r \in {1, 2} : Count(usedBy, r) \in Nat BY <1>4, LeftOver
  <2>5. Count(usedBy, s) - Count(usedBy, 3 - s) \in {-1, 0, 1}
    <3> HIDE DEF s
    <3>1. CASE s = 1 BY <1>4, <3>1 DEF IsEven
    <3>2. CASE s = 2 BY <1>4, <2>4, <3>2 DEF IsEven
    <3> QED BY <2>1, <3>1, <3>2
  <2>6. /\ Candidates(ub, fellBack', x) = {} => IsEven(ub)
        /\ \A a \in Candidates(ub, fellBack', x), d \in ConnIDs : IsEven([ub EXCEPT ![a] = d])
    <3>1. CASE x \in Primary(s)
      <4>1. usedBy[x] # NoConn BY <2>1
      <4>2. Count(ub, s) = Count(usedBy, s) - 1 /\ Count(ub, 3 - s) = Count(usedBy, 3 - s)
        <5> HIDE DEF x, s
        <5>1. Moves(usedBy, ub, s, -1) BY <2>1, <3>1, <4>1, GiveOne, Zenon
        <5> HIDE DEF ub
        <5> QED BY <2>4, <5>1 DEF Moves
      <4> HIDE DEF ub, s
      <4>3. (Count(ub, s) + 1) - Count(ub, 3 - s) \in {-1, 0, 1} BY <2>1, <2>4, <2>5, <4>2
      <4> HIDE DEF x
      <4> DEFINE e == 1
      <4>4. e \in {0, 1} /\ e # 0 /\ (Count(ub, s) + e) - Count(ub, 3 - s) \in {-1, 0, 1} BY <4>3
      <4> HIDE DEF e
      <4> QED BY <1>3, <2>1, <2>2, <2>3, <3>1, <4>4, PickEven
    <3>2. CASE x \notin Primary(s)
      <4>1. x \notin Primary(1) \cup Primary(2) BY <3>2 DEF Primary
      <4>2. \A r \in {1, 2} : Count(ub, r) = Count(usedBy, r)
        <5>1. \A r \in {1, 2} : UsedOf(ub, r) = UsedOf(usedBy, r)
          BY <2>1, <4>1 DEF UsedOf, Primary
        <5> QED BY <5>1 DEF Count
      <4> HIDE DEF ub, s
      <4>3. Count(ub, s) = Count(usedBy, s) /\ Count(ub, 3 - s) = Count(usedBy, 3 - s)
        BY <2>1, <4>2
      <4>4. (Count(ub, s) + 0) - Count(ub, 3 - s) \in {-1, 0, 1} BY <2>1, <2>4, <2>5, <4>3
      <4> HIDE DEF x
      <4> DEFINE e == 0
      <4>5. e \in {0, 1} /\ e # 1 /\ (Count(ub, s) + e) - Count(ub, 3 - s) \in {-1, 0, 1} BY <4>4
      <4> HIDE DEF e
      <4> QED BY <1>3, <2>1, <2>2, <2>3, <4>1, <4>5, PickEven
    <3> QED BY <3>1, <3>2
  <2>7. \/ usedBy' = ub /\ Candidates(ub, fellBack', x) = {}
        \/ \E a \in Candidates(ub, fellBack', x) : usedBy' = [ub EXCEPT ![a] = c]
    BY <1>9 DEF GetDifferentAddr
  <2> HIDE DEF ub, x
  <2> QED BY <2>3, <2>6, <2>7
<1>10. CASE usedBy' = usedBy /\ fellBack' = fellBack BY <1>4, <1>7, <1>10
<1> QED BY <1>7, <1>8, <1>9, <1>10
  DEF poolVars, PoolNext, PoolStep, ConnectionEnds, TimeoutPasses

\* With a single IP version, of which DNS returned as many addresses for one
\* region as for the other, the regions are used evenly: Regions.GetUnusedAddr
\* keeps them within one address of each other whatever the connections do.
THEOREM EvenSafe == EqualRegions => (PoolSpec => []EvenUse)
<1> SUFFICES ASSUME EqualRegions PROVE PoolSpec => []EvenUse
  OBVIOUS
<1>1. PoolInit => EvenInv
  <2> SUFFICES ASSUME PoolInit PROVE EvenInv
    OBVIOUS
  <2>1. UsedOf(usedBy, 1) = {} /\ UsedOf(usedBy, 2) = {} BY DEF PoolInit, UsedOf, Primary
  <2>2. Count(usedBy, 1) = 0 /\ Count(usedBy, 2) = 0 BY <2>1, FS_EmptySet DEF Count
  <2> QED BY <2>2 DEF PoolInit, EvenInv, IsEven
<1>2. IInv /\ EvenInv /\ [PoolNext]_poolVars => EvenInv'
  BY EvenStep
<1>3. IInv /\ EvenInv => EvenUse
  <2> SUFFICES ASSUME IInv, EvenInv, override # "auto" PROVE UsedIn(1) - UsedIn(2) \in {-1, 0, 1}
    BY DEF EvenUse
  <2>1. override \in {"v4", "v6"} BY AddrsAssumption DEF IInv, PoolTypeOK
  <2>2. Pool(1) = Primary(1) /\ Pool(2) = Primary(2) BY <2>1, SameSize DEF Pool
  <2>3. UsedIn(1) = Count(usedBy, 1) /\ UsedIn(2) = Count(usedBy, 2)
    BY <2>2 DEF UsedIn, Count, UsedOf
  <2> QED BY <2>3 DEF EvenInv, IsEven
<1> QED BY <1>1, <1>2, <1>3, InitIInv, NextIInv, PTL DEF PoolSpec

-----------------------------------------------------------------------------
(* The fall back to another protocol *)

\* A backoff that is not about to be reset counts no more retries than there
\* were failures since the last reset, and one that Serve waits for is not.
BackoffInv ==
    /\ retries \in [ConnIndexes -> 0 .. Retries] /\ failures \in [ConnIndexes -> 0 .. Retries]
    /\ reset \in [ConnIndexes -> BOOLEAN] /\ DOMAIN pc = ConnIndexes
    /\ protocol \in [ConnIndexes -> Protocols]
    /\ current \in Protocols
    /\ \A c \in ConnIndexes : ~reset[c] => retries[c] <= failures[c]
    /\ \A c \in ConnIndexes : pc[c] = "backoff" => ~reset[c]

\* Nothing has failed yet.
LEMMA BackoffInit == FallbackInit => BackoffInv
BY FallbackAssumption DEF FallbackInit, BackoffInv, Protocols

\* selectNextProtocol and the rest of a retry.
LEMMA RetryBackoff ==
    ASSUME BackoffInv, NEW c \in ConnIndexes, Retry(c)
    PROVE  BackoffInv'
<1>1. pc' = [pc EXCEPT ![c] = "dialing"] /\ current' = current BY DEF Retry
<1>2. CASE UNCHANGED <<protocol, retries, reset, failures>>
  BY <1>1, <1>2 DEF BackoffInv
<1>3. CASE /\ protocol' = [protocol EXCEPT ![c] = "HTTP2"] /\ retries' = [retries EXCEPT ![c] = 0]
           /\ reset' = [reset EXCEPT ![c] = TRUE] /\ failures' = [failures EXCEPT ![c] = 0]
  BY <1>1, <1>3, FallbackAssumption DEF BackoffInv, Protocols
<1>4. CASE /\ protocol' = [protocol EXCEPT ![c] = IF inFallback[c] THEN @ ELSE current]
           /\ UNCHANGED <<retries, reset, failures>>
  BY <1>1, <1>4 DEF BackoffInv
<1> QED BY <1>2, <1>3, <1>4 DEF Retry, SelectNextProtocol

\* A failure is counted in the backoff and in the history alike.
LEMMA FailBackoff ==
    ASSUME BackoffInv, NEW c \in ConnIndexes, NEW kind, NEW broken, Fail(c, kind, broken)
    PROVE  BackoffInv'
<1> DEFINE base == IF reset[c] THEN 0 ELSE retries[c]
           n == IF base >= Retries THEN base ELSE base + 1
           m == IF failures[c] >= Retries THEN failures[c] ELSE failures[c] + 1
<1>1. /\ retries' = [retries EXCEPT ![c] = n] /\ reset' = [reset EXCEPT ![c] = FALSE]
      /\ failures' = [failures EXCEPT ![c] = m] /\ pc' = [pc EXCEPT ![c] = "backoff"]
      /\ UNCHANGED <<protocol, current>>
  BY DEF Fail, CountBackoff
<1>2. base \in 0 .. Retries /\ failures[c] \in 0 .. Retries /\ base <= failures[c]
  BY FallbackAssumption DEF BackoffInv
<1> HIDE DEF base
<1>3. n \in 0 .. Retries /\ m \in 0 .. Retries /\ n <= m
  BY <1>2, FallbackAssumption
<1> HIDE DEF n, m
<1> QED BY <1>1, <1>3 DEF BackoffInv

\* Every step keeps the counters in step.
LEMMA BackoffNext == BackoffInv /\ [FallbackNext]_fallbackVars => BackoffInv'
<1> SUFFICES ASSUME BackoffInv, [FallbackNext]_fallbackVars PROVE BackoffInv' OBVIOUS
<1>1. CASE UNCHANGED fallbackVars BY <1>1 DEF fallbackVars, fbVars, BackoffInv
<1>2. ASSUME NEW c \in ConnIndexes, StartOther(c) PROVE BackoffInv'
  BY <1>2, FallbackAssumption DEF StartOther, BackoffInv
<1>3. ASSUME NEW c \in ConnIndexes, Register(c) PROVE BackoffInv'
  BY <1>3, FallbackAssumption DEF Register, BackoffInv
<1>4. ASSUME NEW c \in ConnIndexes, Unregister(c) PROVE BackoffInv'
  BY <1>4 DEF Unregister, fbVars, BackoffInv
<1>5. ASSUME NEW c \in ConnIndexes, FailNoAddress(c) PROVE BackoffInv'
  BY <1>5 DEF FailNoAddress, BackoffInv
<1>6. CASE Refresh BY <1>6 DEF Refresh, fbVars, BackoffInv
<1>7. CASE Observe BY <1>7 DEF Observe, fbVars, BackoffInv
<1>8. CASE AllUp BY <1>1, <1>8 DEF AllUp
<1> QED BY <1>1, <1>2, <1>3, <1>4, <1>5, <1>6, <1>7, <1>8, RetryBackoff, FailBackoff
        DEF FallbackNext, ServeStep

\* A connection leaves QUIC for HTTP2 only because QUIC is broken or after
\* Retries failures in a row, and never when the user chose the protocol:
\* whatever the limits are and however registrations, failures and changes of
\* the remote selector interleave.
THEOREM FallbackSafe == FallbackSpec => FallbackJustified
<1> DEFINE Left(c) ==
      protocol[c] = "QUIC" /\ protocol'[c] = "HTTP2" /\ current = "QUIC" /\ pc[c] = "backoff"
           Why(c) == selector # "static" /\ (failure[c].quicBroken \/ failures[c] >= Retries)
<1>1. ASSUME BackoffInv, [FallbackNext]_fallbackVars, NEW c \in ConnIndexes, Left(c)
      PROVE  Why(c)
  <2>1. ~UNCHANGED protocol BY <1>1
  <2>2. ~\E d \in ConnIndexes : StartOther(d)
    BY <1>1 DEF StartOther, BackoffInv
  <2>3. PICK d \in ConnIndexes : Retry(d)
    BY <1>1, <2>1, <2>2 DEF FallbackNext, ServeStep, Register, Unregister, FailNoAddress, Fail, Refresh,
                            Observe, AllUp, fallbackVars, fbVars
  <2>4. d = c /\ SelectNextProtocol(c)
    BY <1>1, <2>1, <2>3 DEF Retry, SelectNextProtocol, BackoffInv
  <2>5. HasFallback /\ (retries[c] = Retries \/ failure[c].quicBroken)
    BY <1>1, <2>4 DEF SelectNextProtocol, BackoffInv
  <2>6. retries[c] = Retries => failures[c] >= Retries
    BY <1>1, FallbackAssumption DEF BackoffInv
  <2> QED BY <2>5, <2>6 DEF HasFallback
<1>2. BackoffInv /\ [FallbackNext]_fallbackVars
         => [\A c \in ConnIndexes :
               protocol[c] = "QUIC" /\ protocol'[c] = "HTTP2" /\ current = "QUIC" /\ pc[c] = "backoff" =>
                  /\ selector # "static"
                  /\ failure[c].quicBroken \/ failures[c] >= Retries]_fallbackVars
  BY <1>1
<1> QED BY <1>2, BackoffInit, BackoffNext, PTL DEF FallbackSpec, FallbackJustified

-----------------------------------------------------------------------------
(* Events and the tracker of connections *)

EventRec == [index : ConnIndexes, type : {"Connected", "Disconnected", "Reconnecting", "Unregistering"},
             protocol : Protocols]

InfoRec == [known : BOOLEAN, connected : BOOLEAN, protocol : Protocols]

Places == {"off", "dialing", "connected", "unregistered", "backoff"}

\* The last event of c in the channel, or the table when there is none, says
\* whether c is connected: up says that it is.
Tells(evs, info, c, up) ==
    /\ (\A j \in 1 .. Len(evs) : evs[j].index # c) => (info.connected <=> up)
    /\ \A j \in 1 .. Len(evs) :
          (evs[j].index = c /\ \A m \in 1 .. Len(evs) : m > j => evs[m].index # c) =>
              (evs[j].type = "Connected" <=> up)

TrackInv ==
    /\ pc \in [ConnIndexes -> Places] /\ protocol \in [ConnIndexes -> Protocols]
    /\ current \in Protocols
    /\ ~lost => /\ events \in Seq(EventRec) /\ tracker \in [ConnIndexes -> InfoRec]
                /\ \A c \in ConnIndexes : Tells(events, tracker[c], c, pc[c] = "connected")

\* No event was sent and nobody is connected.
LEMMA TrackInit == FallbackInit => TrackInv
<1> SUFFICES ASSUME FallbackInit PROVE TrackInv OBVIOUS
<1>1. NoInfo \in InfoRec /\ ~NoInfo.connected BY DEF NoInfo, InfoRec, Protocols
<1>2. tracker \in [ConnIndexes -> InfoRec] /\ \A c \in ConnIndexes : tracker[c] = NoInfo
  BY <1>1 DEF FallbackInit, EvInit
<1>3. events = <<>> /\ events \in Seq(EventRec) /\ Len(events) = 0 BY DEF FallbackInit, EvInit
<1>4. \A c \in ConnIndexes : pc[c] # "connected" BY DEF FallbackInit
<1>5. \A c \in ConnIndexes : Tells(events, tracker[c], c, pc[c] = "connected")
  BY <1>1, <1>2, <1>3, <1>4 DEF Tells
<1>6. pc \in [ConnIndexes -> Places] /\ protocol \in [ConnIndexes -> Protocols] /\ current \in Protocols
  BY DEF FallbackInit, Protocols, Places
<1> QED BY <1>2, <1>3, <1>5, <1>6 DEF TrackInv

\* An event that says what its connection is by now.
LEMMA AppendTells ==
    ASSUME NEW evs \in Seq(EventRec), NEW e \in EventRec, NEW info, NEW c, NEW up \in BOOLEAN,
           IF c = e.index THEN e.type = "Connected" <=> up ELSE Tells(evs, info, c, up)
    PROVE  Append(evs, e) \in Seq(EventRec) /\ Tells(Append(evs, e), info, c, up)
<1> DEFINE new == Append(evs, e)
           n == Len(evs)
<1>1. new \in Seq(EventRec) /\ Len(new) = n + 1 /\ n \in Nat /\ new[n + 1] = e
      /\ \A j \in 1 .. n : new[j] = evs[j]
  OBVIOUS
<1> HIDE DEF new, n
<1>2. CASE c = e.index
  BY <1>1, <1>2 DEF Tells, new
<1>3. CASE c # e.index
  <2>1. Tells(evs, info, c, up) BY <1>3
  <2>2. (\A j \in 1 .. Len(new) : new[j].index # c) => (info.connected <=> up)
    BY <1>1, <1>3, <2>1 DEF Tells, n
  <2>3. ASSUME NEW j \in 1 .. Len(new), new[j].index = c,
               \A m \in 1 .. Len(new) : m > j => new[m].index # c
        PROVE  new[j].type = "Connected" <=> up
    <3>1. j \in 1 .. n BY <1>1, <1>3, <2>3
    <3>2. \A m \in 1 .. n : m > j => evs[m].index # c BY <1>1, <2>3
    <3>3. evs[j].index = c /\ new[j] = evs[j] BY <1>1, <2>3, <3>1
    <3> QED BY <2>1, <3>1, <3>2, <3>3 DEF Tells, n
  <2> QED BY <1>1, <2>2, <2>3 DEF Tells, new
<1> QED BY <1>2, <1>3

\* A connection changes its state and sends one event that tells.
LEMMA SendOne ==
    ASSUME TrackInv, NEW c \in ConnIndexes, NEW x \in Places, NEW e \in EventRec,
           e.index = c, e.type = "Connected" <=> x = "connected",
           pc' = [pc EXCEPT ![c] = x], UNCHANGED <<protocol, current>>, SendEvents(<<e>>)
    PROVE  TrackInv'
<1>1. pc' \in [ConnIndexes -> Places] BY DEF TrackInv
<1>2. ASSUME ~lost'
      PROVE  /\ events' \in Seq(EventRec) /\ tracker' \in [ConnIndexes -> InfoRec]
             /\ \A d \in ConnIndexes : Tells(events', tracker'[d], d, pc'[d] = "connected")
  <2>1. ~lost /\ ~(Len(<<e>>) > BufferSize - Len(events)) /\ tracker' = tracker
    BY <1>2 DEF SendEvents
  <2>2. events \in Seq(EventRec) /\ tracker \in [ConnIndexes -> InfoRec] BY <2>1 DEF TrackInv
  <2>3. Len(<<e>>) <= BufferSize - Len(events) BY <2>1, <2>2, FallbackAssumption
  <2>4. events' = events \o SubSeq(<<e>>, 1, Len(<<e>>)) BY <2>3 DEF SendEvents
  <2>5. events \o SubSeq(<<e>>, 1, Len(<<e>>)) = Append(events, e) BY <2>2
  <2>6. events' = Append(events, e) BY <2>4, <2>5
  <2>7. ASSUME NEW d \in ConnIndexes
        PROVE  /\ Append(events, e) \in Seq(EventRec)
               /\ Tells(Append(events, e), tracker[d], d, pc'[d] = "connected")
    <3>1. pc'[d] = IF d = c THEN x ELSE pc[d] BY DEF TrackInv
    <3>2. Tells(events, tracker[d], d, pc[d] = "connected") BY <2>1 DEF TrackInv
    <3>3. (pc'[d] = "connected") \in BOOLEAN OBVIOUS
    <3>4. IF d = e.index THEN e.type = "Connected" <=> (pc'[d] = "connected")
                         ELSE Tells(events, tracker[d], d, pc'[d] = "connected")
      BY <3>1, <3>2
    <3> QED BY <2>2, <3>3, <3>4, AppendTells
  <2> QED BY <2>1, <2>2, <2>6, <2>7
<1> QED BY <1>1, <1>2 DEF TrackInv, Tells

\* The end of serveTunnel sends two events, which tell the same.
LEMMA SendTwo ==
    ASSUME TrackInv, NEW c \in ConnIndexes, NEW x \in Places, NEW e \in EventRec, NEW f \in EventRec,
           e.index = c, f.index = c, e.type # "Connected", f.type # "Connected", x # "connected",
           pc' = [pc EXCEPT ![c] = x], UNCHANGED <<protocol, current>>, SendEvents(<<e, f>>)
    PROVE  TrackInv'
<1>1. pc' \in [ConnIndexes -> Places] BY DEF TrackInv
<1>2. ASSUME ~lost'
      PROVE  /\ events' \in Seq(EventRec) /\ tracker' \in [ConnIndexes -> InfoRec]
             /\ \A d \in ConnIndexes : Tells(events', tracker'[d], d, pc'[d] = "connected")
  <2>1. ~lost /\ ~(Len(<<e, f>>) > BufferSize - Len(events)) /\ tracker' = tracker
    BY <1>2 DEF SendEvents
  <2>2. events \in Seq(EventRec) /\ tracker \in [ConnIndexes -> InfoRec] BY <2>1 DEF TrackInv
  <2>3. Len(<<e, f>>) <= BufferSize - Len(events) BY <2>1, <2>2, FallbackAssumption
  <2>4. events' = events \o SubSeq(<<e, f>>, 1, Len(<<e, f>>)) BY <2>3 DEF SendEvents
  <2> DEFINE one == Append(events, e)
  <2>5. events \o SubSeq(<<e, f>>, 1, Len(<<e, f>>)) = Append(one, f) BY <2>2
  <2>6. events' = Append(one, f) BY <2>4, <2>5
  <2>7. ASSUME NEW d \in ConnIndexes
        PROVE  /\ Append(one, f) \in Seq(EventRec)
               /\ Tells(Append(one, f), tracker[d], d, pc'[d] = "connected")
    <3>1. pc'[d] = IF d = c THEN x ELSE pc[d] BY DEF TrackInv
    <3>2. Tells(events, tracker[d], d, pc[d] = "connected") BY <2>1 DEF TrackInv
    <3>3. (pc'[d] = "connected") \in BOOLEAN OBVIOUS
    <3>4. IF d = e.index THEN e.type = "Connected" <=> (pc'[d] = "connected")
                         ELSE Tells(events, tracker[d], d, pc'[d] = "connected")
      BY <3>1, <3>2
    <3>5. one \in Seq(EventRec) /\ Tells(one, tracker[d], d, pc'[d] = "connected")
      BY <2>2, <3>3, <3>4, AppendTells
    <3>6. IF d = f.index THEN f.type = "Connected" <=> (pc'[d] = "connected")
                         ELSE Tells(one, tracker[d], d, pc'[d] = "connected")
      BY <3>1, <3>5
    <3> HIDE DEF one
    <3> QED BY <3>3, <3>5, <3>6, AppendTells
  <2> QED BY <2>1, <2>2, <2>6, <2>7
<1> QED BY <1>1, <1>2 DEF TrackInv, Tells

\* dispatchEvents applies the oldest event.
LEMMA DispatchTells ==
    ASSUME TrackInv, Dispatch, UNCHANGED <<pc, protocol, current>>
    PROVE  TrackInv'
<1>1. ASSUME ~lost'
      PROVE  /\ events' \in Seq(EventRec) /\ tracker' \in [ConnIndexes -> InfoRec]
             /\ \A d \in ConnIndexes : Tells(events', tracker'[d], d, pc[d] = "connected")
  <2> DEFINE e == Head(events)
             n == Len(events)
             info == IF e.type = "Connected" THEN [known |-> TRUE, connected |-> TRUE, protocol |-> e.protocol]
                     ELSE [tracker[e.index] EXCEPT !.known = TRUE, !.connected = FALSE]
  <2>1. ~lost /\ sinkAdded BY <1>1 DEF Dispatch
  <2>2. events \in Seq(EventRec) /\ tracker \in [ConnIndexes -> InfoRec] BY <2>1 DEF TrackInv
  <2>3. events' = Tail(events) /\ events # <<>> BY DEF Dispatch
  <2>4. tracker' = [tracker EXCEPT ![e.index] = info] BY <2>1 DEF Dispatch, OnTunnelEvent
  <2>5. e \in EventRec /\ e = events[1] /\ n \in Nat \ {0} BY <2>2, <2>3
  <2>6. /\ events' \in Seq(EventRec) /\ Len(events') = n - 1
        /\ \A j \in 1 .. n - 1 : events'[j] = events[j + 1]
    BY <2>2, <2>3
  <2>7. e.index \in ConnIndexes /\ tracker[e.index] \in InfoRec BY <2>2, <2>5 DEF EventRec
  <2>8. info \in InfoRec /\ (info.connected <=> e.type = "Connected")
    <3>1. CASE e.type = "Connected" BY <2>5, <3>1 DEF InfoRec, EventRec
    <3>2. CASE e.type # "Connected" BY <2>7, <3>2 DEF InfoRec
    <3> QED BY <3>1, <3>2
  <2> HIDE DEF info, e
  <2>9. tracker' \in [ConnIndexes -> InfoRec] /\ tracker'[e.index] = info
        /\ \A d \in ConnIndexes : d # e.index => tracker'[d] = tracker[d]
    BY <2>2, <2>4, <2>7, <2>8
  <2>10. ASSUME NEW d \in ConnIndexes PROVE Tells(events', tracker'[d], d, pc[d] = "connected")
    <3>1. Tells(events, tracker[d], d, pc[d] = "connected") BY <2>1 DEF TrackInv
    <3>2. ASSUME \A j \in 1 .. n - 1 : events[j + 1].index # d
          PROVE  tracker'[d].connected <=> pc[d] = "connected"
      <4>1. \A m \in 1 .. n : m > 1 => events[m].index # d
        <5> SUFFICES ASSUME NEW m \in 1 .. n, m > 1 PROVE events[m].index # d OBVIOUS
        <5>1. m - 1 \in 1 .. n - 1 /\ (m - 1) + 1 = m BY <2>5
        <5> QED BY <3>2, <5>1
      <4>2. CASE d = e.index
        <5>1. e.type = "Connected" <=> pc[d] = "connected" BY <2>5, <3>1, <4>1, <4>2 DEF Tells
        <5> QED BY <2>8, <2>9, <4>2, <5>1
      <4>3. CASE d # e.index
        <5>1. \A m \in 1 .. n : events[m].index # d BY <2>5, <4>1, <4>3
        <5> QED BY <2>9, <3>1, <4>3, <5>1 DEF Tells
      <4> QED BY <4>2, <4>3
    <3>3. ASSUME NEW j \in 1 .. n - 1, events[j + 1].index = d,
                 \A m \in 1 .. n - 1 : m > j => events[m + 1].index # d
          PROVE  events[j + 1].type = "Connected" <=> pc[d] = "connected"
      <4>1. j + 1 \in 1 .. n BY <2>5
      <4>2. ASSUME NEW m \in 1 .. n, m > j + 1 PROVE events[m].index # d
        <5>1. m - 1 \in 1 .. n - 1 /\ m - 1 > j /\ (m - 1) + 1 = m BY <2>5, <4>2
        <5> QED BY <3>3, <5>1
      <4> QED BY <3>1, <3>3, <4>1, <4>2 DEF Tells
    <3>4. (\A j \in 1 .. n - 1 : events'[j].index # d) => (tracker'[d].connected <=> pc[d] = "connected")
      BY <2>6, <3>2
    <3>5. ASSUME NEW j \in 1 .. n - 1, events'[j].index = d,
                 \A m \in 1 .. n - 1 : m > j => events'[m].index # d
          PROVE  events'[j].type = "Connected" <=> pc[d] = "connected"
      <4>1. events'[j] = events[j + 1] BY <2>6
      <4>2. \A m \in 1 .. n - 1 : m > j => events[m + 1].index # d BY <2>6, <3>5
      <4> QED BY <3>3, <3>5, <4>1, <4>2
    <3>6. Len(events') = n - 1 BY <2>6
    <3> HIDE DEF n
    <3> QED BY <3>4, <3>5, <3>6, Zenon DEF Tells
  <2> QED BY <2>6, <2>9, <2>10
<1> QED BY <1>1 DEF TrackInv, Tells

\* Every step of a connection that changes whether it is connected sends an
\* event that says so.
LEMMA TrackNext == TrackInv /\ [FallbackNext]_fallbackVars => TrackInv'
<1> SUFFICES ASSUME TrackInv, [FallbackNext]_fallbackVars PROVE TrackInv' OBVIOUS
<1>0. \A c \in ConnIndexes, p \in Protocols, t \in {"Connected", "Disconnected", "Reconnecting", "Unregistering"} :
         Event(c, t, p) \in EventRec /\ Event(c, t, p).index = c /\ Event(c, t, p).type = t
  BY DEF Event, EventRec
<1>1. ASSUME UNCHANGED evVars, pc' \in [ConnIndexes -> Places], protocol' \in [ConnIndexes -> Protocols],
             current' \in Protocols, \A c \in ConnIndexes : pc'[c] = "connected" <=> pc[c] = "connected"
      PROVE  TrackInv'
  BY <1>1 DEF TrackInv, Tells, evVars
<1>2. CASE UNCHANGED fallbackVars BY <1>1, <1>2 DEF fallbackVars, fbVars, TrackInv
<1>3. ASSUME NEW c \in ConnIndexes, StartOther(c) PROVE TrackInv'
  BY <1>1, <1>3, FallbackAssumption DEF StartOther, TrackInv, Places
<1>4. ASSUME NEW c \in ConnIndexes, Retry(c) PROVE TrackInv'
  <2>1. protocol' \in [ConnIndexes -> Protocols] /\ current' \in Protocols
    BY <1>4 DEF Retry, SelectNextProtocol, TrackInv, Protocols
  <2>2. pc[c] = "backoff" /\ pc' = [pc EXCEPT ![c] = "dialing"] /\ UNCHANGED evVars
    BY <1>4 DEF Retry
  <2> QED BY <1>1, <2>1, <2>2 DEF TrackInv, Places
<1>5. ASSUME NEW c \in ConnIndexes, Register(c) PROVE TrackInv'
  <2> DEFINE e == Event(c, "Connected", protocol[c])
  <2>1. protocol[c] \in Protocols BY DEF TrackInv
  <2>2. e \in EventRec /\ e.index = c /\ e.type = "Connected" BY <1>0, <2>1
  <2>3. pc' = [pc EXCEPT ![c] = "connected"] /\ UNCHANGED <<protocol, current>> /\ SendEvents(<<e>>)
    BY <1>5 DEF Register
  <2>4. "connected" \in Places BY DEF Places
  <2> HIDE DEF e
  <2> QED BY <2>2, <2>3, <2>4, SendOne, Zenon
<1>6. ASSUME NEW c \in ConnIndexes, Unregister(c) PROVE TrackInv'
  <2> DEFINE e == Event(c, "Unregistering", "HTTP2")
  <2>1. e \in EventRec /\ e.index = c /\ e.type = "Unregistering" BY <1>0 DEF Protocols
  <2>2. pc' = [pc EXCEPT ![c] = "unregistered"] /\ UNCHANGED <<protocol, current>> /\ SendEvents(<<e>>)
    BY <1>6 DEF Unregister, fbVars
  <2>3. "unregistered" \in Places BY DEF Places
  <2>4. e.type = "Connected" <=> "unregistered" = "connected" BY <2>1
  <2> HIDE DEF e
  <2> QED BY <2>1, <2>2, <2>3, <2>4, SendOne, Zenon
<1>7. ASSUME NEW c \in ConnIndexes, FailNoAddress(c) PROVE TrackInv'
  <2> DEFINE e == Event(c, "Disconnected", "HTTP2")
  <2>1. e \in EventRec /\ e.index = c /\ e.type = "Disconnected" BY <1>0 DEF Protocols
  <2>2. pc' = [pc EXCEPT ![c] = "dialing"] BY <1>7 DEF FailNoAddress, TrackInv
  <2>3. UNCHANGED <<protocol, current>> /\ SendEvents(<<e>>) BY <1>7 DEF FailNoAddress
  <2>4. "dialing" \in Places BY DEF Places
  <2>5. e.type = "Connected" <=> "dialing" = "connected" BY <2>1
  <2> HIDE DEF e
  <2> QED BY <2>1, <2>2, <2>3, <2>4, <2>5, SendOne, Zenon
<1>8. ASSUME NEW c \in ConnIndexes, NEW kind, NEW broken, Fail(c, kind, broken) PROVE TrackInv'
  <2> DEFINE e == Event(c, "Disconnected", "HTTP2")
             f == Event(c, "Reconnecting", "HTTP2")
  <2>1. e \in EventRec /\ e.index = c /\ e.type # "Connected" BY <1>0 DEF Protocols
  <2>2. f \in EventRec /\ f.index = c /\ f.type # "Connected" BY <1>0 DEF Protocols
  <2>3. pc' = [pc EXCEPT ![c] = "backoff"] /\ UNCHANGED <<protocol, current>> /\ SendEvents(<<e, f>>)
    BY <1>8 DEF Fail
  <2>4. "backoff" \in Places /\ "backoff" # "connected" BY DEF Places
  <2> HIDE DEF e, f
  <2> QED BY <2>1, <2>2, <2>3, <2>4, SendTwo, Zenon
<1>9. CASE Refresh
  BY <1>1, <1>9 DEF Refresh, fbVars, TrackInv
<1>10. CASE Observe
  <2>1. UNCHANGED <<pc, protocol, current>> BY <1>10 DEF Observe, fbVars
  <2>2. CASE AddSink BY <2>1, <2>2 DEF AddSink, TrackInv, Tells
  <2> QED BY <1>10, <2>1, <2>2, DispatchTells DEF Observe
<1>11. CASE AllUp BY <1>2, <1>11 DEF AllUp
<1> QED BY <1>2, <1>3, <1>4, <1>5, <1>6, <1>7, <1>8, <1>9, <1>10, <1>11 DEF FallbackNext, ServeStep

\* While no event is lost, for any number of connections and any size of the
\* channel, the table that readiness and the fall back read is right whenever
\* the channel is empty.
THEOREM TrackerSafe == FallbackSpec => []TrackerAgrees
<1>1. TrackInv => TrackerAgrees
  <2> SUFFICES ASSUME TrackInv, events = <<>>, ~lost, NEW c \in ConnIndexes
               PROVE  tracker[c].connected = (pc[c] = "connected")
    BY DEF TrackerAgrees
  <2>1. tracker[c] \in InfoRec /\ Tells(<<>>, tracker[c], c, pc[c] = "connected") BY DEF TrackInv
  <2>2. tracker[c].connected <=> pc[c] = "connected" BY <2>1 DEF Tells
  <2>3. tracker[c].connected \in BOOLEAN BY <2>1 DEF InfoRec
  <2> QED BY <2>2, <2>3
<1> QED BY <1>1, TrackInit, TrackNext, PTL DEF FallbackSpec
=============================================================================
