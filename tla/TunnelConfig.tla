---------------------------- MODULE TunnelConfig ----------------------------
(***************************************************************************)
(* What the connections of a tunnel are made with.  prepareTunnelConfig    *)
(* reads the flags once; the features of the account come from a DNS       *)
(* record that is looked up again and again; each connection takes a       *)
(* snapshot of them, dials the edge from a socket of its own, chooses its  *)
(* datagram protocol and announces its features.                           *)
(***************************************************************************)
EXTENDS Naturals, FiniteSets, FiniteSetsExt

CONSTANTS
    Indexes,      \* connection indexes
    FlagSets,     \* the flags that the tunnel may be started with
    Interfaces,   \* network interfaces: whether they have the IPv4 source, an IPv6 address
    AccountHash,  \* switchThreshold of the account
    Percentages,  \* what the DNS record may say of datagrams v3
    Sockets,      \* local UDP ports
    LocalResolver \* DNS resolvers that the system may use

ASSUME TunnelConfigAssumption ==
    /\ AccountHash \in 0..99 /\ Percentages \subseteq 0..100 /\ Indexes \subseteq Nat
    /\ \A f \in FlagSets : f.resolvers \subseteq LocalResolver \union {"bad"}

VARIABLES
    flags,     \* the flags, forgotten when they are read
    config,    \* TunnelConfig, or what kept it from being made
    percent,   \* remoteFeatures: DatagramV3Percentage
    portFor,   \* portForConnIndex
    link,      \* index -> connection: where it is, protocol, snapshot, address family, socket, handler
    resolvers  \* DNSResolverService.addresses

tcVars == <<flags, config, percent, portFor, link, resolvers>>

NoPort == "none"
Down == [at |-> "down", quic |-> FALSE, version |-> "none", announced |-> {}, strict |-> FALSE, family |-> "none", port |-> NoPort, handler |-> "none"]
Default == {"127.0.0.1"}
-----------------------------------------------------------------------------
(* prepareTunnelConfig *)

ParseConfigIPVersion(v) == IF v \in {"4", "6", "auto"} THEN v ELSE "error"

\* parseConfigBindAddress and testIPBindable.
BindAddress(b) == IF b \in {"", "4", "6"} THEN b ELSE "error"

\* The bind address wins over the flag.
AdjustIPVersionByBindAddress(v, b) == IF b = "" THEN v ELSE b

\* The region of the flag and the endpoint of the credentials exclude each other.
RegionError(f) == f.region /\ f.endpoint

\* At most ten static resolvers, all of them addresses with ports.
ParseResolverAddrPorts(rs) == IF Cardinality(rs) > 10 \/ "bad" \in rs THEN {"error"} ELSE rs

\* determineICMPv4Src: without a flag, what the system would use, or any.
DetermineICMPv4Src(user) == IF user \in {"", "4"} THEN "4" ELSE "error"

\* determineICMPv6Src: an address on the interface of the IPv4 source, or else
\* on the first one with an IPv6 address, or any (0).
DetermineICMPv6Src(user) ==
    LET with6 == {i \in DOMAIN Interfaces : Interfaces[i].v6}
        same  == {i \in with6 : Interfaces[i].v4}
    IN  IF user # "" THEN 0 ELSE IF same # {} THEN Min(same) ELSE IF with6 # {} THEN Min(with6) ELSE 0

\* newICMPRouter: without sources the tunnel runs without ICMP.
ICMPSources(f) ==
    IF DetermineICMPv4Src(f.icmp4) = "error" \/ f.icmp6 \notin {"", "6"} THEN {}
    ELSE {DetermineICMPv6Src(f.icmp6)}

\* dedupAndRemoveFeatures; --post-quantum announces itself.
DedupAndRemoveFeatures(fs) == fs \ {"v3", "v3_1"}
CliFeatures(f) == DedupAndRemoveFeatures(f.features \union (IF f.postQuantum THEN {"postquantum"} ELSE {}))

Invalid(f) ==
    \/ f.graceTooLong \/ RegionError(f)
    \/ ParseConfigIPVersion(f.ipVersion) = "error" \/ BindAddress(f.bind) = "error"
    \/ ParseResolverAddrPorts(f.resolvers) = {"error"}

PrepareTunnelConfig ==
    /\ config.at = "none" /\ \E f \in flags :
          /\ config' = [at |-> IF Invalid(f) THEN "failed" ELSE "ready",
                        ipVersion |-> AdjustIPVersionByBindAddress(f.ipVersion, f.bind), bind |-> f.bind,
                        cli |-> CliFeatures(f), strict |-> f.postQuantum, static |-> f.resolvers,
                        icmp |-> ICMPSources(f)]
          /\ resolvers' = IF f.resolvers = {} \/ Invalid(f) THEN Default ELSE f.resolvers
    /\ flags' = {} /\ UNCHANGED <<percent, portFor, link>>
-----------------------------------------------------------------------------
(* featureSelector *)

\* refresh: the first time before the configuration is made; a lookup that
\* fails leaves what is there, in the beginning a percentage of zero.
RefreshFeatures ==
    /\ percent' \in Percentages
    /\ UNCHANGED <<flags, config, portFor, link, resolvers>>

DatagramVersion(p) ==
    IF "v3_2" \in config.cli THEN "v3_2" ELSE IF "v2" \notin config.cli /\ p > AccountHash THEN "v3_2" ELSE "v2"

DefaultFeatures == {"v2"}
ClientFeatures(p) == DedupAndRemoveFeatures(DefaultFeatures \union config.cli \union {DatagramVersion(p)})

\* ConnectionOptionsSnapshot
Snapshot(l, p) == [l EXCEPT !.version = DatagramVersion(p), !.announced = ClientFeatures(p), !.strict = config.strict]
-----------------------------------------------------------------------------
(* serveConnection *)

EdgeFamilies == IF config.ipVersion = "auto" THEN {"4", "6"} ELSE {config.ipVersion}

\* The options are made before the connection is dialled.
ConnectQUIC(i) ==
    /\ config.at = "ready" /\ link[i] = Down
    /\ \E a \in EdgeFamilies : link' = [link EXCEPT ![i] = [Snapshot(Down, percent) EXCEPT !.at = "dial", !.quic = TRUE, !.family = a]]
    /\ UNCHANGED <<flags, config, percent, portFor, resolvers>>

Busy == {link[j].port : j \in Indexes}

\* createUDPConnForConnIndex: the port of the index once more, unless somebody
\* has it, or a new one; without any the port is forgotten.
Listen(i, s) ==
    /\ portFor' = [portFor EXCEPT ![i] = s]
    /\ link' = [link EXCEPT ![i] = [@ EXCEPT !.at = "handshake", !.port = s]]
CreateUDPConn(i) ==
    /\ link[i].at = "dial" /\ link[i].quic
    /\ \/ portFor[i] \in Sockets \ Busy /\ Listen(i, portFor[i])
       \/ \E s \in Sockets \ Busy : Listen(i, s)
       \/ portFor' = [portFor EXCEPT ![i] = NoPort] /\ link' = [link EXCEPT ![i] = Down]
    /\ UNCHANGED <<flags, config, percent, resolvers>>

\* Mutant: the features are looked up once more.
HandlerNow(i) == IF DatagramVersion(percent) = "v3_2" THEN "v3" ELSE "v2"
\* serveQUIC: the datagram protocol is the one of the snapshot.
Handler(i) == IF link[i].version = "v3_2" THEN "v3" ELSE "v2"
ServeQUIC(i) ==
    /\ link[i].at = "handshake" /\ link' = [link EXCEPT ![i].at = "serve", ![i].handler = Handler(i)]
    /\ UNCHANGED <<flags, config, percent, portFor, resolvers>>

\* The curves are chosen before the edge is dialled, the options made after.
ConnectHTTP2(i) ==
    /\ config.at = "ready" /\ link[i] = Down
    /\ \E a \in EdgeFamilies : link' = [link EXCEPT ![i].at = "dial", ![i].family = a, ![i].strict = config.strict]
    /\ UNCHANGED <<flags, config, percent, portFor, resolvers>>
ServeHTTP2(i) ==
    /\ link[i].at = "dial" /\ ~link[i].quic
    /\ link' = [link EXCEPT ![i] = [Snapshot(@, percent) EXCEPT !.at = "serve"]]
    /\ UNCHANGED <<flags, config, percent, portFor, resolvers>>

\* The dial fails, or the connection is over; its socket is closed.
Disconnect(i) ==
    /\ link[i].at # "down" /\ link' = [link EXCEPT ![i] = Down]
    /\ UNCHANGED <<flags, config, percent, portFor, resolvers>>
-----------------------------------------------------------------------------
(* DNSResolverService *)

\* StartRefreshLoop and update: the resolver that the system used last, unless
\* resolvers were given.
UpdateResolver ==
    /\ config.at = "ready" /\ config.static = {} /\ \E r \in LocalResolver : resolvers' = {r}
    /\ UNCHANGED <<flags, config, percent, portFor, link>>
-----------------------------------------------------------------------------
TCInit ==
    /\ flags \in {{f} : f \in FlagSets}
    /\ config = [at |-> "none", ipVersion |-> "", bind |-> "", cli |-> {}, strict |-> FALSE, static |-> {}, icmp |-> {}]
    /\ percent = 0 /\ portFor = [i \in Indexes |-> NoPort] /\ link = [i \in Indexes |-> Down]
    /\ resolvers = Default

TCNext ==
    \/ PrepareTunnelConfig \/ RefreshFeatures \/ UpdateResolver
    \/ \E i \in Indexes : ConnectQUIC(i) \/ CreateUDPConn(i) \/ ServeQUIC(i) \/ ConnectHTTP2(i) \/ ServeHTTP2(i) \/ Disconnect(i)
-----------------------------------------------------------------------------
\* What the edge was told about a connection is what the connection does,
\* however often the features changed while it was set up: the edge speaks
\* datagrams v3 to it exactly when v3 is what its handler reads, it is reached
\* from the bind address's family, a tunnel that was started with
\* --post-quantum offers no classical curve and says so, no two connections
\* share a socket, and DNS requests go to the resolvers that were given.
OptionsAgree ==
    /\ \A i \in Indexes : link[i].at = "serve" =>
          /\ link[i].quic => (link[i].handler = "v3" <=> "v3_2" \in link[i].announced)
          /\ config.bind # "" => link[i].family = config.bind
          /\ config.strict => link[i].strict /\ "postquantum" \in link[i].announced
          /\ \A j \in Indexes \ {i} : link[i].port # NoPort => link[j].port # link[i].port
    /\ config.static # {} /\ config.at = "ready" => resolvers = config.static
=============================================================================
