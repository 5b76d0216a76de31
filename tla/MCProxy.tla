------------------------------ MODULE MCProxy ------------------------------
(* What a request meets on its way through the connector: the ingress rules *)
(* that choose its origin, the stream that carries it, and the transport to *)
(* a TLS origin.  They share no state, so each behaviour is of one of them  *)
(* and their state spaces add up.                                           *)
EXTENDS OriginStreams, IngressRules, OriginHTTP, FlowDatagrams

\* Rules whose names overlap (exact, wildcard, parent, unicode), and rules
\* that are refused (a wildcard inside, a port, a bad expression or service).
Rule(host, path, service, own) == [host |-> host, port |-> FALSE, path |-> path, service |-> service, own |-> own]
With(o, v) == [Unset EXCEPT ![o] = v]

SomeRules ==
    { Rule(<<"a", "e">>, AnyPath, "http", With("timeout", "zero")),
      Rule(<<"a", "e">>, {"p"}, "socks", With("ipRules", "deny")),
      Rule(<<"*", "e">>, AnyPath, "http", With("access", "required")),
      Rule(<<"*", "e">>, {"p"}, "http", With("bastion", "on")),
      Rule(<<"u~", "e">>, AnyPath, "unix", With("header", "set")),
      Rule(<<"*">>, {"p"}, "hello", Unset),
      Rule(NoHost, AnyPath, "socks", With("access", "notRequired")),
      Rule(<<"*">>, AnyPath, "http", With("timeout", "1s")),
      Rule(NoHost, AnyPath, "status", Unset) }
BadRules ==
    { Rule(<<"a", "*", "e">>, AnyPath, "http", Unset), Rule(<<"e">>, {"badRegexp"}, "http", Unset),
      [Rule(<<"e">>, AnyPath, "http", Unset) EXCEPT !.port = TRUE], Rule(NoHost, AnyPath, "badurl", Unset),
      Rule(NoHost, AnyPath, "badstatus", Unset), Rule(NoHost, AnyPath, "http", With("access", "noTeam")),
      Rule(NoHost, AnyPath, "socks", With("ipRules", "bad")) }
Tops == {Unset, With("timeout", "1s"), With("bastion", "on"), With("header", "set"), With("access", "required"),
         With("ipRules", "deny")}

MCFiles ==
    {[rules |-> r, top |-> t] : r \in UNION {[1 .. n -> SomeRules] : n \in 1 .. 2} \union [1 .. 1 -> BadRules], t \in Tops}
    \union {[rules |-> <<r, s, Rule(NoHost, AnyPath, "http", Unset)>>, top |-> Unset] : r, s \in SomeRules \union BadRules}
MCFlags == [service : {"none", "http", "badurl", "hello"}, own : {Unset, With("timeout", "zero"), With("header", "set")}]
MCRequests ==
    [host : {<<"a", "e">>, <<"b", "a", "e">>, <<"e">>, <<"u~", "e">>, <<"xn", "e">>, <<"m">>, NoHost}, path : {"p", "q"}]
MCManagement == <<"m">>
MCPuny == [l \in {"a", "e", "m"} |-> l] @@ [l \in {"u~"} |-> "xn"]

\* Datagrams of both families around each limit on the length.
Filled(n) == [i \in 1 .. n |-> 7]
Ids == {[i \in 1 .. 16 |-> i], [i \in 1 .. 16 |-> 0]}
MCMessages ==
    [type : {"registration"}, id : Ids, addr : {Filled(4), [i \in 1 .. 16 |-> 16 - i]}, port : {0, 258, 65535},
     idle : {0, 258}, traced : BOOLEAN, payload : {Filled(n) : n \in {0, 1, 48, 49, 60, 61}}]
    \union [type : {"payload"}, id : Ids, payload : {Filled(n) : n \in {0, 1, 22, 23}}]
    \union [type : {"icmp"}, payload : {Filled(n) : n \in {0, 1, 22, 23}}]
    \union [type : {"response"}, id : Ids, resp : {0, 255}, msg : {Filled(n) : n \in 0 .. 3}]

VARIABLE part

vars == <<streamVars, ingressVars, httpVars, flowVars, part>>

\* A part that does not run has one initial state, where none of its fair
\* actions is enabled.
Init ==
    /\ part \in {"stream", "ingress", "http", "flow", "codec"}
    /\ StreamInit /\ (part # "stream" => kind = "ws" /\ timeouts)
    /\ IF part = "ingress" THEN IngressInit ELSE given = "-" /\ stage = "raw" /\ local = <<>> /\ remote = <<>>
    /\ HTTPInit
    /\ FlowInit /\ (part # "codec" => wire.type = "icmp" /\ wire.payload = <<>>)

Next ==
    \/ part = "stream" /\ StreamNext /\ UNCHANGED <<ingressVars, httpVars, flowVars, part>>
    \/ part = "ingress" /\ IngressNext /\ UNCHANGED <<streamVars, httpVars, flowVars, part>>
    \/ part = "http" /\ HTTPNext /\ UNCHANGED <<streamVars, ingressVars, flowVars, part>>
    \/ part = "flow" /\ FlowNext /\ UNCHANGED <<streamVars, ingressVars, httpVars, part>>

Spec == Init /\ [][Next]_vars /\ StreamFairness /\ FlowFairness
=============================================================================
