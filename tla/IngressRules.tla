---------------------------- MODULE IngressRules ----------------------------
(***************************************************************************)
(* Ingress rules: a configuration from a file or from flags is validated   *)
(* into rules, which the edge may take over as its remote configuration;   *)
(* a request is served by the rule that FindMatchingRule returns.          *)
(* A host name is the sequence of its labels, a path pattern the set of    *)
(* paths it matches.                                                       *)
(***************************************************************************)
EXTENDS Integers, Sequences, SequencesExt

CONSTANTS
    Files,      \* configuration files with ingress rules: [rules, top]
    Flags,      \* command lines: [service, own]
    Requests,   \* requests: [host, path], the host without its port
    Management, \* host name of the management rule
    Puny        \* label -> its punycode

VARIABLES
    given,   \* the configuration that is loaded
    stage,   \* raw, refused, local or remote
    local,   \* the rules it is validated into
    remote   \* the rules after the edge has taken the configuration over

ingressVars == <<given, stage, local, remote>>

Star == "*"
NoHost == <<>>
AnyPath == {"any"}
-----------------------------------------------------------------------------
(* Origin request options: one per way of merging and converting them.      *)
(* timeout stands for options whose default is not the zero value, header   *)
(* for those whose default is.                                              *)

Options == {"timeout", "header", "bastion", "ipRules", "access"}
Unset == [o \in Options |-> "unset"]
Default == [o \in Options |-> IF o = "timeout" THEN "30s" ELSE "zero"]

\* setConfig and originRequestFromConfig: an option that is set wins.
SetConfig(defaults, overrides) ==
    [o \in Options |-> IF overrides[o] = "unset" THEN defaults[o] ELSE overrides[o]]

\* Mutant: zero durations are left out like other zero values.
ConvertDropsZeros(c) ==
    [o \in Options |-> IF c[o] \in {Default[o], "zero"} THEN "unset" ELSE c[o]]

\* ConvertToRawOriginConfig: a value equal to the default is left out, and so
\* is an access section that is not required.
ConvertToRawOriginConfig(c) ==
    [o \in Options |-> IF c[o] = Default[o] \/ (o = "access" /\ c[o] # "required")
                       THEN "unset" ELSE c[o]]
-----------------------------------------------------------------------------
(* Validation *)

IsCatchAll(r) == r.host \in {NoHost, <<Star>>} /\ r.path = AnyPath

\* validateHostname: no port, a wildcard only as the first character, and the
\* last rule and no other catches all.
ValidHostname(rules, i) ==
    /\ ~rules[i].port
    /\ \A j \in 2 .. Len(rules[i].host) : rules[i].host[j] # Star
    /\ IsCatchAll(rules[i]) <=> i = Len(rules)

\* The service, after a bastion option of the rule or of the top level.
ServiceOf(r, cfg) ==
    IF r.service \notin {"unix", "status", "badstatus", "hello", "socks"} /\ (r.service = "bastion" \/ cfg["bastion"] = "on")
    THEN "bastion" ELSE r.service

ValidRule(rules, i, top) ==
    LET r == rules[i] IN
    /\ ServiceOf(r, SetConfig(top, r.own)) \notin {"badstatus", "badurl"}
    /\ r.service = "socks" => r.own["ipRules"] # "bad"
    /\ r.own["access"] # "noTeam"
    /\ ValidHostname(rules, i)
    /\ r.path # {"badRegexp"}

\* idna.Lookup.ToASCII refuses wildcards, and an equal name is not kept.
Punycode(r) ==
    IF IsCatchAll(r) \/ Star \in Range(r.host) THEN NoHost
    ELSE LET p == [i \in DOMAIN r.host |-> Puny[r.host[i]]] IN IF p = r.host THEN NoHost ELSE p

\* The IP rules of a SOCKS service and the JWT validator come from the rule
\* itself; its other options are merged with those of the top level.
ValidateRule(r, top) ==
    LET cfg == SetConfig(top, r.own)
        service == ServiceOf(r, cfg) IN
    [host |-> r.host, puny |-> Punycode(r), path |-> r.path, service |-> service,
     jwt |-> r.own["access"] = "required",
     policy |-> IF service = "socks" THEN r.own["ipRules"] ELSE "none",
     cfg |-> IF service = "bastion" THEN [cfg EXCEPT !["bastion"] = "on"] ELSE cfg]

ValidateIngress(rules, top) == [i \in DOMAIN rules |-> ValidateRule(rules[i], top)]

\* ParseIngressFromConfigAndCLI: without rules in the file there is one rule
\* from the flags, or one that answers 503.
CLIRule(f) ==
    [host |-> NoHost, puny |-> NoHost, path |-> AnyPath, jwt |-> FALSE, policy |-> "none",
     service |-> f.service, cfg |-> SetConfig(Default, f.own)]
DefaultOrigin ==
    [CLIRule([service |-> "status", own |-> Unset]) EXCEPT !.cfg = [o \in Options |-> "zero"]]

\* Host names are sequences of labels.  That of the management service is no
\* wildcard, and neither is the punycode of a label that is none.  IP rules that
\* are set are not empty (setIPRules), those of the top level are the ones that
\* could be parsed (originRequestFromConfig drops the others).  The flags have
\* neither IP rules nor Access, and --bastion, which comes before the URL, is
\* not given as false.
ASSUME RulesAssumption ==
    /\ Management \in Seq(STRING) /\ Star \notin Range(Management)
    /\ Star \notin Range(Puny)
    /\ \A f \in Files :
          /\ f.rules \in Seq(Range(f.rules)) /\ f.rules # <<>> /\ f.top["ipRules"] # "bad"
          /\ \A i \in DOMAIN f.rules : /\ f.rules[i].host \in Seq(DOMAIN Puny \union {Star})
                                       /\ f.rules[i].own["ipRules"] # "zero"
    /\ \A f \in Flags :
          /\ f.own["ipRules"] = "unset" /\ f.own["access"] = "unset"
          /\ f.service \notin {"socks", "badstatus"}
          /\ f.service = "bastion" => f.own["bastion"] = "on"
          /\ f.own["bastion"] = "on" => f.service \in {"bastion", "hello"}
    /\ \A q \in Requests : q.host \in Seq(STRING)
-----------------------------------------------------------------------------
IngressInit ==
    /\ given \in Files \union {[rules |-> <<>>, top |-> Unset, flags |-> f] : f \in Flags}
    /\ stage = "raw" /\ local = <<>> /\ remote = <<>>

Load ==
    /\ stage = "raw" /\ given.rules # <<>>
    /\ LET top == SetConfig(Default, given.top) IN
       \/ /\ \A i \in DOMAIN given.rules : ValidRule(given.rules, i, top)
          /\ local' = ValidateIngress(given.rules, top) /\ stage' = "local"
       \/ /\ \E i \in DOMAIN given.rules : ~ValidRule(given.rules, i, top)
          /\ stage' = "refused" /\ UNCHANGED local
    /\ UNCHANGED <<given, remote>>

LoadFlags ==
    /\ stage = "raw" /\ given.rules = <<>>
    /\ \/ given.flags.service = "badurl" /\ stage' = "refused" /\ UNCHANGED local
       \/ given.flags.service = "none" /\ stage' = "local" /\ local' = <<DefaultOrigin>>
       \/ given.flags.service \notin {"none", "badurl"} /\ stage' = "local" /\ local' = <<CLIRule(given.flags)>>
    /\ UNCHANGED <<given, remote>>

\* convertToUnvalidatedIngressRules
Unvalidated(r) ==
    [host |-> r.host, port |-> FALSE, path |-> r.path, service |-> r.service,
     own |-> ConvertToRawOriginConfig(r.cfg)]

\* The local configuration is sent to the edge, which pushes it back as the
\* remote one, without options at the top level.
Migrate ==
    /\ stage = "local"
    /\ LET rules == [i \in DOMAIN local |-> Unvalidated(local[i])] IN
       \/ /\ \A i \in DOMAIN rules : ValidRule(rules, i, Default)
          /\ remote' = ValidateIngress(rules, Default) /\ stage' = "remote"
       \/ /\ \E i \in DOMAIN rules : ~ValidRule(rules, i, Default)
          /\ stage' = "refused" /\ UNCHANGED remote
    /\ UNCHANGED <<given, local>>

IngressNext == Load \/ LoadFlags \/ Migrate
-----------------------------------------------------------------------------
(* Matching *)

\* Mutant: the wildcard also stands for no label at all.
MatchHostOrParent(pattern, host) ==
    \/ pattern = host
    \/ pattern # NoHost /\ pattern[1] = Star /\ IsSuffix(Tail(pattern), host)

\* A name that starts with "*." is compared as a suffix, from its first dot.
MatchHost(pattern, host) ==
    \/ pattern = host
    \/ /\ Len(pattern) > 1 /\ pattern[1] = Star
       /\ IsSuffix(Tail(pattern), host) /\ Len(host) >= Len(pattern)

PathMatches(r, path) == r.path = AnyPath \/ path \in r.path

Matches(r, host, path) ==
    /\ \/ r.host \in {NoHost, <<Star>>} \/ MatchHost(r.host, host)
       \/ r.puny # NoHost /\ MatchHost(r.puny, host)
    /\ PathMatches(r, path)

\* FindMatchingRule: the management rule, then the first rule that matches,
\* then the last one.  A port in the host name is left out.
FindMatchingRule(rules, q) ==
    LET S == {i \in DOMAIN rules : Matches(rules[i], q.host, q.path)} IN
    IF MatchHost(Management, q.host) THEN -1
    ELSE IF S = {} THEN Len(rules) ELSE Min(S)
-----------------------------------------------------------------------------
(* Properties *)

\* What a host name in a rule says: any name, this name (in either spelling),
\* or any name below a domain.
Covers(name, host) ==
    \/ name \in {NoHost, <<Star>>}
    \/ Star \notin Range(name) /\ host \in {name, [i \in DOMAIN name |-> Puny[name[i]]]}
    \/ \E k \in 1 .. Len(host) - 1 : name = <<Star>> \o SubSeq(host, k + 1, Len(host))

\* Every request is served by the first rule whose name and path cover it, the
\* name being the one in the configuration; a validated configuration always
\* has such a rule, and only the name of the management service goes elsewhere.
FirstRuleServes ==
    stage = "local" /\ given.rules # <<>> =>
       \A q \in Requests :
          LET i == FindMatchingRule(local, q)
              Serves(j) == Covers(given.rules[j].host, q.host) /\ PathMatches(given.rules[j], q.path)
          IN  \/ i = -1 /\ q.host = Management
              \/ i \in DOMAIN local /\ Serves(i) /\ \A j \in 1 .. i - 1 : ~Serves(j)

\* A configuration that the edge takes over routes and treats every request as
\* before: none is refused, and each rule has the same service and options,
\* zero values included.  Access and IP rules at the top level are the
\* exception: the validator and the policy of a rule are made from its own
\* options alone.
SameAfterMigration ==
    /\ stage = "refused" => local = <<>>
    /\ stage = "remote" /\ given.top["access"] = "unset" /\ given.top["ipRules"] = "unset" =>
          /\ \A q \in Requests : FindMatchingRule(remote, q) = FindMatchingRule(local, q)
          /\ \A i \in DOMAIN local :
                [remote[i] EXCEPT !.cfg["access"] = "-"] = [local[i] EXCEPT !.cfg["access"] = "-"]
=============================================================================
