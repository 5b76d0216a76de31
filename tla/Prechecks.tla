----------------------------- MODULE Prechecks ------------------------------
(***************************************************************************)
(* The connectivity pre-checks that run beside the start of a tunnel:      *)
(* the edge's addresses are resolved, QUIC, HTTP/2 and the management API  *)
(* are probed concurrently, with retries and under one deadline, and the   *)
(* rows are judged: which protocol to suggest, and how bad the state is.   *)
(***************************************************************************)
EXTENDS Naturals, Sequences

CONSTANT MaxRetries

ASSUME RetriesAssumption == MaxRetries \in Nat

VARIABLES
    preCfg,   \* --edge-ip-version, --protocol, transports whose TLS configuration fails
    preAt,    \* dns, probe or reported
    groups,   \* one set of address families for each target that was resolved
    tries,    \* dns and mgmt: attempts made
    prober,   \* transport -> families left for the current target, attempt, best result
    rows,     \* transport -> one status for each target
    mgmt,     \* the management API's row
    expired,  \* the deadline of the suite has passed
    reached,  \* history: [transport, target] that were dialled with success
    report    \* the suggested protocol, and whether there is a hard failure or a warning

preVars == <<preCfg, preAt, groups, tries, prober, rows, mgmt, expired, reached, report>>

Transports == {"quic", "http2"}
Families == {4, 6}
NoReport == [suggested |-> "none", hard |-> FALSE, warn |-> FALSE]
FreshTarget == [done |-> {}, attempt |-> 0, best |-> "-"]

PreInit ==
    /\ preCfg \in [ip : SUBSET Families \ {{}}, override : Transports \union {"none"}, tls : SUBSET Transports]
    /\ preAt = "dns" /\ groups = <<>> /\ tries = [dns |-> 0, mgmt |-> 0]
    /\ prober = [t \in Transports |-> FreshTarget] /\ rows = [t \in Transports |-> <<>>]
    /\ mgmt = "-" /\ expired = FALSE /\ reached = {} /\ report = NoReport
-----------------------------------------------------------------------------
\* withRetry: after a failed attempt there is another one, or not; when the
\* deadline has passed and the delay as well, either may be chosen.
Again(n) == n < MaxRetries
GivesUp(n) == n = MaxRetries \/ expired

Answers == UNION {[1..n -> SUBSET Families] : n \in 1..2}

\* Each --edge address is resolved once.
ResolveStaticEdge ==
    /\ preAt = "dns" /\ tries.dns = 0 /\ preAt' = "probe" /\ groups' \in Answers
    /\ UNCHANGED <<preCfg, tries, prober, rows, mgmt, expired, reached, report>>

\* The discovery finds one or two regions, and is tried again while one has no
\* address; when it fails there are two regions without any.
RunDNSProbe ==
    /\ preAt = "dns"
    /\ \E found \in Answers :
          LET complete == \A i \in DOMAIN found : found[i] # {} IN
          \/ ~complete /\ Again(tries.dns) /\ tries' = [tries EXCEPT !.dns = @ + 1] /\ UNCHANGED <<preAt, groups>>
          \/ (complete \/ GivesUp(tries.dns)) /\ preAt' = "probe" /\ groups' = found /\ UNCHANGED tries
    /\ UNCHANGED <<preCfg, prober, rows, mgmt, expired, reached, report>>

DNSOK == \E i \in DOMAIN groups : groups[i] # {}
\* addrsByFamily: at most one address of each family that is configured.
ToProbe(t) == groups[Len(rows[t]) + 1] \intersect preCfg.ip

Row(t, status) ==
    /\ rows' = [rows EXCEPT ![t] = Append(@, status)] /\ prober' = [prober EXCEPT ![t] = FreshTarget]

ProbeTLSConfig(t) == t \notin preCfg.tls
Pending(t) == preAt = "probe" /\ Len(rows[t]) < Len(groups)

\* Rows that need no dial: no TLS configuration, no address at all, or none of
\* a family that may be used.
TLSConfigErr(t) ==
    /\ Pending(t) /\ DNSOK /\ ~ProbeTLSConfig(t) /\ Row(t, "Fail")
    /\ UNCHANGED <<preCfg, preAt, groups, tries, mgmt, expired, reached, report>>
SkipTarget(t) ==
    /\ Pending(t) /\ (~DNSOK \/ (ProbeTLSConfig(t) /\ ToProbe(t) = {})) /\ Row(t, "Skip")
    /\ UNCHANGED <<preCfg, preAt, groups, tries, mgmt, expired, reached, report>>

\* The addresses of a target are tried one after the other, the one of IPv4
\* first; a later success replaces a failure.
EndAddress(t, f, status) ==
    LET best == IF prober[t].best = "Pass" THEN "Pass" ELSE status
        done == prober[t].done \union {f} IN
    IF done = ToProbe(t) THEN Row(t, best)
    ELSE prober' = [prober EXCEPT ![t] = [done |-> done, attempt |-> 0, best |-> best]] /\ UNCHANGED rows

\* probeQUIC, probeHTTP2: a handshake, retried unless the deadline has passed.
Probe(t) ==
    /\ Pending(t) /\ DNSOK /\ ProbeTLSConfig(t)
    /\ \E f \in ToProbe(t) \ prober[t].done :
          /\ \A g \in ToProbe(t) \ prober[t].done : f <= g
          /\ \/ EndAddress(t, f, "Pass") /\ reached' = reached \union {<<t, Len(rows[t]) + 1>>}
             \/ Again(prober[t].attempt) /\ prober' = [prober EXCEPT ![t].attempt = @ + 1] /\ UNCHANGED <<rows, reached>>
             \/ GivesUp(prober[t].attempt) /\ EndAddress(t, f, "Fail") /\ UNCHANGED reached
    /\ UNCHANGED <<preCfg, preAt, groups, tries, mgmt, expired, report>>

ProbeManagementAPI ==
    /\ preAt = "probe" /\ mgmt = "-"
    /\ \/ mgmt' = "Pass" /\ UNCHANGED tries
       \/ Again(tries.mgmt) /\ tries' = [tries EXCEPT !.mgmt = @ + 1] /\ UNCHANGED mgmt
       \/ GivesUp(tries.mgmt) /\ mgmt' = "Fail" /\ UNCHANGED tries
    /\ UNCHANGED <<preCfg, preAt, groups, prober, rows, expired, reached, report>>

Deadline ==
    /\ preAt # "reported" /\ ~expired /\ expired' = TRUE
    /\ UNCHANGED <<preCfg, preAt, groups, tries, prober, rows, mgmt, reached, report>>
-----------------------------------------------------------------------------
(* The report *)

Rows(t) == {rows[t][i] : i \in DOMAIN rows[t]}
\* Mutant: one region that works hides another that fails.
BestStatus(t) == IF "Pass" \in Rows(t) THEN "Pass" ELSE IF "Fail" \in Rows(t) THEN "Fail" ELSE "Skip"
WorstStatus(t) == IF "Fail" \in Rows(t) THEN "Fail" ELSE IF "Pass" \in Rows(t) THEN "Pass" ELSE "Skip"

\* A protocol that was asked for is suggested unless one of its probes failed.
SuggestProtocol ==
    IF preCfg.override # "none" /\ WorstStatus(preCfg.override) # "Fail" THEN preCfg.override
    ELSE IF WorstStatus("quic") = "Pass" THEN "quic"
    ELSE IF WorstStatus("http2") = "Pass" THEN "http2" ELSE "none"

HasHardFail == (\E i \in DOMAIN groups : groups[i] = {}) \/ (\A t \in Transports : "Fail" \in Rows(t))
HasWarn == ~HasHardFail /\ ((("Fail" \in Rows("quic")) # ("Fail" \in Rows("http2"))) \/ mgmt = "Fail")

MakeReport ==
    /\ preAt = "probe" /\ mgmt # "-" /\ \A t \in Transports : Len(rows[t]) = Len(groups)
    /\ preAt' = "reported" /\ report' = [suggested |-> SuggestProtocol, hard |-> HasHardFail, warn |-> HasWarn]
    /\ UNCHANGED <<preCfg, groups, tries, prober, rows, mgmt, expired, reached>>

PreNext ==
    \/ ResolveStaticEdge \/ RunDNSProbe \/ ProbeManagementAPI \/ Deadline \/ MakeReport
    \/ \E t \in Transports : TLSConfigErr(t) \/ SkipTarget(t) \/ Probe(t)
-----------------------------------------------------------------------------
\* The report agrees with what was dialled, in whatever order the probes and
\* the deadline came: without an override a protocol is suggested only if every
\* target with an address that may be used was reached over it, and at least
\* one was; QUIC is passed over only if it missed a target or had none; an
\* environment without hard failure and warning is one where nothing failed.
SuggestionJustified ==
    preAt = "reported" =>
       LET usable == {i \in DOMAIN groups : groups[i] \intersect preCfg.ip # {}}
           works(t) == usable # {} /\ \A i \in usable : <<t, i>> \in reached
           p == report.suggested IN
       /\ preCfg.override = "none" => /\ p \in Transports => works(p)
                                      /\ works("quic") => p = "quic"
                                      /\ works("http2") => p # "none"
       /\ p # "none" => \A i \in usable : <<p, i>> \in reached
       /\ (~report.hard /\ ~report.warn) => (usable = {} \/ \A t \in Transports : works(t))
=============================================================================
