---------------------------- MODULE Orchestrator ----------------------------
(***************************************************************************)
(* The configuration orchestrator: configurations are pushed by the edge   *)
(* over any connection, in any order and more than once; each accepted one *)
(* starts its origins, replaces the proxy that requests are given, and     *)
(* shuts the origins of the previous one down.  A proxy is named after the *)
(* version of its configuration.                                           *)
(***************************************************************************)
EXTENDS Integers

CONSTANTS
    Versions,  \* versions of remote configurations
    None

\* The configuration the process starts with.
Local == -1

\* An update: the version it applies and how far it has come.
Updates == [v : Versions, step : {"started", "limited", "stored"}]

ASSUME VersionsAssumption ==
    /\ Versions \subseteq Nat
    /\ None \notin Versions \union {Local} /\ None \notin Updates

VARIABLES
    version,   \* Orchestrator.currentVersion
    proxy,     \* the proxy in the atomic value, read without the lock
    limit,     \* the version whose flow limit and dialer are in use
    running,   \* proxies whose origins run (their shutdown channel is open)
    closer,    \* proxyShutdownC: the proxy it shuts down, or None
    updating,  \* the update that holds the lock: a record, or None
    orphans,   \* origins of a failed StartOrigins run, and are never shut down
    stopping,  \* shutdownC is closed
    waiting    \* the goroutine that closes the last proxy still waits

orVars == <<version, proxy, limit, running, closer, updating, orphans, stopping, waiting>>

Free == updating = None

\* NewOrchestrator: version -1 lets a migrated configuration start at 0.
OrInit ==
    /\ version = Local /\ proxy = Local /\ limit = Local
    /\ running = {Local} /\ closer = Local
    /\ updating = None /\ orphans = FALSE /\ stopping = FALSE /\ waiting = TRUE

\* UpdateConfig returns the current version, and an error unless the version
\* is old: the configuration does not parse, or updateIngress fails before
\* anything is started.
OldVersion(v) ==
    /\ Free /\ v <= version
    /\ UNCHANGED orVars

Refuse(v) ==
    /\ Free /\ v > version
    /\ UNCHANGED orVars

\* The services of rules.  Those that need a transport fail to start when the
\* pool of certificates cannot be loaded; the hello world server also when it
\* cannot listen, and it alone runs until the shutdown channel is closed.
Services == {"unix", "http", "tcp", "socks", "status", "hello"}
NeedTransport == {"unix", "http", "hello"}
RunsUntilShutdown(S) == "hello" \in S

\* StartOrigins stops at the first rule whose service does not start.  What was
\* started before it keeps a shutdown channel that nobody closes.
StartFails(v) ==
    /\ Free /\ v > version /\ ~stopping
    /\ \E before \in SUBSET Services, failing \in NeedTransport : orphans' = (orphans \/ RunsUntilShutdown(before))
    /\ UNCHANGED <<version, proxy, limit, running, closer, updating, stopping, waiting>>

StartOrigins(v) ==
    /\ Free /\ v > version /\ ~stopping
    /\ updating' = [v |-> v, step |-> "started"]
    /\ running' = running \union {v}
    /\ UNCHANGED <<version, proxy, limit, closer, orphans, stopping, waiting>>

\* The limit and the dialer change before the proxy does.
SetLimits ==
    /\ ~Free /\ updating.step = "started"
    /\ updating' = [updating EXCEPT !.step = "limited"]
    /\ limit' = updating.v
    /\ UNCHANGED <<version, proxy, running, closer, orphans, stopping, waiting>>

\* Mutant: the old origins are shut down before the proxy is replaced.
StoreProxyLate ==
    /\ ~Free /\ updating.step = "limited"
    /\ updating' = [updating EXCEPT !.step = "stored"]
    /\ running' = running \ {closer} /\ closer' = updating.v
    /\ UNCHANGED <<version, proxy, limit, orphans, stopping, waiting>>

StoreProxy ==
    /\ ~Free /\ updating.step = "limited"
    /\ updating' = [updating EXCEPT !.step = "stored"]
    /\ proxy' = updating.v
    /\ UNCHANGED <<version, limit, running, closer, orphans, stopping, waiting>>

\* The previous origins are shut down, the version is set, the lock released.
ClosePrevious ==
    /\ ~Free /\ updating.step = "stored"
    /\ running' = running \ {closer}
    /\ closer' = updating.v
    /\ version' = updating.v
    /\ updating' = None
    /\ UNCHANGED <<proxy, limit, orphans, stopping, waiting>>

\* Mutant: the last proxy is closed without taking the lock.
CloseLastProxyUnlocked ==
    /\ stopping /\ waiting /\ waiting' = FALSE
    /\ running' = running \ {closer} /\ closer' = None
    /\ UNCHANGED <<version, proxy, limit, updating, orphans, stopping>>

\* waitToCloseLastProxy
CloseLastProxy ==
    /\ stopping /\ waiting /\ Free /\ waiting' = FALSE
    /\ running' = running \ {closer} /\ closer' = None
    /\ UNCHANGED <<version, proxy, limit, updating, orphans, stopping>>

OrUpdate(v) == OldVersion(v) \/ Refuse(v) \/ StartFails(v) \/ StartOrigins(v)
OrStep == SetLimits \/ StoreProxy \/ ClosePrevious \/ CloseLastProxy

OrTypeOK ==
    /\ version \in Versions \union {Local} /\ proxy \in Versions \union {Local}
    /\ limit \in Versions \union {Local} /\ running \subseteq Versions \union {Local}
    /\ closer \in Versions \union {Local, None}
    /\ updating \in Updates \union {None}
    /\ orphans \in BOOLEAN /\ stopping \in BOOLEAN /\ waiting \in BOOLEAN
-----------------------------------------------------------------------------
\* A request is never handed a proxy whose origins were shut down, until
\* cloudflared itself stops: updateIngress stores the new proxy before it
\* closes the channel of the old one.
ProxyIsServed == closer # None => proxy \in running

\* A configuration is applied as a whole or not at all, refused, failed and old
\* ones included: between updates the version, the proxy and the limits are of
\* one configuration, and no origins of another one run; during an update only
\* those of the new one run as well, and after the shutdown none do.
AppliedWhole ==
    /\ Free => limit = version /\ proxy = version
    /\ running \subseteq {version} \union (IF Free THEN {} ELSE {updating.v})
    /\ closer = None => running = {}

\* Requests are served by the configuration that was applied, by all of it.
ProxyRuns == ProxyIsServed /\ AppliedWhole

\* Neither the version nor the proxy that requests are given ever goes back to
\* an older configuration, in whatever order the edge pushes them.
VersionsGrow == [][version' >= version /\ proxy' >= proxy]_orVars

\* The shutdown of cloudflared shuts the origins of every configuration that
\* was applied down, also when it meets an update half way.
OriginsStop == stopping ~> running = {}
=============================================================================
