--------------------------- MODULE NetworkRoutes ----------------------------
(***************************************************************************)
(* The commands that manage the account's IP routes and virtual networks:  *)
(* route ip add, delete and show, vnet add, delete and update.  A command  *)
(* first looks up what its arguments name, with one request for each page  *)
(* of the answer, and then makes its call; other commands run in between.  *)
(* The account's tables are external; rows come in the order of their ids. *)
(***************************************************************************)
EXTENDS Naturals, Sequences, FiniteSets

CONSTANTS
    RouteProcs, \* processes, each runs one command after another
    RouteIDs,   \* UUIDs of routes, numbers because pages are in their order
    VnetIDs, VnetNames,
    Networks,   \* CIDRs, as the sets of their addresses
    PerPage,    \* rows on a page
    Unset       \* an argument that was not given

ASSUME RoutesAssumption ==
    /\ IsFiniteSet(RouteIDs) /\ RouteIDs \subseteq Nat \ {0} /\ PerPage \in Nat \ {0}
    /\ Unset \notin VnetIDs \union VnetNames \union Networks

VARIABLES
    vnet,    \* id -> [name, state: free, active or deleted]
    default, \* the default virtual network
    route,   \* id -> [net, vnet, state]
    rcmd     \* process -> its command: arguments, step, pages fetched, rows so far,
             \* and as history what the first request could see

routeVars == <<vnet, default, route, rcmd>>

NoCmd == [op |-> "none", at |-> "idle", net |-> Unset, sup |-> Unset, vnet |-> Unset, flag |-> FALSE,
          id |-> 0, page |-> 0, rows |-> <<>>, first |-> {}]
DeletedRoute == [net |-> Unset, vnet |-> Unset, state |-> "deleted"]
ActiveVnets == {v \in VnetIDs : vnet[v].state = "active"}
ActiveRoutes == {r \in RouteIDs : route[r].state = "active"}

RoutesInit ==
    /\ default \in VnetIDs
    /\ vnet \in [VnetIDs -> {[name |-> Unset, state |-> s] : s \in {"free", "active"}}] /\ default \in ActiveVnets
    /\ route = [r \in RouteIDs |-> [net |-> Unset, vnet |-> Unset, state |-> "free"]]
    /\ rcmd = [p \in RouteProcs |-> NoCmd]

\* What a command that has ended was about is forgotten.
RouteCmdEnds(p) == rcmd' = [rcmd EXCEPT ![p] = NoCmd]
Begins(p, c) == rcmd[p] = NoCmd /\ rcmd' = [rcmd EXCEPT ![p] = c] /\ UNCHANGED <<vnet, default, route>>

\* A request fails, or is refused: the command ends.
RequestFails(p) == RouteCmdEnds(p) /\ UNCHANGED <<vnet, default, route>>
-----------------------------------------------------------------------------
(* The commands and their arguments *)

VnetArgs == VnetIDs \union VnetNames
AddRouteCommand(p) ==
    \E n \in Networks, v \in VnetArgs \union {Unset} :
       Begins(p, [NoCmd EXCEPT !.op = "add", !.at = "vnet", !.net = n, !.vnet = v])
\* By the route's id, or by its network, with or without a virtual network.
DeleteRouteCommand(p) ==
    \/ \E r \in RouteIDs : Begins(p, [NoCmd EXCEPT !.op = "delete", !.at = "call", !.id = r])
    \/ \E n \in Networks, v \in VnetArgs \union {Unset} :
          Begins(p, [NoCmd EXCEPT !.op = "delete", !.at = "vnet", !.net = n, !.vnet = v])
ShowRoutesCommand(p) ==
    \E sub, sup \in Networks \union {Unset} : Begins(p, [NoCmd EXCEPT !.op = "show", !.at = "list", !.net = sub, !.sup = sup])
AddVirtualNetworkCommand(p) ==
    \E n \in VnetNames, d \in BOOLEAN : Begins(p, [NoCmd EXCEPT !.op = "addVnet", !.at = "call", !.vnet = n, !.flag = d])
DeleteVirtualNetworkCommand(p) ==
    \E v \in VnetArgs, force \in BOOLEAN : Begins(p, [NoCmd EXCEPT !.op = "deleteVnet", !.at = "vnet", !.vnet = v, !.flag = force])
UpdateVirtualNetworkCommand(p) ==
    \E v \in VnetArgs, d \in BOOLEAN : Begins(p, [NoCmd EXCEPT !.op = "updateVnet", !.at = "vnet", !.vnet = v, !.flag = d])

\* The networks that the list request with this name returns.
ListVirtualNetworks(n) == {v \in ActiveVnets : vnet[v].name = n}

\* getVnetId: an id is taken as it is; a name must belong to one network.
GetVnetId(p) ==
    /\ rcmd[p].at = "vnet"
    /\ LET next == IF rcmd[p].op = "delete" THEN "list" ELSE "call" IN
       \/ rcmd[p].vnet \notin VnetNames /\ rcmd' = [rcmd EXCEPT ![p].at = next]
       \/ /\ rcmd[p].vnet \in VnetNames
          /\ \E v \in VnetIDs : ListVirtualNetworks(rcmd[p].vnet) = {v} /\ rcmd' = [rcmd EXCEPT ![p].at = next, ![p].vnet = v]
       \/ rcmd[p].vnet \in VnetNames /\ RouteCmdEnds(p)
    /\ UNCHANGED <<vnet, default, route>>
-----------------------------------------------------------------------------
(* Listing routes, page by page *)

\* The query: network_subset, network_superset and virtual_network_id.  Of the
\* flags of show, both are put into network_superset, the second one last.
RouteFilterFromCLI(c) == [subset |-> Unset, superset |-> IF c.sup # Unset THEN c.sup ELSE c.net, vnet |-> Unset]
\* getRouteId asks for the networks that are a subset and a superset.
RouteIdFilter(c) == [subset |-> c.net, superset |-> c.net, vnet |-> c.vnet]
Query(c) == IF c.op = "show" THEN RouteFilterFromCLI(c) ELSE RouteIdFilter(c)

\* What the account answers to it.
Matching(q) ==
    {r \in ActiveRoutes : /\ q.subset # Unset => route[r].net \subseteq q.subset
                          /\ q.superset # Unset => q.superset \subseteq route[r].net
                          /\ q.vnet # Unset => route[r].vnet = q.vnet}
\* The rows in the order of their ids, and a page of them.
Sorted(S) == {s \in [1 .. Cardinality(S) -> S] : \A i, j \in 1 .. Cardinality(S) : i < j => s[i] < s[j]}
Page(rows, n) == SubSeq(rows, (n - 1) * PerPage + 1, IF n * PerPage < Len(rows) THEN n * PerPage ELSE Len(rows))

\* Mutant: a full page is taken for the last one.
LastPageTooEarly(count, got, total) == count <= PerPage \/ got >= total
\* fetchExhaustively: a page that is not full, or all that were announced.
LastPage(count, got, total) == count < PerPage \/ got >= total

\* fetchPage
FetchPage(p) ==
    /\ rcmd[p].at = "list"
    /\ LET all == Matching(Query(rcmd[p])) IN
       \E page \in {Page(s, rcmd[p].page + 1) : s \in Sorted(all)} :
       LET rows == rcmd[p].rows \o page
           last == LastPage(Len(page), Len(rows), Cardinality(all)) IN
       rcmd' = [rcmd EXCEPT ![p].page = @ + 1, ![p].rows = rows, ![p].at = IF last THEN "listed" ELSE "list",
                            ![p].first = IF rcmd[p].op = "delete" /\ rcmd[p].page = 0 THEN all ELSE @]
    /\ UNCHANGED <<vnet, default, route>>

ShowRoutes(p) ==
    /\ rcmd[p].op = "show" /\ rcmd[p].at = "listed" /\ RouteCmdEnds(p)
    /\ UNCHANGED <<vnet, default, route>>

\* getRouteId: exactly one row.
GetRouteId(p) ==
    /\ rcmd[p].op = "delete" /\ rcmd[p].at = "listed"
    /\ \/ Len(rcmd[p].rows) = 1 /\ rcmd' = [rcmd EXCEPT ![p].at = "call", ![p].id = rcmd[p].rows[1], ![p].rows = <<>>]
       \/ Len(rcmd[p].rows) # 1 /\ RouteCmdEnds(p)
    /\ UNCHANGED <<vnet, default, route>>
-----------------------------------------------------------------------------
(* The calls *)

\* Without a virtual network the account takes the default one; a network has
\* one route in a virtual network.
AddRoute(p) ==
    /\ rcmd[p].op = "add" /\ rcmd[p].at = "call" /\ RouteCmdEnds(p)
    /\ LET v == IF rcmd[p].vnet = Unset THEN default ELSE rcmd[p].vnet IN
       /\ v \in ActiveVnets /\ \A r \in ActiveRoutes : route[r].net # rcmd[p].net \/ route[r].vnet # v
       /\ \E r \in RouteIDs : route[r].state = "free" /\ route' = [route EXCEPT ![r] = [net |-> rcmd[p].net, vnet |-> v, state |-> "active"]]
    /\ UNCHANGED <<vnet, default>>

DeleteRoute(p) ==
    LET c == rcmd[p] IN
    /\ c.op = "delete" /\ c.at = "call" /\ c.id \in ActiveRoutes /\ RouteCmdEnds(p)
    /\ route' = [route EXCEPT ![c.id] = DeletedRoute]
    /\ UNCHANGED <<vnet, default>>

CreateVirtualNetwork(p) ==
    /\ rcmd[p].op = "addVnet" /\ rcmd[p].at = "call" /\ RouteCmdEnds(p)
    /\ \E v \in VnetIDs :
          /\ vnet[v].state = "free" /\ vnet' = [vnet EXCEPT ![v] = [name |-> rcmd[p].vnet, state |-> "active"]]
          /\ default' = IF rcmd[p].flag THEN v ELSE default
    /\ UNCHANGED route

\* Only an unused one, unless forced, and never the default.
DeleteVirtualNetwork(p) ==
    /\ rcmd[p].op = "deleteVnet" /\ rcmd[p].at = "call" /\ RouteCmdEnds(p)
    /\ rcmd[p].vnet \in ActiveVnets \ {default}
    /\ rcmd[p].flag \/ \A r \in ActiveRoutes : route[r].vnet # rcmd[p].vnet
    /\ vnet' = [vnet EXCEPT ![rcmd[p].vnet] = [name |-> Unset, state |-> "deleted"]]
    /\ route' = [r \in RouteIDs |-> IF r \in ActiveRoutes /\ route[r].vnet = rcmd[p].vnet
                                    THEN DeletedRoute ELSE route[r]]
    /\ UNCHANGED default

\* A new name, or the new default.
UpdateVirtualNetwork(p) ==
    /\ rcmd[p].op = "updateVnet" /\ rcmd[p].at = "call" /\ RouteCmdEnds(p)
    /\ rcmd[p].vnet \in ActiveVnets
    /\ IF rcmd[p].flag THEN default' = rcmd[p].vnet /\ UNCHANGED vnet
       ELSE \E n \in VnetNames : vnet' = [vnet EXCEPT ![rcmd[p].vnet].name = n] /\ UNCHANGED default
    /\ UNCHANGED route

RoutesNext ==
    \E p \in RouteProcs :
       \/ AddRouteCommand(p) \/ DeleteRouteCommand(p) \/ ShowRoutesCommand(p)
       \/ AddVirtualNetworkCommand(p) \/ DeleteVirtualNetworkCommand(p) \/ UpdateVirtualNetworkCommand(p)
       \/ GetVnetId(p) \/ FetchPage(p) \/ ShowRoutes(p) \/ GetRouteId(p)
       \/ AddRoute(p) \/ DeleteRoute(p) \/ CreateVirtualNetwork(p) \/ DeleteVirtualNetwork(p) \/ UpdateVirtualNetwork(p)
       \/ (rcmd[p].at \in {"list", "call"} /\ RequestFails(p))
-----------------------------------------------------------------------------
\* A route that is deleted by its network is the one that was meant: it has
\* that network, it is in the virtual network that was asked for, and it was not
\* one of several: no other route that matches existed from the first request
\* of the lookup until the delete, however many pages the answer had and
\* whatever other commands added and removed while they were fetched.
DeletedIsTheOnlyOne ==
    [][\A p \in RouteProcs :
          LET c == rcmd[p] IN
          (c.op = "delete" /\ c.at = "call" /\ c.net # Unset /\ rcmd'[p] # c /\ route'[c.id] # route[c.id]) =>
             /\ route[c.id].net = c.net /\ (c.vnet # Unset => route[c.id].vnet = c.vnet)
             /\ c.first \intersect ActiveRoutes = {c.id}]_routeVars
=============================================================================
