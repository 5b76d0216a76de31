--------------------------- MODULE TunnelCommands ---------------------------
(***************************************************************************)
(* The commands that manage named tunnels: login, create, delete, run,     *)
(* token, cleanup and route.  Each runs in a process of its own against    *)
(* the tunnel store of the account (an external service) and the           *)
(* credentials files of the host; calls fail, answers are lost, processes  *)
(* are interrupted.                                                        *)
(***************************************************************************)
EXTENDS Naturals, Sequences, FiniteSets

CONSTANTS
    Procs,     \* processes, each runs one command
    TunnelIDs, \* UUIDs that the store gives out
    TunnelNames,
    CredFiles, \* paths given with --credentials-file
    Root,      \* the user may write read-only files
    NoTunnel

ASSUME CommandsAssumption == Root \in BOOLEAN /\ NoTunnel \notin TunnelIDs \union CredFiles

VARIABLES
    cert,    \* the origin certificate: none, an empty file, old (without an account) or good
    store,   \* id -> [name, state: free, active or deleted]
    conns,   \* id -> processes that run the tunnel
    routes,  \* tunnels that a host name or network is routed to
    file,    \* path -> the tunnel whose credentials it holds; <id>.json is the id
    cmd,     \* process -> its command and where it is
    created, \* [id, path] of the create commands that succeeded
    swept    \* paths given to a delete command, which removed the file

cmdVars == <<cert, store, conns, routes, file, cmd, created, swept>>

Idle == [op |-> "none", at |-> "idle", name |-> NoTunnel, ids |-> <<>>, path |-> NoTunnel, force |-> FALSE]
Active == {i \in TunnelIDs : store[i].state = "active"}

\* The calls of the client that only look.
ListTunnels(n) == {i \in Active : store[i].name = n}
StoreHas(i) == i \in Active
\* tunnelActive: the first of the tunnels with that name.
TunnelActive(n) == ListTunnels(n)

\* The certificate must exist, and must hold a token for an account.
FindOriginCert == cert # "none"
DecodeOriginCert == cert = "good"
Credential == FindOriginCert /\ DecodeOriginCert

CmdInit ==
    /\ cert \in {"none", "old", "good"} /\ store = [i \in TunnelIDs |-> [name |-> NoTunnel, state |-> "free"]]
    /\ conns = [i \in TunnelIDs |-> {}] /\ routes = {}
    /\ file = [f \in CredFiles \union TunnelIDs |-> NoTunnel]
    /\ cmd = [p \in Procs |-> Idle] /\ created = {} /\ swept = {}

\* What a command that has ended was about is forgotten.
Ended == [Idle EXCEPT !.at = "ended"]
Goto(p, at) == cmd' = [cmd EXCEPT ![p] = IF at \in {"done", "failed"} THEN Ended ELSE [@ EXCEPT !.at = at]]
-----------------------------------------------------------------------------
(* login *)

\* A certificate is not overwritten, not even one that is of no use.
CheckForExistingCert == cert \in {"old", "good"}
Login(p) ==
    /\ cmd[p] = Idle
    /\ cmd' = [cmd EXCEPT ![p] = IF CheckForExistingCert THEN Ended ELSE [Idle EXCEPT !.op = "login", !.at = "transfer"]]
    /\ UNCHANGED <<cert, store, conns, routes, file, created, swept>>

\* What the browser brings back is decoded and written to the path that was
\* free; a write that fails leaves an empty file.
WriteCert(p) ==
    /\ cmd[p].op = "login" /\ cmd[p].at = "transfer"
    /\ \/ cert' \in {"good", "old"} /\ Goto(p, "done")
       \/ Goto(p, "failed") /\ cert' \in {cert, "empty"}
    /\ UNCHANGED <<store, conns, routes, file, created, swept>>
-----------------------------------------------------------------------------
(* Invocation: the arguments, and the client, which needs the certificate.  *)
(* run does not need it when the tunnel is given by its UUID.               *)

Invoke(p, op, first, n, ids, path, force) ==
    /\ cmd[p] = Idle
    /\ cmd' = [cmd EXCEPT ![p] = IF Credential \/ op = "run"
                                 THEN [op |-> op, at |-> first, name |-> n, ids |-> ids, path |-> path, force |-> force]
                                 ELSE Ended]
    /\ UNCHANGED <<cert, store, conns, routes, file, created, swept>>

Create(p) == \E n \in TunnelNames, f \in CredFiles \union {NoTunnel} : Invoke(p, "create", "post", n, <<>>, f, FALSE)
Delete(p) ==
    \E n \in TunnelNames \union {NoTunnel}, ids \in {<<>>} \union {<<i>> : i \in TunnelIDs}, f \in CredFiles \union {NoTunnel}, force \in BOOLEAN :
       (n # NoTunnel \/ ids # <<>>) /\ Invoke(p, "delete", "find", n, ids, f, force)
Run(p) ==
    \E n \in TunnelNames \union {NoTunnel}, i \in TunnelIDs, f \in CredFiles \union {NoTunnel} :
       Invoke(p, "run", "find", n, IF n = NoTunnel THEN <<i>> ELSE <<>>, f, FALSE)
Token(p) == \E i \in TunnelIDs, f \in CredFiles : Invoke(p, "token", "get", NoTunnel, <<i>>, f, FALSE)
Cleanup(p) == \E i \in TunnelIDs : Invoke(p, "cleanup", "call", NoTunnel, <<i>>, NoTunnel, FALSE)
Route(p) == \E i \in TunnelIDs : Invoke(p, "route", "call", NoTunnel, <<i>>, NoTunnel, FALSE)
-----------------------------------------------------------------------------
(* create and token *)

\* The name must not be taken.
StoreCreates(i, n) ==
    /\ ListTunnels(n) = {} /\ store[i].state = "free"
    /\ store' = [store EXCEPT ![i] = [name |-> n, state |-> "active"]]

\* The name is taken, the call fails, or the answer is lost: then a tunnel
\* exists that nobody has the secret of.
CreateTunnel(p) ==
    /\ cmd[p].at = "post"
    /\ \/ Goto(p, "failed") /\ UNCHANGED store
       \/ /\ \E i \in TunnelIDs :
                /\ StoreCreates(i, cmd[p].name)
                /\ \/ Goto(p, "failed")
                   \/ cmd' = [cmd EXCEPT ![p].at = "stat", ![p].ids = <<i>>, ![p].path = IF @ = NoTunnel THEN i ELSE @]
    /\ UNCHANGED <<cert, conns, routes, file, created, swept>>

GetTunnelToken(p) ==
    /\ cmd[p].at = "get"
    /\ \/ StoreHas(cmd[p].ids[1]) /\ Goto(p, "stat")
       \/ Goto(p, "failed")
    /\ UNCHANGED <<cert, store, conns, routes, file, created, swept>>

Undo(p) == Goto(p, IF cmd[p].op = "create" THEN "rollback" ELSE "failed")

\* writeTunnelCredentials looks first and writes then; the file is created read-only.
StatCredentials(p) ==
    /\ cmd[p].at = "stat"
    /\ \/ file[cmd[p].path] = NoTunnel /\ Goto(p, "write")
       \/ file[cmd[p].path] # NoTunnel /\ Undo(p)
    /\ UNCHANGED <<cert, store, conns, routes, file, created, swept>>

WriteCredentials(p) ==
    /\ cmd[p].at = "write"
    /\ \/ /\ file[cmd[p].path] = NoTunnel \/ Root
          /\ file' = [file EXCEPT ![cmd[p].path] = cmd[p].ids[1]] /\ Goto(p, "done")
          /\ created' = IF cmd[p].op = "create" THEN created \union {[id |-> cmd[p].ids[1], path |-> cmd[p].path]} ELSE created
       \/ Undo(p) /\ UNCHANGED <<file, created>>
    /\ UNCHANGED <<cert, store, conns, routes, swept>>

\* The store deletes a tunnel that is not in use, or with cascade everything.
StoreDeletes(i, force) ==
    /\ force \/ (conns[i] = {} /\ i \notin routes)
    /\ store' = [store EXCEPT ![i].state = "deleted"]
    /\ conns' = [conns EXCEPT ![i] = {}] /\ routes' = routes \ {i}

\* The tunnel that cannot be run without its file is deleted again, if that works.
RollBack(p) ==
    /\ cmd[p].at = "rollback" /\ Goto(p, "failed")
    /\ \/ cmd[p].ids[1] \in Active /\ StoreDeletes(cmd[p].ids[1], TRUE)
       \/ UNCHANGED <<store, conns, routes>>
    /\ UNCHANGED <<cert, file, created, swept>>
-----------------------------------------------------------------------------
(* delete *)

\* A name must belong to exactly one tunnel that is not deleted.
FindIDs(p) ==
    /\ cmd[p].op = "delete" /\ cmd[p].at = "find"
    /\ \/ cmd[p].name = NoTunnel /\ Goto(p, "getTunnel")
       \/ \E i \in TunnelIDs : ListTunnels(cmd[p].name) = {i} /\ cmd' = [cmd EXCEPT ![p].at = "getTunnel", ![p].ids = Append(@, i)]
       \/ cmd[p].name # NoTunnel /\ Goto(p, "failed")
    /\ UNCHANGED <<cert, store, conns, routes, file, created, swept>>

GetTunnel(p) ==
    /\ cmd[p].at = "getTunnel"
    /\ \/ cmd[p].ids = <<>> /\ Goto(p, "done")
       \/ cmd[p].ids # <<>> /\ Goto(p, "failed")
       \/ cmd[p].ids # <<>> /\ StoreHas(Head(cmd[p].ids)) /\ Goto(p, "delete")
    /\ UNCHANGED <<cert, store, conns, routes, file, created, swept>>

\* Mutant: the error of the call is not returned.
DeleteTunnelIgnoresError(p) ==
    /\ cmd[p].at = "delete" /\ Goto(p, "remove")
    /\ \/ Head(cmd[p].ids) \in Active /\ StoreDeletes(Head(cmd[p].ids), cmd[p].force)
       \/ UNCHANGED <<store, conns, routes>>
    /\ UNCHANGED <<cert, file, created, swept>>

DeleteTunnel(p) ==
    /\ cmd[p].at = "delete"
    /\ \/ Head(cmd[p].ids) \in Active /\ StoreDeletes(Head(cmd[p].ids), cmd[p].force) /\ Goto(p, "remove")
       \/ Goto(p, "failed") /\ UNCHANGED <<store, conns, routes>>
    /\ UNCHANGED <<cert, file, created, swept>>

\* credentialFinder and Path: the path that was given, for each of the
\* tunnels, or the file named after the id.
CredPath(p, i) == IF cmd[p].path = NoTunnel THEN i ELSE cmd[p].path

RemoveFile(p) ==
    LET f == CredPath(p, Head(cmd[p].ids)) IN
    /\ \/ file' = [file EXCEPT ![f] = NoTunnel] /\ swept' = swept \union ({f} \intersect CredFiles)
       \/ UNCHANGED <<file, swept>>
    /\ cmd' = [cmd EXCEPT ![p].at = "getTunnel", ![p].ids = Tail(@)]

\* A file that cannot be removed is only logged.
RemoveCredentials(p) ==
    /\ cmd[p].at = "remove" /\ RemoveFile(p)
    /\ UNCHANGED <<cert, store, conns, routes, created>>
-----------------------------------------------------------------------------
(* run, cleanup and route *)

\* The id in the credentials file that was given is preferred to the name.
FindID(p) ==
    /\ cmd[p].op = "run" /\ cmd[p].at = "find"
    /\ \/ cmd[p].ids # <<>> /\ Goto(p, "credentials")
       \/ /\ cmd[p].ids = <<>> /\ cmd[p].path # NoTunnel /\ file[cmd[p].path] # NoTunnel
          /\ cmd' = [cmd EXCEPT ![p].at = "credentials", ![p].ids = <<file[cmd[p].path]>>]
       \/ /\ cmd[p].ids = <<>> /\ (cmd[p].path # NoTunnel => file[cmd[p].path] = NoTunnel)
          /\ Credential /\ \E i \in TunnelActive(cmd[p].name) : cmd' = [cmd EXCEPT ![p].at = "credentials", ![p].ids = <<i>>]
       \/ cmd[p].ids = <<>> /\ Goto(p, "failed")
    /\ UNCHANGED <<cert, store, conns, routes, file, created, swept>>

\* findCredentials, and StartServer, which the edge accepts only with the
\* secret of that tunnel.
RunWithCredentials(p) ==
    /\ cmd[p].at = "credentials"
    /\ LET i == cmd[p].ids[1] IN
       \/ /\ file[CredPath(p, i)] = i /\ i \in Active
          /\ conns' = [conns EXCEPT ![i] = @ \union {p}] /\ Goto(p, "running")
       \/ (file[CredPath(p, i)] # i \/ i \notin Active) /\ Goto(p, "failed") /\ UNCHANGED conns
    /\ UNCHANGED <<cert, store, routes, file, created, swept>>

Stop(p) ==
    /\ cmd[p].at = "running" /\ Goto(p, "done") /\ conns' = [i \in TunnelIDs |-> conns[i] \ {p}]
    /\ UNCHANGED <<cert, store, routes, file, created, swept>>

StoreCleans(i) == conns' = [conns EXCEPT ![i] = {}]
CleanupConnections(p) ==
    /\ cmd[p].op = "cleanup" /\ cmd[p].at = "call" /\ Goto(p, "done")
    /\ StoreCleans(cmd[p].ids[1]) \/ UNCHANGED conns
    /\ UNCHANGED <<cert, store, routes, file, created, swept>>

\* A host name in the DNS or a load balancer now points to the tunnel.
StoreRoutes(i) == StoreHas(i) /\ routes' = routes \union {i}
RouteTunnel(p) ==
    /\ cmd[p].op = "route" /\ cmd[p].at = "call"
    /\ \/ StoreRoutes(cmd[p].ids[1]) /\ Goto(p, "done")
       \/ Goto(p, "failed") /\ UNCHANGED routes
    /\ UNCHANGED <<cert, store, conns, file, created, swept>>

\* The process is interrupted; the edge notices that its connections ended.
Interrupt(p) ==
    /\ cmd[p].at \notin {"ended", "idle", "running"} /\ Goto(p, "failed")
    /\ UNCHANGED <<cert, store, conns, routes, file, created, swept>>

CmdNext ==
    \E p \in Procs :
       \/ Login(p) \/ WriteCert(p) \/ Create(p) \/ Delete(p) \/ Run(p) \/ Token(p) \/ Cleanup(p) \/ Route(p)
       \/ CreateTunnel(p) \/ GetTunnelToken(p) \/ StatCredentials(p) \/ WriteCredentials(p) \/ RollBack(p)
       \/ FindIDs(p) \/ GetTunnel(p) \/ DeleteTunnel(p) \/ RemoveCredentials(p)
       \/ FindID(p) \/ RunWithCredentials(p) \/ Stop(p) \/ CleanupConnections(p) \/ RouteTunnel(p) \/ Interrupt(p)
-----------------------------------------------------------------------------
\* A tunnel whose create command succeeded can be run for as long as it exists:
\* the file that the command named holds its credentials, whatever other
\* create, token and delete commands do at the same time, where they fail or
\* are interrupted.  A path that is given to delete is the exception: it is
\* removed for every tunnel of the command.  The user is not root, who may
\* write the read-only file of another command.
CredentialsKept ==
    \A c \in created : (c.id \in Active /\ c.path \notin swept) => file[c.path] = c.id
=============================================================================
