# A TLA+ model of shitflared

shitflared is an HTTP server that opens Cloudflare quick tunnels on request. It
starts one worker process per tunnel, and the worker runs the cloudflared tunnel
stack; the commands of cloudflared (named tunnels, routes, Access, service
installers, updater, diagnostics) are in the same repository. This directory
holds TLA+ modules that model the parts of the program in which something can go
wrong, the TLC configurations that check them on small instances, and TLAPS
proofs of the properties that matter most for instances of any size. Every
definition that stands for code is listed in `PROJECT.json` under `map`, with the
lines it stands for.

## The system's parts

| Part | State | Operations | What makes it correct |
|---|---|---|---|
| API server (`cmd/cloudflared/main.go`) | the map `running` under `runningMu`, one `tunnelHandle` per tunnel under its own mutex, the `quickURLHub` of URL channels | start, stop, list and callback handlers, the goroutine that calls `cmd.Wait`, shutdown | the list, the answers and the processes agree; everyone is answered |
| Worker (`worker.go`, `tunnel/`) | the process, its signal handler | request a quick tunnel, post the URL, serve, post an error, exit on SIGTERM | ends when told to; reports once |
| Tunnel process (`tunnel/cmd.go`) | three goroutines that report on one channel, `graceShutdownC`, the server context | prepare, start, wait for a signal or an error, drain | a signal ends it at any point of the start |
| Tunnel configuration and features (`tunnel/configuration.go`, `features/`, `supervisor/tunnel.go`) | flags, the feature snapshot, sockets | prepare, refresh, take a snapshot per connection | a connection does what the edge was told |
| Supervisor (`supervisor/`) | which connections run, wait or are connecting; backoff timers | start, restart after errors, graceful shutdown | no connection lost, none started twice, shutdown ends |
| Edge discovery (`edgediscovery/`) | two regions of addresses and who uses each | take, exchange and give back an address | one address per connection, balance between regions |
| Connection events (`connection/observer.go`, `tunnelstate/`), protocols (`connection/protocol.go`) | a bounded event channel, the table of connections, retries, the current protocol | send, dispatch, record; retry, fall back | the table tells the truth; QUIC is left for a reason |
| Edge connections (`connection/http2.go`, `quic_connection.go`, `control.go`) | registration, active requests, contexts | dial, register, serve, unregister, close | a shutdown drains; requests are answered once |
| Orchestrator (`orchestration/`) | configuration version, current proxy, started origins | update, hand out the proxy, close | no request meets closed origins; a stop ends them |
| Ingress (`ingress/`) and proxy (`proxy/`, `stream/`, `socks/`, `websocket/`) | rules; per stream two copying goroutines, a pinger, locks | validate, merge, convert, match; copy, ping, close | the first rule serves; a stream leaves nothing behind |
| UDP flows, version 3 (`quic/v3/`, `flow/`) | the session table, the flow limiter, one goroutine per session, payload loops | register, migrate, close, expire | each flow counted once, bound to one connection |
| UDP sessions, version 2 (`datagramsession/`, `connection/quic_datagram_v2.go`) | the event loop's map, rendezvous channels, bounded queues | register, unregister, send, close | the loop never blocks; slots are given back |
| ICMP proxy (`ingress/icmp_*.go`, `packet/`) | funnels, echo ids, sockets | route a packet, replace and clean up a flow | no socket is leaked, no two open flows use one echo id |
| Management (`management/`) | sessions, the actor limit, per session goroutines | start and stop streaming, preempt | a session that is over holds nobody up |
| Named tunnels, routes, virtual networks (`tunnel/subcommand*.go`, `cfapi/`) | credentials files, the account's tables | create, delete, run, route, list in pages | credentials are kept; the right route is deleted |
| Service installers, updater, pre-checks, diagnostics | units, binaries, probes, temporary files | install, swap, probe, collect | failures half way can be repaired |
| Access (`token/`, `carrier/`, `access/`) | token files and lock files shared by processes | fetch, lock, exchange, remove | nobody waits for ever |

The server calls nothing in the worker: it starts the process, sends signals and
waits for its exit; the worker reports through HTTP callbacks that may be lost or
late. Inside the worker the supervisor runs one goroutine per connection, which
takes an address from edge discovery, reports to the observer, carries requests to
the orchestrator's current proxy and, over QUIC, the UDP and ICMP flows. Flows and
sessions of all connections share the limiter and the ICMP proxy. The commands
share nothing with the tunnel process but files, the account and the metrics
address.

The behaviours that are hard to test are in `PROJECT.json` under `hazards`, each at
its line and with the properties that would catch it.

## Modules

| Module | Models | Kind |
|---|---|---|
| `TunnelAPI` | `main.go`, `worker.go` and the worker's signal handling | component |
| `TunnelLifecycle` | what a client may rely on about one tunnel id | abstract specification |
| `TunnelServer` | `tunnel/cmd.go`: `TunnelCommand`, `StartServer`, `waitToShutdown` | component |
| `TunnelConfig` | `tunnel/configuration.go`, `features/selector.go`, connection options, `ingress/origins/dns.go` | component |
| `Supervisor` | `supervisor/supervisor.go`, the life of `EdgeTunnelServer.Serve` | component |
| `EdgePool` | `edgediscovery/edgediscovery.go`, `edgediscovery/allregions` | component |
| `ConnEvents` | `connection/observer.go`, `tunnelstate/conntracker.go` | part, no next-state relation |
| `ProtocolFallback` | the retries of `Serve`, `selectNextProtocol`, the protocol selectors; extends `ConnEvents` | composition |
| `Orchestrator` | `orchestration/orchestrator.go`, the start of origins | part, no next-state relation |
| `EdgeConnections` | both transports and the control stream; extends `Orchestrator`, whose proxy its requests use | composition |
| `ConnectionDrain` | what the edge is promised of a connection and its requests | abstract specification |
| `FlowSessions` | `quic/v3/manager.go`, `session.go`, `flow/limiter.go` | component |
| `FlowDatagrams` | `quic/v3/datagram.go`, `muxer.go` and the loops of a session | component and algorithms |
| `DatagramSessions` | `datagramsession/`, `quic_datagram_v2.go`, `quic/datagramv2.go` | component |
| `ICMPProxy` | `ingress/icmp_*.go`, `packet/funnel.go`, `ingress/packet_router.go` | component |
| `OriginStreams`, `OriginHTTP` | one stream and its goroutines; requests that share a transport | components |
| `IngressRules` | validation, merging, conversion and matching of rules | algorithms, against a reference definition |
| `TunnelCommands`, `NetworkRoutes` | processes that use the account's tunnels, routes and virtual networks | components |
| `ServiceInstall`, `AutoUpdate`, `Prechecks`, `Diagnostics` | the other commands on a host | components |
| `ManagementLogs`, `AccessTokens` | log streaming; token and lock files | components |
| `MC*` | constants for TLC; parts that share no state are put side by side in one run, and a behaviour is of one part, so that their state spaces add up | model checking |
| `*Proofs` | theorems about the modules they extend, each part with a specification and an invariant of its own | proofs |

### TunnelAPI and TunnelLifecycle

A tunnel is named by the start request that makes it, since `randID` gives each
request a fresh id. A step is one critical section or one system call of one
goroutine; between two steps any other goroutine may run.

| Variable | Code |
|---|---|
| `running` | the map `running`; `runningMu` is free between steps except in the server state `"holding"` |
| `hub` | `quickURLHub.ch`: no channel, an empty one, a full one |
| `status`, `failed` | `tunnelHandle.status`, and whether `tunnelHandle.err` is set |
| `start`, `outcome` | the program counter of `handleStartQuickTunnel`, and what it answered |
| `waiter` | the goroutine around `cmd.Wait`; `"closed"` when `h.done` is closed |
| `worker`, `exitErr`, `sig` | the process, how it will have exited, the strongest signal sent to it |
| `cb` | each of the two callbacks: not sent, sent, handle found, over |
| `stop`, `target` | the program counter of `handleStopTunnel` and the id it was given |
| `server` | main and its shutdown goroutine |
| `missed` | history: the tunnels that a stop or the sweep wanted to signal and whose process it did not see |

`cmd.Process` is written by `cmd.Start` and read by the stop handler and by the
sweep without a lock. `SeesProcess` lets a reader see it or not until the start
handler has next released a mutex. The worker appears as the server sees it:
booting (no signal handler yet, so SIGTERM kills it), serving (SIGTERM starts the
graceful end), exiting (the last sleep of `workerMain` after an error), dead. It
may crash at any time.

`TunnelLifecycle` has no handlers, locks or channels: an id is fresh, listed,
over; a request is unanswered, answered ok or failed; a process runs, is condemned
or is dead. Its content is in the guards: a request is answered "failed" only when
the id is off the list and no undisturbed process is left. `TunnelAPI` implements
it under the mapping `Phase`, `AnswerSeen`, `Proc`.

### The tunnel process

`Supervisor`: `Run` is one goroutine with one program counter (`run`); each
connection has one goroutine (`gor`), which `Serve`s, backs off and then blocks on
the unbuffered channel `tunnelErrors` (`"sending"`). Each case of the select in
`Run` is an action. `connecting` and `nextConnected` are `tunnelsConnecting` and
`nextConnectedIndex`; `sig` is the signal of the connection's current run.

`EdgePool`: every operation of `Edge` runs under one mutex and is one step.
`usedBy` is the union of the four `AddrSet` maps, `fellBack` and `expired` are
`primaryIsActive` (negated) and the state of `primaryTimeout` of each region, `addr`
is the address a connection serves on. `Candidates` is the result set of
`GetUnusedAddr`: Go's random map order is a choice.

`ConnEvents` has the bounded channel, the drop when it is full, the late arrival of
the sink and the table; the zero value of the protocol in the table is HTTP2, as in
the code. `ProtocolFallback` has, for each connection, the attempt (`pc`), the
`protocolFallback` value, the counter of `IpAddrFallback` and the shared selector;
`quicBlocked` is the network.

`TunnelServer`: `mainAt` walks through the command; the updater, the metrics server
and the supervisor end by sending on `errC`, which is unbuffered; `waitToShutdown`
takes the first, cancels, and a second goroutine discards the others.
`TunnelConfig`: `config` is what `prepareTunnelConfig` made of the flags, `features`
the selector's cached value, `link` a connection between its snapshot and its
registration.

### Connections, configurations and requests

`Orchestrator`: a proxy is named after the version of its configuration; `running`
are the proxies whose shutdown channel is open, `updating` the update that holds the
lock, in the steps that requests and the shutdown can see. `orphans` are origins of
a `StartOrigins` that failed half way. `EdgeConnections`: `conn` has the control
stream, the routines of `Serve` (an error group) and the contexts of one connection
over HTTP/2 or QUIC; `req` has each request from its arrival to its answer, with the
proxy it was given.

`ConnectionDrain` has no transport, control stream or context: a connection is up,
closed from this side or lost, it may drain, and it may be excused; a request is
active, done, reset or cut. Its content is the guard of `Close`: only while the
connection drains, and with no request on it that came before, unless it is excused.
`EdgeConnections` implements it under the mapping `Lines`, `Draining`, `Excused`,
`Asks`; over HTTP/2 no connection is ever excused, over QUIC one is when its grace
period is over, the process stops or one of its routines has failed.

`OriginStreams`: `main` is the handler, `up` and `down` are the two copying
goroutines, `pinger` the WebSocket pinger, `lock` the write lock; the peers may stop
reading or sending. `OriginHTTP`: `dialTLS` is the closure that requests set on the
transport they share. `IngressRules` translates validation, `setConfig`,
`ConvertToRawOriginConfig` and `FindMatchingRule`, and states what a rule covers
independently (`Covers`); host names are sequences of labels and options are classes,
one for each way of merging and converting them.

### Datagrams

`FlowSessions`: a session is named after the goroutine that created it, since that
goroutine serves it to its end and then deletes it. `RegisterSession` holds the
manager's mutex throughout and is one step with five outcomes. `Migrate` is not
atomic: load the eyeball, store the new one, send the context on the unbuffered
channel; each is a step. `Index` makes a connection that replaces a lost one compare
equal to it. `FlowDatagrams` writes and reads each type of datagram as a sequence of
bytes, and has the goroutines that carry them.

`DatagramSessions`: `call` is an RPC and the session it makes, with its `closeChan`;
`loop` the event loop, `mux` the receive loop with the two bounded queues. A session
id may be used twice. `ICMPProxy`: flows are compared by connection index as in
`createShouldReplaceFunnelFunc`; Linux gives ports, Darwin echo ids that wrap around.
`funnels` is the tracker of flows and `mapping`, `assigned` and `nextID` that of echo
ids, two objects with a lock each: a flow has in `own` whether its key was mapped to its
id when it was made, which is not so for the successor of a replaced flow.

### Commands

Each command is a process that takes its calls and file operations one at a time;
others run in between, each may fail, and a process may be interrupted between two.
The account is external: `store` (tunnels), `vnet` and `route` answer as the code
expects it. `ServiceInstall` has the units, the token file and the copied configuration
on disk, what the unit names, and the service manager of five platforms; an install
knows which files it has written itself (`job.written`). `AutoUpdate` the files of the swap; `Prechecks` the probes, their retries
and the common deadline; `Diagnostics` the temporary files that two runs share;
`AccessTokens` two token files and two lock files that are never released, with the
check, the removal, the creation and the writing of a lock as steps of their own;
`TunnelServer` three goroutines that send what they end with, an error or nil;
`ManagementLogs` a handler, a reader and a streaming goroutine per client.

## Runs

Times are with two workers. Every property has a mutant, a plausible slip in one
mapped definition, under which TLC finds it violated; the mutants are defined above
the definition they replace.

| Run | Instance | Distinct states, time | Properties |
|---|---|---|---|
| `tunnel` | one start with a stop and a shutdown, two starts at capacity 1, or two more when the only place is taken | 192 k, 153 s | `CapacityBound`, `AnswersAndWorkersAgree`, `EveryoneIsAnswered`, `ImplementsLifecycle` |
| `edge` | supervisor of 2 connections; 3 connections over 4 IPv4 and 3 IPv6 addresses; protocols of 1 or 2 connections, 3 retries, 2 rotations, 1 refresh, channel of 3 | 422 k, 153 s | `TunnelsCounted`, `GraceAfterAllConnected`, `SupervisorProgresses`; `AddressesOwned`, `EvenUse`, `RefusedOnlyWhenExhausted`, `ReachesIPv4`; `TrackerAgrees`, `FallbackJustified`, `ReachesEdge` |
| `connection` | 1 connection over either transport, 1 request, 2 pushed versions, shutdown | 147 k, 20 s | `ProxyRuns`, `RequestsKept`, `StopCompletes` |
| `flow` | 3 registrations of 2 flows over 2 connections with limits 0, 1 and 2 and a TCP flow, or of 1 flow over 3 connections of which one replaces another | 332 k, 96 s | `SessionsAccountedFor`, `MigrationMovesSession`, `LimitHolds`, `FlowsProgress` |
| `datagrams` | 2 sessions with one id and queues of 1; ICMP: 2 requesters, 2 connections, 2 ports or echo ids, three platforms | 626 k, 97 s | `LoopNeverBlocks`, `ConnectionReleasesFlows`; `FlowsTracked` |
| `proxy` | 1 stream of each kind; 860 configurations of up to 3 rules; datagrams around each limit; the loops of a flow; 2 requests on one transport | 38 k, 62 s | `NoLateFrame`, `StreamsReleased`; `FirstRuleServes`, `SameAfterMigration`; `RoundTrips`, `LoopsEnd` |
| `host` | 3 commands over 2 tunnels; installs; 2 releases; probes with 1 retry; 2 diagnostic runs; 2 processes over 3 routes on pages of 1 row; 2 connections | 2.6 M, 160 s | `CredentialsKept`, `ServiceReported`, `BinaryRecoverable`, `SuggestionJustified`, `CollectedIsRemoved`, `DeletedIsTheOnlyOne`, `OptionsAgree` |
| `agent` | 2 log clients; 2 processes that want a token; the tunnel process | 231 k, 150 s | `CancelledSessionsEnd`, `TokenRequestsEnd`, `SignalEndsServer` |

What the properties say, in short:

- **tunnel.** The map exceeds `MAX_TUNNELS` by less than the requests in flight.
  Listed tunnels are owned; a failed start leaves no entry and no undisturbed worker;
  a stop that was confirmed stopped a process; a start that reports a URL has its own
  worker's. Starts, stops and the shutdown end. The handlers implement
  `TunnelLifecycle`, its fairness included.
- **edge.** `tunnelsActive` is the number of goroutines and outside a shutdown every
  connection runs or waits; the backoff is reset only when all have connected; a
  shutdown ends and what waits is restarted. No address is shared or leaked, regions
  are used evenly, and a connection leaves IPv6 when it stops working. While no event
  is lost the table agrees with the connections; QUIC is left only after enough
  failures or when it is known to be broken, and not where the user chose it.
- **connection.** No request is handed a proxy whose origins were closed; version, proxy
  and limits are of one configuration between updates, and no other origins run; requests
  are answered once and a graceful shutdown lets them end; a stop ends all origins and
  everything but an HTTP/2 stream that somebody keeps open; `ConnectionDrain` is
  implemented.
- **flow, datagrams.** Sessions and slots are accounted for through migrations,
  failures and limits that change; goroutines end with their connections; the event
  loop of version 2 is never blocked. On Linux no ICMP socket is leaked. On Darwin the
  tracker maps no two keys to one echo id, no two open flows use one, and an open flow
  that was made with the id of its key keeps it; the successor of a replaced flow is
  made without that (see below), and nothing is promised of its id.
- **proxy.** Nothing is written after a WebSocket handler has returned, and goroutines
  end although a peer has stopped reading. The first rule that covers a request serves
  it, also when the configuration has been converted for the edge. What is written as
  a datagram is read back.
- **host, agent.** See the comments of the properties: each is about commands that
  fail half way or that others run at the same time. `ServiceReported` is about what a
  command of the installer reports: after an uninstall no file or registration of the
  service is left, and a service reported as installed has a unit of its own and the
  token file or configuration that the unit names.

Composite properties (`AnswersAndWorkersAgree`, `TunnelsCounted`, `AddressesOwned`,
`SessionsAccountedFor`, `RequestsKept`, `StopCompletes`, `FlowsTracked`, ...) are
conjunctions of named parts that have their own comments.

**Bounds.** Two starts are enough for one to be refused or admitted because of the
other; the handlers of different ids share only the map, the mutex and the capacity.
Stops and the shutdown are checked against a single start; stops of several tunnels,
two stops of one id and any number of starts are covered by the proofs. Three
connections and seven addresses let a region run out while the other does not. Two
connections of the supervisor make one the watched signal while the other ends. Three
retries and two rotations are the smallest values at which the two counters are out of
step. Three registrations of one flow give a session and two migrations of it at once.
Two versions let a configuration arrive late, twice or during a shutdown. One place in
a queue is full with one datagram. Two echo ids wrap around with the third assignment.
Three commands are a create, and a create, token or delete on each side of it. Pages of
one row make every list a sequence of requests. Interchangeable requests are ordered in
the MC modules instead of by a symmetry set where the run checks liveness.
Deadlock checking is off where a bounded supply (of datagrams, requests or commands)
runs out and everything has ended.

**Fairness.** Goroutines that can run are scheduled and timers fire; a case of a select
that stays ready is chosen in the end, because Go chooses among the ready cases at
random (strong fairness, where the case is ready only again and again). No request is
assumed to arrive, no peer to send or to read, no session to become idle, no connection
to fail. Beyond that:

- `TunnelAPI`: the kernel delivers SIGKILL, and a worker with a signal handler ends
  after SIGTERM within its grace period; callbacks need not be delivered.
- `Supervisor`: `waitToShutdown` cancels the context at the end of the grace period,
  and blocking calls return then. `TunnelServer`: the daemons end once the context is
  cancelled, as `Supervisor` shows for one of them.
- `EdgePool`: the supervisor asks for an address until it has one, and where IPv6 does
  not work a connection over it fails. `ProtocolFallback`: dialling ends one way or the
  other; this is used only where QUIC is blocked.
- `EdgeConnections`: a registration ends with a result or its timeout; the request of
  an HTTP origin carries the context and ends with it; a stream need not end.
- `DatagramSessions`, `FlowDatagrams`: waits have a timeout or end with the context; a
  receive or send on a lost connection returns, a closed socket ends a read.
- `OriginStreams`: a write ends with its timeout where one is set; a lock that is free
  again and again is taken in the end.
- `AccessTokens`: time passes, the removal of a stale lock does not fail for ever, and
  dials, requests and the polling for the end of a browser login return.

A part that is idle in a run has no fair action enabled, so the fairness of the parts
can be stated together.

### Where code and documents disagree

Four runs show a violation:

- `tunnel_unlisted`: a stop that comes between the insertion of the handle and
  `cmd.Start` finds no process, waits five seconds and removes the handle; the
  worker then runs, is not listed and cannot be stopped. The README of the program
  says that the list shows active tunnels.
- `sup_init`: when the first tunnel ends gracefully before `initialize` has seen it
  connect, `initialize` returns nil, which its comment reserves for success, and `Run`
  waits for the errors of tunnels that were never started.
- `fallback_zero`: an event of a connection that never registered stores the zero
  protocol, HTTP2, so that `HasConnectedWith(HTTP2)` is true without a connection.
- `origin_sni`: with `matchSNItoHost` a request may be sent over a connection whose
  server name is another request's, since requests set the dial function of the
  transport they share.

The modules contain the following behaviours as well; no run is spent on them, and the
properties are stated so that they hold beside them.

API server and tunnel process:
- concurrent starts exceed `MAX_TUNNELS` (`main.go:403`, `:470`); a stop whose five
  seconds pass never sends SIGKILL (`main.go:601`), although the program's README says
  so; a worker that exits after its start was answered keeps counting (`main.go:500`);
  the last writer of a status wins (`main.go:646`); the write deadline of 10 s passes
  before the 30 s of `TUNNEL_TIMEOUT` (`main.go:722`; outside the model);
- the failure of the metrics server is not noticed before the shutdown, and early
  returns of `StartServer` leave goroutines blocked on `errC`;
- on a dual stack edge the use of the two regions is not even, since only the active
  sets are compared (`allregions/regions.go:92`); with the remote selector, a change
  from QUIC to HTTP2 together with the zero value above keeps a connection on QUIC
  (`supervisor/tunnel.go:279`); a dropped event leaves the readiness endpoint at 200
  (`connection/observer.go:105`);
- `initialize` writes the map `tunnelsProtocolFallback` while the first tunnel reads it
  (`supervisor.go:236`; outside the model); concurrent DNS lookups write `address` of
  the resolver without a lock (`ingress/origins/dns.go`).

Connections and origins:
- a `StartOrigins` that fails leaves what it started (`orchestrator.go:175`);
- the close of an HTTP/2 connection waits for all handlers, so a stream that is kept
  open holds it up (`http2.go:190`), and a request may arrive between the wait and the
  close; an unregister call that fails over QUIC skips the grace period
  (`quic_connection.go:108`); `Serve` over QUIC never returns nil although its comment
  (`:86`) says so;
- the SOCKS `handleConnect` waits for both directions unless one fails, and closes
  neither half (`socks/request_handler.go:106`); a write to an origin without a write
  timeout can hold its handler for ever; pings of the client are answered without the
  write lock, although `websocket/connection.go:84` allows one writer at a time;
- IP rules and access at the top level are not applied to the validators and the SOCKS
  policies of rules; a wildcard with unicode labels gets no punycode, and
  `*example.com` is accepted and never matches.

Datagrams:
- a `DialUDP` that fails keeps its slot in the limiter (`quic/v3/manager.go:78`), which
  `CounterAccounts` counts as `leaked`; two migrations at once may leave a session
  sending to one connection and ending with another (`session.go:165`); a migration of
  a session that ends under it blocks for ever (`session.go:166`); a flow registered
  over a connection with the index of a lost one counts as registered (`manager.go:64`);
- `pollDatagrams` may block for ever on its channel after `Serve` has returned
  (`muxer.go:160`, against the comment at `:151`); the payload bundled with a
  registration is parsed and never written; only registrations get a goroutine of their
  own, although the comment near `muxer.go:198` says each datagram does;
- version 2: `closedChan` is never closed (`datagramsession/manager.go:49`); an id that
  is used twice replaces a session without closing it; an unregistration that times out
  leaves a dead session in the map; a tracing datagram ends the packet router
  (`packet_router.go:75`);
- an ICMP flow is compared by connection index, so after a reconnection its replies go
  to a connection that is gone (`icmp_posix.go:192`, against the comment at `:188`); on
  Linux a flow that got the port of the one it replaced is closed with it; a send error
  is ignored on Darwin (`icmp_darwin.go:248`);
- on Darwin the close of a replaced flow releases the mapping and the echo id that its
  successor goes on to use (`icmp_darwin.go:155`). The next request of the same key is
  given another id and a second flow; when the ids wrap around the old one is assigned to
  another key, whose requests are then sent through the flow that is still open
  (`funnel.go:121`), so that their replies go to the source of that flow, although each
  key is to have a unique id (`icmp_darwin.go:7`); and when that flow is closed in turn,
  its own key is no longer mapped to the id, which stays assigned without a flow.

Commands:
- log streaming: sessions of two actors can be active together, since the check and
  `Listen` are not one step (`management/service.go:218`, `:304`); the reader blocks for
  ever on `events` after the handler has returned (`:180`); a session can be listed twice
  and is removed once; `streamLogs` is a busy loop; `tail --sample` alone is dropped
  (`tail/cmd.go:195`);
- credentials: `delete --credentials-file` removes that file for every tunnel of the
  command; as root two creates with one path overwrite each other; the id in a
  credentials file is preferred to the name that was given; the lost answer of a create
  leaves a tunnel nobody can run; a certificate without an account is of no use and
  login does not replace it;
- routes: `--filter-network-is-subset-of` is sent as `network_superset`
  (`cfapi/ip_route_filter.go:71`, against `:26`); a delete without `--vnet` takes the
  only matching route although it is not in the default network;
- installers: a second `service install` overwrites the token of a running service, and
  when it then fails removes the file (`linux_service.go:277`); a failed install leaves
  units; the Linux uninstall removes the token even when it fails, and the one of macOS
  overwrites the error of a removal. The configuration that a Linux install copies to
  `/etc/cloudflared/config.yml` is not removed by an uninstall (`linux_service.go:439`),
  nor when the install fails later, and then refuses the next install from the same
  configuration file as a possible conflict (`:332`);
- updater: two updaters share the `.new` file, a crash between the two renames leaves no
  binary at the path (the old one is beside it), the batch of Windows reports success in
  any case, `--force` is never looked at, and the status of the download is ignored;
- Access: a lock is created and written in two steps, so a lock just made may be taken
  for stale (`token/token.go:226`), and it is looked at and removed in two (`:129`,
  `:158`): two processes that find the lock of a dead one may both remove it, the second
  one the fresh lock of the first, and both ask for a login, although the comment at
  `:108` calls the atomic create the tiebreaker; a process that cannot write its lock
  removes whatever lock is there (`:189`); an expired organisation token is removed and
  an empty one sent; a process whose fresh token is refused waits for its own lock; a
  login may remove the token another process has just fetched; the authenticated retry
  ignores the host and the TLS configuration (`carrier/websocket.go:193`);
- pre-checks suggest the override without evidence where DNS fails (`types.go:103` says
  none), call an environment healthy where nothing was probed, and do not bound the
  lookup by the deadline; diagnostic runs share file names, and forget log and report
  files they could not finish.

## Proofs

Every safety property of the passing runs, invariant or action property, is also a
theorem, for every value of the constants under the assumptions named in the modules:
finite sets of requests, flows, addresses and routes, natural bounds, names that differ
from the values that stand for none. Four assumptions say more and describe the program:

- `RulesAssumption` (`IngressRules`): a file has rules, host names are sequences of
  labels, and options have values that the readers of files and flags can produce, with
  one exception that is left out: `--bastion=false` given beside a URL;
- `MessagesAssumption` (`FlowDatagrams`): a datagram to write has the fields of the Go
  types, and `maxDatagramPayloadLen` has 16 bits and leaves room for the header of a
  response (it is 1280);
- `RoutesAssumption` (`NetworkRoutes`): the account answers in a fixed order of the
  ids, for which they are numbers;
- `AddrsAssumption` (`EdgePool`): two regions, two IP versions.

Two theorems have a hypothesis of their own, and without it they are false.
`CommandsSafe` is about a user who is not root: as root, a create that has found no file
overwrites the read-only one that another create wrote in between (TLC shows it with
`Root = TRUE`). `EvenSafe` is about regions of equal size (`EqualRegions`): `GetUnusedAddr`
compares how many addresses are left, so the larger of two unequal regions is used more.

**TunnelAPIProofs.** `IInv` is the type invariant and six conjuncts. The parts of
`AnswersAndWorkersAgree` alone are not inductive: `ListedIsOwned` needs to know that an
entry of the map is past its insertion (`ListInv`), `WorkersAccountedFor` must also
speak of a worker that is about to be started (`Loose`), since the damage is done while
the process does not exist yet, and of stop handlers on their way from the signal to the
removal (`StopInv`); `StartedHasURL` must be followed back to the channel (`URLInv`);
what the handlers concluded from `h.done` must still be true (`ExitInv`). One step per
action shows that `IInv` is kept; `Agreement` follows. `Capacity` rests on a separate
argument: the sum of listed ids and admitted handlers that have not inserted yet is
bounded (`NextCapacity`), with the cardinality facts of the library. `Refinement` shows
that every step is a step of `TunnelLifecycle` or a stutter; its fairness part is left
to TLC.

**EdgeProofs.** `OneAddressEach` and `ServesOwnAddress`, together `AddressesOwned`,
are inductive with the type invariant, given that a candidate is unused
(`CandidatesAreFree`). `RotationMovesAway` is an action property: a rotation never hands
out the address it has given back. `PoolNotExhausted` counts: as used addresses belong to
different connections, fewer than all connections hold one when another asks, so an
active set as large as the set of connections has one left. For `EvenSafe` the invariant
also says that with one IP version no region has a secondary set or falls back
(`EvenInv`); each step gives one address back and takes one from the region with more
left, and cardinalities follow it through both halves (`LeftOver`). `FallbackSafe` needs
`BackoffInv`: a backoff that is not about to be reset counts no more retries than there
were failures since the last reset. `TrackerSafe` follows a connection through the
channel: the last event about it, or the table where there is none, tells whether it is
connected (`Tells`, `TrackInv`).

**FlowSessionsProofs.** The account of the limiter needs that unregistering removes
exactly one session, which follows from `SessionsOwned`; with the type invariant they
are inductive together and give `OwnedAndCounted`. `Admission` derives the action
property `LimitHolds` from them. `MigrationSafe` needs that a session which a handler has
looked up exists or has ended and that a handler looks up once (`TargetsInv`), and says
where the eyeball and the context of a session agree between the two halves of a
migration (`MoveInv`).

**SupervisorProofs.** The count of `ActiveIsLive` is kept only if no tunnel is
queued while it runs, if nothing waits during `initialize`, and if the tunnels it
has started are exactly those with a goroutine (`InitPhase`); the case in which
`initialize` takes an end for a connection is set apart (`EndedPhase`).
`NoneForgotten` needs that an outcome nil means a shutdown (`ErrInv`) and that the
timer is set exactly while tunnels wait (`TimerInv`). Together they give
`TunnelAccounting`. `GraceStart`, an action property, follows from `SignalInv`: a
running tunnel whose signal Run has not seen is in `tunnelsConnecting`, and Run watches
one of those as long as there is any. The cardinality lemmas treat the three ways the
set of goroutines changes.

The same module has the safety behind the liveness properties of run `agent`: these
cannot be proved here, but what they would fail by can be excluded. `ServerExitsCleanly`:
while main waits for the three goroutines of the tunnel process their context has ended
and somebody receives from `errC`, and success means that all have ended after a signal.
`errC` may carry nil, so this needs that a goroutine sends nil only once its context has
been cancelled or a signal was seen; the invariant also says which goroutine exists at
each step of the start (`ServerInv`).
`NoSessionAbandoned`: an active log session has a goroutine that will end it, however many
overlap (`MgmtInv`). `LocksRespected`, an action property, says how much a lock file is
worth. It is not that a live process keeps its lock: a process that has looked at a stale
lock removes whatever is there by then. But nobody who looks at a written lock of a live
process, not yet old, comes to remove it: its rivals are those who looked before it was
made, or could not write their own; there are ever fewer of them, and each takes it once
at most. Types and the places of a request are enough for that (`AccInv`).
The three properties were checked by TLC on the instance of the run.

**EdgeConnectionsProofs.** `OrInv` describes an update half way: `proxyShutdownC` belongs
to the current version, whose origins run, an update that holds the lock has started
newer ones, limits change before the proxy and the proxy before the version, and requests
read the current proxy until the update stores its own; hence `ProxySafe`, and
`ConfigurationsMoveForward`, an action property. `RequestsSafe` adds what is true of a connection (`ConnOK`: HTTP/2 is closed
only behind the wait for its handlers, QUIC only when its context has ended for a reason)
and of each request on it (`ReqOK`). `Becomes` says once how a step may change a
connection, so that every action of a connection keeps the requests of all of them. `DrainRefined`
follows the actions once more: each is one step of `ConnectionDrain` or a stutter, and the
guard of its `Close` is what `ConnOK` and `ReqOK` say of a connection about to be closed.

**DatagramsProofs.** `LoopSafe`: `closeChan` has room for everything that may still be
sent to a session, which is one reason when it leaves the map and one by its reader
(`CallOK`). An id that is registered twice drops the first session from the map, after
which it gets no reason from the loop. `FlowsSafe`: an open
funnel is in the tracker under its own name, the key on Linux and the echo id on Darwin,
and the tracker has no other (`FunnelInv`); so no two open
flows use one echo id. There the ids marked as assigned are the mapped ones, one for each
key (`EchoInv`). That an open flow still has its id assigned is not true of a successor,
whose id the replaced flow has released; it is true of every other flow: the lemma
`ReleaseKeeps` shows that a release reaches only the assignment of its own key and id
(`EchoIDsKept`).

**ProxyProofs.** `StreamSafe`: the write lock names exactly the goroutine that is inside a
Write, and a connection that is done was marked so with the lock free (`LockOwned`,
`PingerStarted`). `StreamLeavesNothing`: a handler that has returned has closed its origin
and given its slot back, on every path, and no goroutine that still runs takes them again
(`HeldInv`). `IngressSafe`: a configuration in use was validated (`Validated`), so
its last rule catches all and a least matching index exists; the library's theorem on
minimal elements gives it without induction. `MigrationKeepsRules`: a rule in use is
`Portable`, that is, its conversion for the edge and back has the same matcher, service
and options (options equal to a default are left out and come back as the default), and
no validation refuses it (`MigrationInv`). `CodecSafe`: the lemma `Join` says where the
parts of a concatenation are; each type of datagram is a chain of concatenations, so
every offset of the reader is the place of a part, and flags, lengths and 16-bit numbers
are recovered by arithmetic.

**HostProofs.** One invariant for each part. `UpdateSafe`: what is on the disk at each
step of an update (`DiskMatchesStep`). `ServiceSafe`: what runs or is enabled on systemd
has its unit on the disk, where an uninstall looks (`UnitsKnown`), what an install
has written is there, all of it once it enables or starts the service (`WrittenKnown`),
and so is the token file or the configuration that it wrote into the unit (`Provided`). `DiagnosticsSafe`:
some run that has not ended has every such file on its list (`FilesListed`).
`CommandsSafe`: what a command knows at each step, and that the store never gives an id
out twice (`Knows`, `Keeps`). `OptionsSafe`: what a connection has taken from the
configuration at each step (`LinkOK`). `PrechecksSafe`: a row says what was dialled
(`RowJustified`, `ProberJustified`). `RoutesSafe`, an action property: a lookup that ends
with one row has found the only one of the routes its first request saw that is left
(`LookupOK`), although the list is fetched page by page while rows come and go; the
pages of a sorted list of a shrinking set give it.

**Only model-checked**: what must happen in the end, that is `EveryoneIsAnswered`,
`SupervisorProgresses`, `ReachesIPv4`, `ReachesEdge`, `FlowsProgress`, `StopCompletes`
(but for its part `ImplementsDrain`, which is proved),
`ConnectionReleasesFlows`, `StreamsReleased`, `LoopsEnd`, `CancelledSessionsEnd`,
`TokenRequestsEnd`, `SignalEndsServer`, and the fairness part of `ImplementsLifecycle`:
the prover has no rule for fairness and ENABLED. Type invariants of their own are stated
as theorems for `TunnelAPI`, `Supervisor` and `FlowSessions`; in the other parts types
are a conjunct of the inductive invariant.

## Not modelled

`PROJECT.json` lists every part with the reason. The configuration manager, file
watcher and app manager are not constructed by anything in this repository; the Cap'n
Proto files are generated; metrics, tracing, logging, TLS loading and the other helpers
keep no state a property is about. Inside the modelled parts the following is left out:
JSON, headers, status codes and logging; the write deadline of the API server; the
unsynchronised map `tunnelsProtocolFallback`; a supervisor with no connection at all;
what DNS returns (constants); the duration of timers, which may fire at any time; the
encryption of the token transfer and the SSH certificates; what a log filter lets
through; two updaters at once.

## Plan

The order was: the API server with its lifecycle, the supervisor and what it uses, UDP
flows (all with proofs), then connections with the orchestrator, datagrams of version 2
and ICMP, ingress and streams, the commands, and last the proofs of their safety
properties, the refinement of `ConnectionDrain` and the safety behind the liveness of
the agent's parts. What is left:

1. Invariants behind `LoopsEnd` and `TokenRequestsEnd` that say who waits for whom.
2. A specification of the account (tunnels, routes, virtual networks) that
   `TunnelCommands` and `NetworkRoutes` share, instead of one view of it in each.
