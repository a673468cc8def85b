# XTPro tunnel: a TLA+ verification project

XTPro exposes a service behind a NAT through a tunnel server. The client keeps
one control connection to the server; the server gives it a public TCP port or
an HTTPS subdomain, and for every public connection or request asks the client
over the control connection to serve it. The modules here model the Go code
under `src/src/backend`; paths below are relative to it.

## The system

| Component | State | Operations | What is hard |
|---|---|---|---|
| Control sessions (`cmd/server/main.go`: `run`, `handleConnection`, `handleClient`, `controlLoop`, `heartbeatChecker`, `removeClient`, `Close`) | `server.clients`, the fields of `clientSession`, `closeOnce`, `done`, `connSemaphore` | register, replace, lose, tear down | a session replaced under its ID, teardown racing the heartbeat checker, several locks |
| Public port pool (`getNextPublicPort`, `releasePort`, `reservation.go`) | `availablePorts`, `usedPorts`, `portReservations` under `portMu` and `reservationMu` | grant (reserved, requested, head, fallback), release, reserve, expire | exhaustion, reconnection, leaks |
| Public listeners (`startPublicListener`) | the bound port, `session.publicListener` | listen, store, accept, close | closing while the listener is set up |
| Subdomains (`internal/http/proxy.go`, `cmd/server/http_handler.go`) | `HTTPProxyServer.subdomains`, `session.subdomain` | register, unregister, route | collisions, stale routes |
| TCP proxying (`handlePublicConnection`, `dispatchProxyConnection`, `cancelProxyConnection`; client `handleProxy`) | `proxyWaiting`, one channel per waiter, the two connections | ask, rendezvous, refuse, time out, copy | a late connection racing the timeout, who closes what |
| HTTP tunnelling (`SendHTTPRequest`, `handleHTTPResponse`; client `handleHTTPRequest`) | `httpRequests`, one channel per request | ask, answer, time out, lose the client | late and missing answers |
| Client control (`cmd/client/main.go`: `run`, `connectControl`, `receiveLoop`, `heartbeatLoop`, `trafficLoop`, `closeControl`, `requestExit`) | the connection, `done`, the status channels, `exitFlag` | connect, retry with back-off, serve, exit | exit racing a reconnection, channels closed under their users |
| UDP channel (both `main.go`) | the client's socket, `udpReady`, ping ticker and stop channel; at both ends `udpSessions` with timers | handshake and its retry, ping, open, data, idle, close | packets lost or reordered, goroutines that outlive their connection, a session ID reused |
| Client side of TCP proxying (`handleProxy`, `proxyCopyCount`) | two connections a stream, `activeSessions`, `totalSessions` | dial the backend, dial the server, copy, count | one of several steps failing, who closes and who counts |
| The server's locks (`clientsMu`, `portMu`, `reservationMu`) | who holds them; the push to a dashboard | registration, teardown, lookup, grant, clean-up, `sendDashboardUpdate` | locks nested in several orders, a lock held while a browser is written to |
| File sharing (`cmd/client/file_mode.go`, `cmd/fileserver`) | the session map, the cookie of a browser, the shared files, the back-off | login, logout, clean-up, pages, WebDAV requests, redial | answers lost or late, a client started again, methods the middleware does not list |
| Dashboard users (`internal/api`, `auth`, `middleware`, `database`) | the table of users, tokens with claims | start, login, register, create and delete users | claims older than the table, two spellings of an ID |
| Worker pool (`internal/pool`) | the task channel, `stopChan`, the wait group | submit, run, stop | a channel closed under its senders |
| Cache, configuration, port specifications, display, compression | | | sequential or unused, see "Not modelled" |

The components meet in shared maps of the `server` struct, each under its own
lock, and in messages over the control connection.

What makes each component correct:

- **Control sessions**: an entry of `clients` leads to a session that is alive;
  the late teardown of a replaced session leaves its successor alone; a session
  whose peer is gone is torn down to the end.
- **Port pool**: every port is in the slice once or marked, never both; a port
  has one holder, but for the fallback of an exhausted pool.
- **Listeners**: no listener outlives its session.
- **Subdomains**: a subdomain leads to the session that drew it.
- **TCP proxying**: a data connection gets to the public connection it was
  dialled for and to no other; nobody waits on a full channel; every public
  connection is answered or closed; a stream ends with either of its ends.
- **Client control**: at most one control connection; a loss leads back to
  dialling, an exit to the end; no panic.
- **HTTP tunnelling**: a response goes to the request with its ID, once; a
  request is answered or times out, and leaves nothing in `httpRequests`.
- **UDP channel**: one ping loop at a time; a handshake comes to an end whatever is
  lost; the goroutines of a channel end with it. **UDP sessions**: an entry of a
  table is read, a socket is closed by whoever takes it out, a session that was
  taken out ends, no timer outlives its session, a silent backend is given up (it is
  not: `udp_silent`).
- **Client streams**: both connections of a stream are closed when its work is
  over; the number of active sessions is that of the streams.
- **Locks**: whoever asks for them gets them; a push shows one state of the table.
- **File sharing**: a session ends in time, a logout is final, a read-only share
  stays as it is.
- **Dashboard users**: what a token says of its user is true or its user is gone;
  only admins make admins.
- **Worker pool**: stopping it ends, and no task runs afterwards.

The behaviours that are hard to test, each at its line and with the properties
that cover it, are the "hazards" of `PROJECT.json`.

## Modules

| Module | What it is |
|---|---|
| `PortPool` | the port pool as operators on its variables |
| `SessionRegistry` | control sessions, listeners, subdomains; extends `PortPool` |
| `PortLease` | abstract specification of what the server promises about ports |
| `ProxyRendezvous` | the server's half of TCP proxying |
| `ConnMatching` | abstract specification of which data connection serves which public one |
| `ClientControl` | one tunnel of the client: connection, loops, exit |
| `HttpTunnel` | HTTP requests from the public peer to the client's backend and back |
| `OneShot` | abstract specification of one HTTP exchange |
| `UdpChannel` | the client's UDP channel: handshake, retry, reader, ping loops |
| `UdpSessions` | the UDP sessions at either end |
| `SessionLife` | abstract specification of the life of a UDP session |
| `FileShare` | a client that shares files, its file server and their browsers |
| `Accounts` | the users of the dashboard, their tokens and the admin's requests |
| `ServerLocks` | the nested locks of the server and the dashboard push |
| `ClientStreams` | the client's half of TCP proxying |
| `WorkerPool` | the pool of `internal/pool` |
| `...Proofs` | the theorems about each of these; `PartsProofs` those of the last four |
| `MC...` | the instances for TLC; `MCParts` has the last four |

In all of them an action is a stretch of code between two points where another
goroutine can step in, and a mutant (`... Mutant of X` before it) is a wrong
version of the action X that the property it is paired with in `PROJECT.json`
must catch. No definition of a specification uses a mutant.

### PortPool and SessionRegistry

`PortPool` has the four branches of `getNextPublicPort`, `releasePort` and the
reservations. The sorted slice `availablePorts` is kept as the number of times
each port occurs in it: it is sorted after every append, so the counts
determine it, its head is the least port that occurs, and a duplicate would
show.

`SessionRegistry` has the goroutines of the server that handle control
sessions: one handler goroutine (`pc`), one listener goroutine (`listener`) and
one heartbeat checker per session, and `Close` under `closeOnce`. Locks that
are held over a point where others run are variables (`portMu`, `clientsMu`) or
a guard (`session.mu`, held while `listener` is `store`). A control connection
is up, silent (the peer is gone without a word), at its end, or closed.
`portOwner` is the operating system's table of bound ports: `net.Listen` fails
on a port that is bound. The contents of control messages other than the
registration are left out; they go to the other modules.

`PortLease` knows only who holds which port: ports are leased exclusively but
for the fallback, and returned by their holder. `SessionRegistry` implements it
(`ImplementsPortLease`).

### ProxyRendezvous

| State | Code |
|---|---|
| `waiter[p]` | where `handlePublicConnection` is for proxy ID `p` |
| `proxyWaiting`, `waitCh` | `server.proxyWaiting` and each waiter's channel of capacity one |
| `copier[p]` | the two goroutines of `proxyCopy` in `handleProxyStream` |
| `dial[d]`, `names[d]` | `dispatchProxyConnection` for data connection `d`, and the ID it names |
| `cancelling` | the IDs for which `cancelProxyConnection`, in the control loop of any session, is between its lock and its send |
| `publicConn`, `dataConn` | open, ended by the peer, or closed by the server |

The client is anything that speaks the protocol: it dials for an ID as often as
it likes, before `Encode` has returned even, refuses after dialling, or names an
ID nobody has. IDs are taken to be unique, so an ID stands for its public
connection. Bytes and their counters are left out: a copier reads, writes, and
returns.

`ConnMatching` has neither the map nor the channels nor the copiers: a public
connection asks, is matched with one data connection that was dialled for it or is
refused, and the two of a stream are closed together. `ProxyRendezvous` implements it
(`ImplementsMatching`): a match is the moment a data connection is put into a waiter's
channel, so a second one, one for another ID, or one that was closed before would be a
step the abstract specification does not have.

### ClientControl

One tunnel of the client. `run` is where the goroutine of `run` is inside
`run`, `connectControl` and `receiveLoop`; `closer[t]` where the goroutine `t`
is inside `closeControl`, which `run` and every caller of `requestExit` can
execute at the same time; `heartbeat`, `traffic` and `forwarding` are the loops
and HTTP handlers of each connection. The objects made for the n-th connection
are all called n: `field["done"] = 2` says that `c.done` is the channel made for
the second one, and `closedChans` which channels are closed. The fields have no
lock in the code, so every use of one is a step. Using a nil field, closing a
channel twice or sending on a closed one panics (`crashed`), which ends the
process.

Abstractions, each in the direction of fewer interleavings and so of fewer
findings, or of data no property looks at:

- the assignments `connectControl` makes after `closeOnce` is renewed are one
  step (`MakeFields`), and so is clearing `control`, `enc` and `dec`;
- testing a channel for nil and using it is one step in the loops, two in
  `closeControl`; the renewal of `closeOnce` and its use are atomic;
- a send with a `default` may go either way: what is in the buffers is not kept.
  The second send of the traffic loop has none: it waits on the channel that was in
  the field when it began (`TrafficWaits`), for good if that was nil;
- back-off takes any time, a connection keeps one HTTP handler of those that
  run at a time, and a behaviour has those of the loops and handlers that one of the
  `LoopSets` names;
- the goroutines of TCP proxying on the client, its UDP part and its display
  are left out. They write none of the fields that are modelled.

### HttpTunnel

Both sides of an HTTP request. `asker[r]` is where `handleRequest` and
`SendHTTPRequest` are for request `r`; `httpRequests` and `ready` the map and
the channels that have a response in them; `delivering` the goroutines of
`handleHTTPResponse` between the map and the channel; `forwarding` the handlers
of the client. A control connection (`link`) is up, down (it broke or the client
closed it, and the server has not noticed) or done (`session.done` is closed);
breaking loses what is on the way. `enc` is the session the client's encoder
belongs to: an answer goes out on that one, not on the one its request came in
on. What `ClientControl` says in detail of closing and making connections is
two actions here.

`late` are the requests whose `WriteTimeout` is over. It is set when the header
of a request has been read and is as long as the wait of `SendHTTPRequest`,
which begins later, so `TimeOut` only happens to late requests, and to those
nothing can be written any more. What the client drops without an answer is in
`unanswered`: a backend that fails is not reported to the server
(`client/http_handler.go:67-71`). Headers, bodies and the choice of the
subdomain are left out.

`OneShot` sees each request as one thing in one place: with its asker, on the way, at the
backend, on the way back, with a handler of the server, in the channel, taken. It goes
from each to the next, or gets lost, but no more once a goroutine of the server has it;
the public peer is sent the page if the answer was taken for it and an error otherwise.
`HttpTunnel` implements it (`ImplementsOneShot`), over any sessions.

### UdpChannel and UdpSessions

`UdpChannel` has one client in UDP mode. `run` is where the goroutine of `run` is
between making a control connection with its socket and closing both; `reader[n]`,
`retry[n]` and `loop[l]` are `readUDPControl`, `udpHandshakeRetry` and
`udpPingLoop`. The socket, the `done` channel and the control connection of the
n-th attempt are all called n; `sock`, `ready` and `ping` are the fields under
`udpMu` and `udpCtrlMu`, and a hold of one of these is a step. Packets stay in
`toServer` and `toClient` once sent, so that they may come late, twice, in any
order or never.

`UdpSessions` has one end of a tunnel, server or client: the table, a reader for
each session, the client's timer and count of idle periods, its calls of
`handleBackendTimeout` (`timeout`), and the closers, which
take an entry out under the lock and close its socket afterwards. The calls overlap,
also for one ID; each reads, writes and tests the count in steps of its own, for it is
not locked (`LoadIdle`, `StoreIdle`, `TestIdle`). A reader of the client cancels the
wait of its ID a step after it has read. All of them know
a session by its ID, and `udp_open` may have given the ID to a new one: on the
client the open closes what it replaces, on the server it does not.
The peer may send anything, because no program of the repository sends
`udp_open`.

`SessionLife` keeps of each session whether it is unborn, listed, taken out, closed or
forgotten. `UdpSessions` implements it (`ImplementsSessionLife`): though everybody who
removes a session knows it by its ID only, each is taken out by one goroutine and closed
by that one, and only a server forgets sessions, those whose ID is opened again.

### FileShare

`tunnel` is where `runFileShareMode` is, `local` the HTTP server it has started,
`backoff` its pause. `sessions` and `age` are the map of the `SessionManager`; time
passes in steps of `Tick` and `cleanupLoop` comes after `SweepPeriod` of them.
A request (`call[s]`) carries the cookie the jar had when it was sent; it is on its
way, past the authentication, or on its way back, and gets lost with the tunnel or
without. A browser takes cookies from answers in the order they come in. A program without
cookies sends the password, or a token it has seen as a Bearer (`ProgramSends`).
`revoked`
is a history variable: tokens that were logged out, or that a client gave out which
was stopped since. GET stands for the methods `PermissionMiddleware` lists with
reading, PUT and DELETE for those with writing, and LOCK for those it does not
list; what the library does with a file is `Effect`.

### The four parts of MCParts

They share no state, and `MCParts` runs one of them in each behaviour.

- `Accounts`: the table of users and the statements on it, a statement a step;
  `logins` and `requests` are handlers between two of them, with the row or the
  claims they have read. IDs are numbers with a spelling, as stored or as shown.
- `ServerLocks`: `at[g]` is where a goroutine is in one of seven functions, between
  two locks; `writer` is set when a writer of the `sync.RWMutex` announces itself,
  which stops new readers, and it goes on when the readers are gone. Of the table
  only its length is kept: the two messages of a push both tell it.
- `ClientStreams`: `handler[s]` is where `handleProxy` is, `copiers[s]` the copiers
  that run. `uncounted` is a history variable: the streams that failed with the
  number of active sessions raised.
- `WorkerPool`: a task is in the select of `Submit`, in the channel, run, done, or
  refused; the order of the channel is left out. A send on the closed channel
  panics, and a panic ends everything.

## Runs

Passing runs:

| Run | Instance | Shows |
|---|---|---|
| `registry_ports` | 3 sessions, 1 ID, 2 ports, 2 slots | takeovers, reconnections with reserved or requested ports and exhaustion leave pool, table and leases consistent |
| `registry_teardown` | 2 TCP or HTTP sessions, 1 ID, 1 port, 1 name, fair | no orphan listener; a name leads to the session that drew it; a dead session is torn down to the end |
| `proxy_rendezvous` | 2 public, 2 data connections, fair | one sender per waiter, no stale waiter; the rendezvous is a matching (`ConnMatching`); a public connection is answered or closed; a stream ends with either end |
| `client_control` | 2 connections; HTTP handlers, the traffic loop or the heartbeat loop; fair | never two control connections; until the exit is requested `run` and `closeControl` do not panic; loss leads to dialling, exit to the end, no heartbeat loop is left behind |
| `http_tunnel` | 2 requests, 2 sessions, fair | an answer finds its channel; a request is one thing on its way (`OneShot`); the public peer is answered, unless its time is over or the client dropped the request |
| `udp_channel` | 2 connections, 1 retry, 2 ping loops, fair | one ping loop that was not stopped; the handshake ends; reader and retry end with their channel |
| `udp_sessions` | 2 sessions of 1 ID, 2 timeout calls at a time, either end, fair | entries are read, no timer outlives its session, a session is listed, taken out and closed once (`SessionLife`), what is taken out ends |
| `file_share` | 2 requests, 2 tokens, 1 file, life and period 1 | sessions end in time, a logout is final, a read-only share keeps its files |
| `parts` | 2 names and 3 rows; 3 goroutines; 3 streams; 2 workers and 5 tasks; fair | claims stay true, admins come from admins; everyone gets the locks and leaves, a push is one snapshot; streams close and are counted; `Stop` ends and nothing runs after it |

Runs that end in a counterexample show where the code does not do what its words
say:

| Run | The code | says |
|---|---|---|
| `client_loss` | an HTTP handler that outlives its connection uses a nil encoder | `wiki/Home.md:75` "Auto-reconnect" |
| `udp_silent` | every wait for a backend sets `idleCount` to zero (client `main.go:1523`), so that `backendIdleRetries` is never reached and a silent backend keeps its session | client `main.go:1486` "chưa phản hồi (%d/%d)" (has not answered), `main.go:1493` "đóng phiên" (closing the session) |
| `account_delete` | an admin who deletes a user by the ID the interface lists deletes nobody: the ID is stored without hyphens and shown with them | `internal/database/admin.go:5` "DeleteUser xóa user" |

### Where else the code and its words differ

Met while modelling; each of these is a behaviour of the module named, and no run
checks it:

- `SessionRegistry`: a port reserved for a client goes back into the pool at once
  and may be another client's when the first comes back (`main.go:1424` "allows the
  client to reconnect and get the same port").
- `SessionRegistry`: the port of a session that was replaced under its ID stays
  marked for good (`main.go:1421` is the guard, `main.go:1436` says "Still release
  the port back to pool"). The guard at `main.go:1444` does the same to its
  subdomain: the name goes on leading to the closed session.
- `SessionRegistry`: `removeClient` returns a port to the pool before it closes the
  listener on it, so that the next session's `net.Listen` may fail (`ListenFails`).
- `SessionRegistry`: a registration with a key of fewer than eight characters and no
  client ID panics (`main.go:845`, `key[:8]`) and ends the server. `Allocate` leaves it
  out: the clients of the model send an ID, as the program `client` does.
- `ProxyRendezvous`: a data connection that comes as its waiter times out is left in
  the waiter's channel and never closed (`main.go:761` "responsibility passed to
  handlers").
- `ClientControl`: an exit requested before the first connection, or closers in two
  goroutines at once, close a nil or a closed channel and panic; an exit requested
  while the client connects is lost, for `connectControl` does not look at
  `exitFlag` (client `main.go:389` "clean shutdown").
- `UdpChannel`: a late reader may set `udpReady` for a channel whose own handshake
  is not over, its deferred `stopUDPPing` may stop the loop of the next channel, and
  a late retry goroutine may close the next channel's socket. `OnePingLoop` and the
  rest hold all the same: too little runs, and nothing too much.
- `UdpSessions`: the server keeps the socket of a session whose ID is opened again
  (`forgotten` in `SessionLife`; `SocketIsHeld` says so); a timeout that
  finds a newer session under its ID takes that one out.
- `HttpTunnel`: the client's `http.Client` follows redirects, so that a backend may be
  asked more than once for one request; the public peer gets the last answer.
  `BackendAnswers` is the end of that, however many questions it took.
- A UDP ping carries an ID which the server returns inside the payload
  (`main.go:1306`): the client's round-trip time is not what it measures. Payloads
  are not modelled.
- `FileShare`: under the permission `r` a LOCK on a name that is not there makes an
  empty file (`permissions.go:13` "Chỉ đọc", read only): the middleware has no
  default case.
- `ClientStreams`: a stream that fails at the server stays counted as active
  (`uncounted`).
- `ServerLocks`: the push has no write deadline. A browser that keeps its connection
  and reads nothing keeps `clientsMu`, and registration waits for it; the fairness
  below leaves that browser out.
- `Accounts`: `GetProfile` looks its user up by the name in the token, which may be
  another's by then. The foreign keys are switched on for one of the pooled
  connections only (`database.go:100`); nothing inserts a row that has one.

(`main.go` is `cmd/server/main.go`, client `main.go` is `cmd/client/main.go`.)

### Bounds

- `Sessions`: three registrations under one ID make a takeover of a takeover;
  two slots of `connSemaphore` with three connections make one be rejected.
  `registry_teardown` needs two: the session that goes and the one that replaces
  it. Every session is used once; a reconnection is another session with the
  same ID and key.
- Ports: with two of them a grant comes from the head of the slice or by
  request; a takeover leaves the first marked, so the third session finds the
  pool exhausted and its release is the second one of the same port.
- `DataConns`: two for two IDs let one ID be dialled twice, or each once, or one
  connection go nowhere.
- `MaxConns`: two connections let the goroutines and closers of the first meet
  the fields of the second. `Dial` stops at the bound and `DialFails` does not,
  so a client at the bound goes on trying.
- `Requests` and `MaxSessions` of `HttpTunnel`: two of each let an answer to a
  request of the first session travel over the second, while another request
  shares the client that dies or the session that ends.
- `LoopSets`: the loops and handlers read the fields of the client and write none,
  so that what one of them does is the same whether the others run or not. A behaviour
  has one kind of them, and `client_control` all three kinds in turn.
- `UdpChannel`: two connections, as in `ClientControl`; one retry makes the goroutine
  give up; two ping loops let one be stopped while the next is started.
- `UdpSessions`: two sessions of one ID let it be opened again under every goroutine
  that knows it, and two calls of `handleBackendTimeout` overlap, one of them for the
  session before. Sessions of different IDs meet only where the control connection is
  lost and all are closed; the theorems are for any IDs, sessions and calls.
  `IdleRetries` is the constant of the code. `udp_silent` needs one session and one call.
- `FileShare`: `Life` and `SweepPeriod` of one tick let a session be older than its
  life and still in the map. Two tokens and two requests let a logout, a login and a
  request overtake each other, over a restart. Tokens and requests are symmetric.
  `MaxBackoff` is `FirstBackoff`, so the pause does not grow: no property looks at it.
- `MCParts`: three rows let a name be given up and taken again twice; three
  goroutines are a reader, a writer that waits for it and a reader behind; five
  tasks fill a channel of four and leave one in its select.
- Elsewhere times are never counted: a timer may fire at any moment.

The proofs below are for every value of these constants.

### Fairness

Weak fairness, on what goroutines do by themselves: the scheduler runs them,
timers fire, writes to a control connection return. Of the other processes:

- a client need not send, answer, dial or hang up; the heartbeat checker finds a
  silent one (`IdleTimeout`), and that is the only clock assumed in
  `SessionRegistry`;
- in `ProxyRendezvous` a `Write` returns when the peer reads or is gone. The
  code sets no write deadline, so a peer that stays and reads nothing stalls its
  stream for ever: `StreamEndsWithEitherEnd` is about peers that read. The timer
  of the wait is part of `Waiter`'s fairness;
- in `ClientControl` a read of a lost connection returns (TCP keep-alive). The
  server need not send anything, and nobody need ask for the exit. A connection
  the server merely keeps silent about keeps `receiveLoop` waiting, as in the
  code, and so may a channel nobody drains keep the traffic loop;
- in `HttpTunnel` a connection that is up carries its messages, the client's
  30-second limit ends a silent backend, a connection the client has left breaks,
  and the server notices one that is broken. The server's own timer and a
  reconnection are not assumed: `PublicIsAnswered` does not rest on them.

- in `UdpChannel` the goroutines run, a read of a closed socket returns, and a
  stopped ping loop sees its stop channel. Nothing is assumed of packets, of the
  server or of the ticks: a handshake ends by its retries;
- in `UdpSessions` whoever took a session out closes it, and a reader goes on with
  what it has read and leaves a closed socket; `udp_silent` assumes besides that timers
  fire and that their calls go on (`TimedSpec`), without which a session might stay
  only because nobody looked;
- in `ServerLocks` strong fairness for each goroutine: a mutex of Go lets nobody
  wait for ever. That a browser takes its messages or breaks its connection off is
  assumed: nothing in the code sees to it, which sets no write deadline
  (`main.go:1514`, `1533`), and `EveryoneLeaves` is about such browsers. `NoRing`, which
  assumes nothing, is what the order of the locks gives by itself;
- in `WorkerPool` workers run, a task comes to an end, and `Stop` goes on. Nobody
  need submit or stop.

`FileShare`, `Accounts` and `ClientStreams` have safety properties only.

`LossLeadsToRedial` and its neighbours allow for `crashed`, because the client
may panic on the way (`client_loss`), and `StopEnds` for a pool whose `Submit` did.

TLC looks for no deadlock where a system may stop: a channel or an end whose
connections or sessions are at their bound (`udp_channel`, `udp_sessions`), a pool
that is done, streams that are over (`parts`), accounts at their bound.

## Theorems

| Theorem | For all | Inductive invariant |
|---|---|---|
| `TypeCorrect` and its like (`UdpSessions`: in `TablesAreSound`) | constants | itself; in `HttpTunnel` with `GoesToSession` |
| `PoolAccountsForPorts`, `PortsAreExclusive` | sessions, ports, requests | `PoolInv` |
| `RegistryImplementsPortLease` | the same | `PoolInv` |
| `TableLeadsToLiveSessions`, `SuccessorKeepsItsEntry` | sessions, IDs | `ClientsAreLive` |
| `NoListenerIsOrphaned` | sessions, ports | `ListenerInv` |
| `SubdomainsLeadToSessions` | sessions, names | `SubdomainInv` |
| `LocksFollowHandlers`, `SlotsBoundHandlers` | sessions, slots | `HandlerInv` |
| `SendersNeverWait`, `ConnIsTheOnlyOne`, `NoStaleWaiter` | public and data connections | `RendezvousInv` |
| `RendezvousImplementsMatching` | the same | `RendezvousInv`, `StreamInv` |
| `OneConnAtATime` | connections, goroutines that exit | `ControlInv` |
| `ReconnectingIsSafe` | the same, and any loops | `ControlInv`, `PanicInv` |
| `ExitStaysRequested` | the same | none: it follows from `Next` |
| `AnswerIsTheOnlyOne`, `AnswerIsFound`, `NoStaleRequest` | requests, sessions | `TunnelInv` |
| `TunnelImplementsOneShot` | the same | `TunnelInv`, `ReplyInv` |
| `OneLoopAtATime`, `OneSocketAtATime` | connections, retries, loops | themselves, with `TypeOK` |
| `EntriesAreRead`, `SocketsAreHeld` | IDs, sessions, calls, retries | `Inv` of `UdpSessionsProofs` |
| `TimersHaveSessions` | the same | that and `TimersInv` |
| `TablesImplementSessionLife` | the same | that and `LifeInv` |
| `SessionsAreSwept`, `LogoutIsFinal`, `ReadOnlyIsKept` | requests, tokens, files, lives, periods | `Inv` of `FileShareProofs` |
| `ClaimsStayTrue`, `AdminsAreMadeByAdmins` | names, rows, requests | `Inv` of `PartsProofs` |
| `PushesAreSnapshots` | goroutines, tables | `LocksInv` |
| `LocksAreExclusive`, `NobodyWaitsInARing` | the same | `LockInv` |
| `StreamsClose`, `ActiveIsCounted` | finite sets of streams | `StreamsInv` |
| `StoppedPoolIsIdle` | workers, tasks | `PoolInv` of `PartsProofs` |
| `WorkersBoundTasks` | finite sets of workers; tasks | `PoolInv` and `Hands` |

- `PoolInv`: `ExclusivePort` does not keep itself: that a grant takes a port
  nobody holds rests on the marks (`HeldPortIsMarked`) and on the slice holding
  no marked port (`PortAccounting`); that a release takes away no other
  session's mark rests on `ExclusivePort`. The fallback port is outside both.
- `ListenerInv`: a listener goroutine that has seen `done` open stores its
  listener under `session.mu`, which `Close` must take before it can finish.
- `SubdomainInv`: a name is drawn only when it leads to nobody, and only its
  drawer gives it up.
- `RendezvousInv`: while a waiter is in `proxyWaiting` its channel is empty, no
  one is sending to it and no stream has begun (`UnfoundIsVacant`), so whoever
  takes it out, under the lock, is alone.
- `ControlInv`: until the exit is requested nobody but `run` touches the fields,
  so what it closes is the connection it has; after that, though two goroutines
  may be in `closeControl`, `run` never dials again.
- `PanicInv`: a channel has the number of the connection it was made for, and no
  field and no closed channel has a number that was not dialled yet
  (`NumberedByDials`). So the channels of a new connection are open, and what `run` has
  yet to close in `closeControl` is as it was made (`IntactUntilClosed`).
- `HandlerInv`: `Close` hangs up first, and a handler that never gets to `Close` does
  so itself.
- `StreamInv`: a stream that has begun has a data connection, a copier returns after
  both connections of its stream were closed, and a data connection that was not looked
  up yet is open. The abstract match is read off the channel and the stream, so each
  closing call must be seen to reach the connections of its own stream.
- `TunnelInv`: a request is nowhere before it is sent (`NowhereBeforeSent`) and
  asked only over its own session; from then on the request or its answer is one
  thing that moves from place to place, so the entry of `httpRequests` goes
  either with the asker or to the only goroutine that has something to send.
- `ReplyInv`: a response that was taken is nowhere else, an outcome ends the wait, and
  the public peer is written to last. With `TunnelInv` the places of a request are one
  or none, and every step moves it along one hop (`IsHop`) or loses it (`IsLoss`).
- `UdpSessionsProofs!Inv`: the numbers of sessions are given in order
  (`NumbersAreGiven`), so that a newer session under an ID is not an older one's.
- `TimersInv`: a wait is begun for whatever session has the ID, under the lock, and the
  server, which forgets sessions, has no timers to forget.
- `LifeInv`: what is listed is open and in nobody's hands, and what is in somebody's
  hands was opened.
- `FileShareProofs!Inv`: no token is drawn twice and none is in a cookie, a request
  or an answer before it is drawn (`UndrawnAreUnknown`), so that a revoked one never
  comes back into the map (`RevokedAreGone`). How old a session can be follows from the
  time since the last clean-up (`AgesAreBounded`).
- `Inv` of the accounts: an ID is given once, and claims hold IDs that were given
  (`IdsAreGiven`), so that no later row has the ID of an older claim.
- `LocksInv`: a push is among the readers until its second message is out, and no
  writer changes the table while there are readers.
- `LockInv`: a mutex is in the hands of the goroutine that is between its `Lock` and its
  `Unlock`, the table is written by one goroutine while nobody reads it. A grant holds
  `portMu` and asks for `reservationMu`, a teardown holds the table and asks for either,
  and who holds `reservationMu` asks for nothing: so the wait goes from the table to
  `portMu` to `reservationMu` and never round (`NoRing`).
  `NoRing` takes the waiting from `WaitsFor`, read off the guards, because the prover has
  no ENABLED; with three goroutines and two clients TLC found `WaitsFor(g) = {}` to be
  `ENABLED Steps(g)` in every reachable state where `g` is under way.
- `StreamsInv`: where `handleProxy` is tells which connections there are, and a
  stream that was given up has no copier left that could lower the number.
- `PoolInv`: a task that runs is in some worker's hands, and `Stop` returns after all
  workers have.
- `Hands`: a worker holds one task that runs, and no two hold the same.

The four refinements are proved step by step. The initial states map to initial states;
each action maps to one of the abstract specification or changes none of its variables,
with a lemma for each kind of step.

The assumptions are the named ASSUMEs on the constants: nil differs from every
real value, requests are ports, `MaxConnections`, `MaxConns` and
`MaxSessions` are positive,
`run` is not one of the goroutines that request the exit, streams and workers are
finitely many, and the markers of a state (nobody, no token, a page, an idle worker) are
no goroutines, tokens or tasks.

Only model-checked: everything under fairness (`DeadSessionIsTornDown`,
`PublicConnIsServed`, `StreamEndsWithEitherEnd`, `LossLeadsToRedial`,
`ExitEndsService`, `HeartbeatEndsWithConn`, `PublicIsAnswered`,
`LateRequestEnds`, `HandshakeEnds`, `ChannelGoroutinesEnd`, `TakenSessionEnds`,
`EveryoneLeaves`, `StopEnds`), which the prover does not do.

## Not modelled

- The token buckets of the rate limiter, certificates, the database library, the
  WebDAV library: other people's code, present by what the code lets them do.
- The byte layout and the encryption of UDP packets, and the parser of port
  specifications: sequential conversions of strings and bytes that unit tests reach,
  and that no property here tells apart.
- The cache: no program uses it. (`Set` at the capacity evicts another entry also
  when its key is there already, and `Get` writes the hit count and the time of
  access under the read lock.)
- Who uses the pool: like the cache, `internal/pool` is imported by no program of the
  repository. `WorkerPool` is about the package itself, for whoever comes to use it.
- Configuration, display, compression, the static pages: sequential, or rendering.
- The middleware against repeated failures and for request rates: not wired into any
  route.
- The tables of tunnels and connections of the database: nothing writes them.
- The composition of both halves of TCP proxying: `ProxyRendezvous` lets the client do
  anything the protocol allows, which covers what `ClientStreams` does, and
  `ClientStreams` lets the server close a stream at any moment.

## Plan

Done: the registry, TCP proxying on both sides, the client's control loop, HTTP
tunnelling, the UDP channel and its sessions, file sharing, the users of the
dashboard, the locks, the pool, and theorems about each: every invariant and every
action property a run checks, four of them refinements. What is left would be to
strengthen some of the abstract specifications (a `FileShare` as a table of who may do
what, the accounts as one atomic table), the
packet codec and the port specifications as functions checked against a reference
definition, and the cache if a program comes to use it.
