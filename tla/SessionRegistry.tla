-------------------------- MODULE SessionRegistry ---------------------------
(***************************************************************************)
(* The control connections of the tunnel server, from accept to the end of *)
(* handleConnection: registration (handleClient), the table of clients,    *)
(* the public port and its listener goroutine (startPublicListener), the   *)
(* subdomain of an HTTP tunnel, the heartbeat checker, and the teardown    *)
(* (removeClient and clientSession.Close).                                 *)
(*                                                                         *)
(* A session is one accepted connection. Its handler goroutine is at pc,   *)
(* its listener goroutine at listener; Close runs in whichever goroutine   *)
(* closeOnce lets in. The other end of the connection may say anything,    *)
(* hang up or fall silent at any time.                                     *)
(***************************************************************************)
EXTENDS PortPool, FiniteSets

CONSTANTS
    Sessions,        \* accepted control connections
    ClientIDs,       \* the client IDs they register
    Subdomains,      \* the names GenerateSubdomain can draw
    Protocols,       \* the protocols clients ask for
    Requests,        \* the ports they ask for, NoPort when they do not care
    MaxConnections,  \* capacity of connSemaphore
    NoSession, NoID, NoKey, NoName   \* nil and the empty strings

ASSUME NilAssumption ==
    /\ NoSession \notin Sessions
    /\ NoID \notin ClientIDs
    /\ NoKey \notin Keys
    /\ NoName \notin Subdomains

ASSUME ProtocolsAssumption == Protocols \subseteq {"tcp", "http", "udp"}

ASSUME RequestsAssumption == Requests \subseteq Ports \cup {NoPort}

ASSUME MaxConnectionsAssumption == MaxConnections \in Nat \ {0}

VARIABLES
    clients,      \* server.clients: the session registered under each ID
    subdomains,   \* HTTPProxyServer.subdomains
    portOwner,    \* the session whose listener the OS has bound to a port
    portMu,       \* the session that holds portMu across a step
    clientsMu,    \* the session that holds clientsMu across a step
    pc,           \* where the handler goroutine of a session is
    conn,         \* the control connection: up, silent, eof or closed
    msg,          \* its register message
    reserved,     \* local of getNextPublicPort: the reservation is valid
    publicPort,   \* session.publicPort
    subdomain,    \* session.subdomain
    closing,      \* session.closeOnce and session.done
    listener      \* where the listener goroutine of a session is

serverVars == <<clients, subdomains, portOwner, portMu, clientsMu>>
sessionVars == <<pc, conn, msg, reserved, publicPort, subdomain, closing,
                 listener>>
vars == <<poolVars, serverVars, sessionVars>>

RegisterMessage == [clientID : ClientIDs, key : Keys, protocol : Protocols,
                    requested : Requests]
NoMessage == [clientID |-> NoID, key |-> NoKey, protocol |-> "none",
              requested |-> NoPort]

-----------------------------------------------------------------------------
Init ==
    /\ PoolInit
    /\ clients = [i \in ClientIDs |-> NoSession]
    /\ subdomains = [n \in Subdomains |-> NoSession]
    /\ portOwner = [p \in Ports |-> NoSession]
    /\ portMu = NoSession
    /\ clientsMu = NoSession
    /\ pc = [c \in Sessions |-> "dialing"]
    /\ conn = [c \in Sessions |-> "up"]
    /\ msg = [c \in Sessions |-> NoMessage]
    /\ reserved = [c \in Sessions |-> FALSE]
    /\ publicPort = [c \in Sessions |-> NoPort]
    /\ subdomain = [c \in Sessions |-> NoName]
    /\ closing = [c \in Sessions |-> "open"]
    /\ listener = [c \in Sessions |-> "none"]

Goto(c, from, to) ==
    /\ pc[c] = from
    /\ pc' = [pc EXCEPT ![c] = to]

\* The sessions whose goroutine holds a slot of connSemaphore.
InHandler == {c \in Sessions : pc[c] \notin {"dialing", "gone"}}

Done(c) == closing[c] # "open"

-----------------------------------------------------------------------------
(* Accepting a connection and its first message.                           *)

\* A free slot: the goroutine of handleConnection starts.
Accept(c) ==
    /\ Goto(c, "dialing", "handshake")
    /\ Cardinality(InHandler) < MaxConnections
    /\ UNCHANGED <<poolVars, serverVars, conn, msg, reserved, publicPort,
                   subdomain, closing, listener>>

\* No free slot: the connection is closed at once.
Reject(c) ==
    /\ Goto(c, "dialing", "gone")
    /\ Cardinality(InHandler) >= MaxConnections
    /\ conn' = [conn EXCEPT ![c] = "closed"]
    /\ UNCHANGED <<poolVars, serverVars, msg, reserved, publicPort,
                   subdomain, closing, listener>>

\* No message, an undecodable one, or one of another type.
HandshakeFails(c) ==
    /\ Goto(c, "handshake", "gone")
    /\ conn' = [conn EXCEPT ![c] = "closed"]
    /\ UNCHANGED <<poolVars, serverVars, msg, reserved, publicPort,
                   subdomain, closing, listener>>

\* checkRegistrationRateLimit refuses: handleClient has set nothing yet.
RateLimited(c) ==
    /\ Goto(c, "handshake", "remove")
    /\ conn' = [conn EXCEPT ![c] = "closed"]
    /\ UNCHANGED <<poolVars, serverVars, msg, reserved, publicPort,
                   subdomain, closing, listener>>

-----------------------------------------------------------------------------
(* handleClient.                                                           *)

\* getNextPublicPort takes portMu and looks the reservation up under
\* reservationMu, which it lets go before it decides. An empty key has been
\* replaced by a generated one, an empty client ID by one made of the key.
LookupReservation(c, m) ==
    /\ Goto(c, "handshake", "allocate")
    /\ portMu = NoSession
    /\ portMu' = c
    /\ msg' = [msg EXCEPT ![c] = m]
    /\ reserved' = [reserved EXCEPT ![c] = HasReservation(m.key, m.requested)]
    /\ UNCHANGED <<poolVars, clients, subdomains, portOwner, clientsMu,
                   conn, publicPort, subdomain, closing, listener>>

\* The rest of getNextPublicPort and the fields of the session. The server panics
\* on key[:8] when a client gives no ID and a key of fewer than eight characters;
\* no message here is like that.
Allocate(c, p) ==
    /\ Goto(c, "allocate", "add")
    /\ GetNextPublicPort(msg[c].key, msg[c].requested, reserved[c], p)
    /\ portMu' = NoSession
    /\ publicPort' = [publicPort EXCEPT ![c] = p]
    /\ reserved' = [reserved EXCEPT ![c] = FALSE]
    /\ UNCHANGED <<clients, subdomains, portOwner, clientsMu, conn, msg,
                   subdomain, closing, listener>>

\* addClient: the entry of an earlier session with this ID is overwritten.
AddClient(c) ==
    /\ Goto(c, "add", IF msg[c].protocol = "http" THEN "subdomain" ELSE "reply")
    /\ clientsMu = NoSession
    /\ clients' = [clients EXCEPT ![msg[c].clientID] = c]
    /\ UNCHANGED <<poolVars, subdomains, portOwner, portMu, clientsMu, conn,
                   msg, reserved, publicPort, subdomain, closing, listener>>

\* Mutant of RegisterHTTPClient: RegisterClient does not look for the name.
RegisterHTTPOverwrites(c, n) ==
    /\ Goto(c, "subdomain", "reply")
    /\ subdomains' = [subdomains EXCEPT ![n] = c]
    /\ subdomain' = [subdomain EXCEPT ![c] = n]
    /\ UNCHANGED <<poolVars, clients, portOwner, portMu, clientsMu, conn,
                   msg, reserved, publicPort, closing, listener>>

\* registerHTTPClient with a name that is free.
RegisterHTTPClient(c, n) ==
    /\ Goto(c, "subdomain", "reply")
    /\ subdomains[n] = NoSession
    /\ subdomains' = [subdomains EXCEPT ![n] = c]
    /\ subdomain' = [subdomain EXCEPT ![c] = n]
    /\ UNCHANGED <<poolVars, clients, portOwner, portMu, clientsMu, conn,
                   msg, reserved, publicPort, closing, listener>>

\* registerHTTPClient fails: no HTTP proxy, no randomness, or a name in use.
RegisterHTTPFails(c) ==
    /\ Goto(c, "subdomain", "remove")
    /\ conn' = [conn EXCEPT ![c] = "closed"]
    /\ UNCHANGED <<poolVars, serverVars, msg, reserved, publicPort,
                   subdomain, closing, listener>>

\* The "registered" reply is written; the heartbeat checker and, for TCP,
\* the listener goroutine start; controlLoop is entered. A session without a
\* listener goroutine is treated as one whose goroutine has returned.
Reply(c) ==
    /\ Goto(c, "reply", "control")
    /\ listener' = [listener EXCEPT ![c] =
                      IF msg[c].protocol = "tcp" THEN "listen" ELSE "exit"]
    /\ UNCHANGED <<poolVars, serverVars, conn, msg, reserved, publicPort,
                   subdomain, closing>>

\* Mutant of ReplyFails: the error path returns without removeClient.
ReplyFailsUnremoved(c) ==
    /\ Goto(c, "reply", "gone")
    /\ conn[c] # "up"
    /\ conn' = [conn EXCEPT ![c] = "closed"]
    /\ UNCHANGED <<poolVars, serverVars, msg, reserved, publicPort,
                   subdomain, closing, listener>>

\* The reply cannot be written because the peer has hung up.
ReplyFails(c) ==
    /\ Goto(c, "reply", "remove")
    /\ conn[c] # "up"
    /\ conn' = [conn EXCEPT ![c] = "closed"]
    /\ UNCHANGED <<poolVars, serverVars, msg, reserved, publicPort,
                   subdomain, closing, listener>>

-----------------------------------------------------------------------------
(* The control loop and what ends it.                                      *)

\* The peer hangs up, or disappears without a FIN. The handler notices neither
\* before it writes its reply, so an earlier loss is one at that point.
PeerHangsUp(c) ==
    /\ conn[c] \in {"up", "silent"}
    /\ pc[c] \in {"reply", "control"}
    /\ conn' = [conn EXCEPT ![c] = "eof"]
    /\ UNCHANGED <<poolVars, serverVars, pc, msg, reserved, publicPort,
                   subdomain, closing, listener>>

PeerFallsSilent(c) ==
    /\ conn[c] = "up"
    /\ pc[c] \in {"reply", "control"}
    /\ conn' = [conn EXCEPT ![c] = "silent"]
    /\ UNCHANGED <<poolVars, serverVars, pc, msg, reserved, publicPort,
                   subdomain, closing, listener>>

\* Decode reports the end of the stream or the connection Close has closed:
\* controlLoop returns nil and the handler goes on to removeClient.
ControlLoopEnds(c) ==
    /\ Goto(c, "control", "remove")
    /\ conn[c] \in {"eof", "closed"}
    /\ UNCHANGED <<poolVars, serverVars, conn, msg, reserved, publicPort,
                   subdomain, closing, listener>>

\* A message cannot be decoded or a pong cannot be written: controlLoop
\* returns the error and handleConnection closes the connection.
ControlLoopFails(c) ==
    /\ Goto(c, "control", "remove")
    /\ conn[c] \in {"up", "eof"}
    /\ conn' = [conn EXCEPT ![c] = "closed"]
    /\ UNCHANGED <<poolVars, serverVars, msg, reserved, publicPort,
                   subdomain, closing, listener>>

\* Mutant of BeginClose: done is closed, the connection is not.
BeginCloseKeepsConn(c) ==
    /\ closing[c] = "open"
    /\ closing' = [closing EXCEPT ![c] = "closing"]
    /\ UNCHANGED conn

\* clientSession.Close as far as the connection: closeOnce lets one
\* goroutine in.
BeginClose(c) ==
    /\ closing[c] = "open"
    /\ closing' = [closing EXCEPT ![c] = "closing"]
    /\ conn' = [conn EXCEPT ![c] = "closed"]

\* heartbeatChecker: nothing was received for clientIdleTimeout. It runs from
\* the reply until done is closed, so during the teardown as well.
IdleTimeout(c) ==
    /\ listener[c] # "none"
    /\ BeginClose(c)
    /\ UNCHANGED <<poolVars, serverVars, pc, msg, reserved, publicPort,
                   subdomain, listener>>

\* Mutant of FinishClose: publicListener is read without session.mu.
FinishCloseUnlocked(c) ==
    /\ closing[c] = "closing"
    /\ closing' = [closing EXCEPT ![c] = "closed"]
    /\ portOwner' = [p \in Ports |->
                       IF portOwner[p] = c /\ listener[c] = "accept"
                         THEN NoSession ELSE portOwner[p]]
    /\ UNCHANGED <<poolVars, clients, subdomains, portMu, clientsMu, pc, conn,
                   msg, reserved, publicPort, subdomain, listener>>

\* The rest of Close, under session.mu, which the listener goroutine holds
\* while it stores the listener.
FinishClose(c) ==
    /\ closing[c] = "closing"
    /\ listener[c] # "store"
    /\ closing' = [closing EXCEPT ![c] = "closed"]
    /\ portOwner' = [p \in Ports |->
                       IF portOwner[p] = c /\ listener[c] = "accept"
                         THEN NoSession ELSE portOwner[p]]
    /\ UNCHANGED <<poolVars, clients, subdomains, portMu, clientsMu, pc, conn,
                   msg, reserved, publicPort, subdomain, listener>>

-----------------------------------------------------------------------------
(* startPublicListener.                                                    *)

\* net.Listen succeeds: nobody has bound the port.
Listen(c) ==
    /\ listener[c] = "listen"
    /\ portOwner[publicPort[c]] = NoSession
    /\ portOwner' = [portOwner EXCEPT ![publicPort[c]] = c]
    /\ listener' = [listener EXCEPT ![c] = "check"]
    /\ UNCHANGED <<poolVars, clients, subdomains, portMu, clientsMu, pc, conn,
                   msg, reserved, publicPort, subdomain, closing>>

\* net.Listen fails: the port is bound, here or by another process.
ListenFails(c) ==
    /\ listener[c] = "listen"
    /\ listener' = [listener EXCEPT ![c] = "exit"]
    /\ UNCHANGED <<poolVars, serverVars, pc, conn, msg, reserved, publicPort,
                   subdomain, closing>>

\* session.mu is taken and done is polled.
CheckDone(c) ==
    /\ listener[c] = "check"
    /\ listener' = [listener EXCEPT ![c] = IF Done(c) THEN "discard" ELSE "store"]
    /\ UNCHANGED <<poolVars, serverVars, pc, conn, msg, reserved, publicPort,
                   subdomain, closing>>

\* The listener is stored where Close finds it, and session.mu is let go.
StoreListener(c) ==
    /\ listener[c] = "store"
    /\ listener' = [listener EXCEPT ![c] = "accept"]
    /\ UNCHANGED <<poolVars, serverVars, pc, conn, msg, reserved, publicPort,
                   subdomain, closing>>

CloseListener(c, from) ==
    /\ listener[c] = from
    /\ portOwner[publicPort[c]] = c
    /\ portOwner' = [portOwner EXCEPT ![publicPort[c]] = NoSession]
    /\ listener' = [listener EXCEPT ![c] = "exit"]
    /\ UNCHANGED <<poolVars, clients, subdomains, portMu, clientsMu, pc, conn,
                   msg, reserved, publicPort, subdomain, closing>>

\* The session was closed during the setup.
DiscardListener(c) == CloseListener(c, "discard")

\* Accept reports a lasting error: the deferred Close runs, the session stays.
AcceptFails(c) == CloseListener(c, "accept")

\* Accept reports that Close has closed the listener.
AcceptEnds(c) ==
    /\ listener[c] = "accept"
    /\ portOwner[publicPort[c]] # c
    /\ listener' = [listener EXCEPT ![c] = "exit"]
    /\ UNCHANGED <<poolVars, serverVars, pc, conn, msg, reserved, publicPort,
                   subdomain, closing>>

-----------------------------------------------------------------------------
(* removeClient.                                                           *)

\* Mutant of IsCurrent: any entry under the ID will do.
IsListed(c) == msg[c] # NoMessage /\ clients[msg[c].clientID] # NoSession

IsCurrent(c) == msg[c] # NoMessage /\ clients[msg[c].clientID] = c

\* The session is the one registered under its ID: the entry goes, and
\* clientsMu is kept until the port is released.
RemoveEntry(c) ==
    /\ Goto(c, "remove", "reserve")
    /\ clientsMu = NoSession
    /\ IsCurrent(c)
    /\ clientsMu' = c
    /\ clients' = [clients EXCEPT ![msg[c].clientID] = NoSession]
    /\ UNCHANGED <<poolVars, subdomains, portOwner, portMu, conn, msg,
                   reserved, publicPort, subdomain, closing, listener>>

\* Another session took the ID over, or none was registered: nothing but
\* Close is left to do.
RemoveNothing(c) ==
    /\ Goto(c, "remove", "close")
    /\ clientsMu = NoSession
    /\ ~IsCurrent(c)
    /\ UNCHANGED <<poolVars, serverVars, conn, msg, reserved, publicPort,
                   subdomain, closing, listener>>

ReserveSessionPort(c) ==
    /\ Goto(c, "reserve", "release")
    /\ ReservePort(msg[c].key, publicPort[c])
    /\ UNCHANGED <<availablePorts, usedPorts, serverVars, conn, msg, reserved,
                   publicPort, subdomain, closing, listener>>

\* releasePort under portMu, then clientsMu is let go.
ReleaseSessionPort(c) ==
    /\ Goto(c, "release", "unregister")
    /\ portMu = NoSession
    /\ ReleaseToPool(publicPort[c])
    /\ clientsMu' = NoSession
    /\ UNCHANGED <<portReservations, clients, subdomains, portOwner, portMu,
                   conn, msg, reserved, publicPort, subdomain, closing,
                   listener>>

\* unregisterHTTPClient: the name is deleted whoever it routes to.
UnregisterHTTPClient(c) ==
    /\ Goto(c, "unregister", "close")
    /\ subdomains' = [n \in Subdomains |->
                        IF n = subdomain[c] THEN NoSession ELSE subdomains[n]]
    /\ UNCHANGED <<poolVars, clients, portOwner, portMu, clientsMu, conn, msg,
                   reserved, publicPort, subdomain, closing, listener>>

\* session.Close at the end of removeClient.
CloseSession(c) ==
    /\ pc[c] = "close"
    /\ BeginClose(c)
    /\ UNCHANGED <<poolVars, serverVars, pc, msg, reserved, publicPort,
                   subdomain, listener>>

\* Close has returned, here or in the heartbeat checker closeOnce waits for:
\* handleConnection returns and the slot is free.
HandlerReturns(c) ==
    /\ Goto(c, "close", "gone")
    /\ closing[c] = "closed"
    /\ UNCHANGED <<poolVars, serverVars, conn, msg, reserved, publicPort,
                   subdomain, closing, listener>>

-----------------------------------------------------------------------------
Expire(k) ==
    /\ ReservationExpires(k)
    /\ UNCHANGED <<availablePorts, usedPorts, serverVars, sessionVars>>

Cleanup ==
    /\ CleanupPortReservations
    /\ UNCHANGED <<availablePorts, usedPorts, serverVars, sessionVars>>

\* Every connection of the instance has come and gone.
Terminated ==
    /\ \A c \in Sessions : pc[c] = "gone" /\ listener[c] \in {"none", "exit"}
    /\ UNCHANGED vars

Handshake(c) ==
    \/ Accept(c)
    \/ Reject(c)
    \/ HandshakeFails(c)
    \/ RateLimited(c)
    \/ \E m \in RegisterMessage : LookupReservation(c, m)

HandleClient(c) ==
    \/ \E p \in Ports : Allocate(c, p)
    \/ AddClient(c)
    \/ \E n \in Subdomains : RegisterHTTPClient(c, n)
    \/ RegisterHTTPFails(c)
    \/ Reply(c)
    \/ ReplyFails(c)

PublicListener(c) ==
    \/ Listen(c)
    \/ ListenFails(c)
    \/ CheckDone(c)
    \/ StoreListener(c)
    \/ DiscardListener(c)
    \/ AcceptEnds(c)

RemoveClient(c) ==
    \/ RemoveEntry(c)
    \/ RemoveNothing(c)
    \/ ReserveSessionPort(c)
    \/ ReleaseSessionPort(c)
    \/ UnregisterHTTPClient(c)
    \/ CloseSession(c)
    \/ HandlerReturns(c)

Next ==
    \/ \E c \in Sessions :
         \/ Handshake(c)
         \/ HandleClient(c)
         \/ PeerHangsUp(c)
         \/ PeerFallsSilent(c)
         \/ ControlLoopEnds(c)
         \/ ControlLoopFails(c)
         \/ IdleTimeout(c)
         \/ FinishClose(c)
         \/ PublicListener(c)
         \/ AcceptFails(c)
         \/ RemoveClient(c)
    \/ \E k \in Keys : Expire(k)
    \/ Cleanup
    \/ Terminated

Spec == Init /\ [][Next]_vars

\* The goroutines of the server are scheduled, and the heartbeat checker finds
\* a silent peer idle sooner or later. Nothing is assumed of a client, of the
\* clock behind the reservations, or of Accept ever failing.
Fairness ==
    \A c \in Sessions :
        /\ WF_vars(HandleClient(c))
        /\ WF_vars(ControlLoopEnds(c))
        /\ WF_vars(conn[c] = "silent" /\ IdleTimeout(c))
        /\ WF_vars(FinishClose(c))
        /\ WF_vars(PublicListener(c))
        /\ WF_vars(RemoveClient(c))

FairSpec == Spec /\ Fairness

-----------------------------------------------------------------------------
PCs == {"dialing", "handshake", "allocate", "add", "subdomain", "reply",
        "control", "remove", "reserve", "release", "unregister", "close",
        "gone"}

\* Every variable has its type.
TypeOK ==
    /\ PoolTypeOK
    /\ clients \in [ClientIDs -> Sessions \cup {NoSession}]
    /\ subdomains \in [Subdomains -> Sessions \cup {NoSession}]
    /\ portOwner \in [Ports -> Sessions \cup {NoSession}]
    /\ portMu \in Sessions \cup {NoSession}
    /\ clientsMu \in Sessions \cup {NoSession}
    /\ pc \in [Sessions -> PCs]
    /\ conn \in [Sessions -> {"up", "silent", "eof", "closed"}]
    /\ msg \in [Sessions -> RegisterMessage \cup {NoMessage}]
    /\ reserved \in [Sessions -> BOOLEAN]
    /\ publicPort \in [Sessions -> Ports \cup {NoPort}]
    /\ subdomain \in [Sessions -> Subdomains \cup {NoName}]
    /\ closing \in [Sessions -> {"open", "closing", "closed"}]
    /\ listener \in [Sessions -> {"none", "listen", "check", "store",
                                  "discard", "accept", "exit"}]

-----------------------------------------------------------------------------
\* A session has its public port from the allocation to the release.
Holding == {"add", "subdomain", "reply", "control", "remove", "reserve",
            "release"}

Holds(c) == pc[c] \in Holding /\ publicPort[c] # NoPort

\* No two sessions hold the same public port. The one exception is
\* publicPortStart, which getNextPublicPort gives out unmarked when the pool
\* is exhausted.
ExclusivePort ==
    \A c, d \in Sessions :
        c # d /\ Holds(c) /\ Holds(d) /\ publicPort[c] = publicPort[d]
            => publicPort[c] = PortStart

\* The ports of the registry as leases: the abstract specification sees who
\* holds which port, and neither the pool nor the table of clients.
HoldersOf(p) == {c \in Sessions : Holds(c) /\ publicPort[c] = p}

Holders == [p \in Ports |-> HoldersOf(p)]

Lease == INSTANCE PortLease WITH Fallback <- PortStart, holders <- Holders

\* Every run of the registry leases and returns ports as PortLease says: a
\* grant never goes to a port someone holds, and no step but a grant and a
\* teardown changes who holds what.
ImplementsPortLease == Lease!Spec

\* The table of clients leads only to sessions that are registered under that
\* ID and still have to go through removeClient: whoever follows an entry
\* never finds a session that is over.
ClientsAreLive ==
    \A i \in ClientIDs : \A c \in Sessions :
        clients[i] = c => /\ msg[c].clientID = i
                          /\ pc[c] \in {"subdomain", "reply", "control", "remove"}

\* An entry leaves the table by the teardown of its own session or by a newer
\* registration of the ID: the late removeClient of a session that was
\* replaced does not take the entry of its successor away.
EntryOutlivesPredecessor ==
    [][\A i \in ClientIDs : \A c \in Sessions :
         clients[i] = c /\ clients'[i] # c =>
            \/ pc[c] = "remove" /\ pc'[c] # "remove"
            \/ \E d \in Sessions : clients'[i] = d /\ pc[d] = "add"]_vars

\* A lock that is kept over a point where others run is kept by a handler that is at
\* such a point, and by one only: none is let go early or for good.
LocksAreOwned ==
    \A c \in Sessions :
        /\ portMu = c <=> pc[c] = "allocate"
        /\ clientsMu = c <=> pc[c] \in {"reserve", "release"}

\* No more handlers run than connSemaphore has slots, and each hangs up before it
\* gives its slot back, whichever of its returns it takes.
HandlersAreBounded ==
    /\ Cardinality(InHandler) <= MaxConnections
    /\ \A c \in Sessions : pc[c] = "gone" => conn[c] = "closed"

\* From its registration until it unregisters, an HTTP session is the one its
\* subdomain leads to, whatever names the other sessions draw and give up.
SubdomainLeadsToSession ==
    \A c \in Sessions :
        subdomain[c] # NoName /\ pc[c] \notin {"close", "gone"}
            => subdomains[subdomain[c]] = c

\* When Close has run, nothing but a listener goroutine that is still going to
\* see done keeps a public port bound: no listener is stored after Close
\* looked for it.
NoOrphanListener ==
    \A p \in Ports : \A c \in Sessions :
        portOwner[p] = c /\ closing[c] = "closed"
            => listener[c] \in {"check", "discard"}

\* Once the control connection of a registering or registered session is
\* gone, even without a word from the client, the session is torn down: its
\* handler returns, nothing leads to it from the table, its port is unbound.
DeadSessionIsTornDown ==
    \A c \in Sessions :
        conn[c] # "up" /\ pc[c] \notin {"dialing", "handshake"}
            ~> /\ pc[c] = "gone"
               /\ \A p \in Ports : portOwner[p] # c
               /\ \A i \in ClientIDs : clients[i] # c

=============================================================================
