---------------------------- MODULE ClientStreams ---------------------------
(***************************************************************************)
(* The client's side of TCP proxying: handleProxy, which runs for each      *)
(* "proxy" message of the server, the two copiers it leaves behind, and the *)
(* numbers of sessions that the terminal shows. The backend and the server  *)
(* close their ends of a stream when they like.                             *)
(***************************************************************************)
EXTENDS Integers, FiniteSets

CONSTANT Streams  \* the "proxy" messages that come

ASSUME StreamsAssumption == IsFiniteSet(Streams)

VARIABLES
    handler,   \* where handleProxy is
    localConn, srvConn,  \* the connections: "none", "open", "closed" here, "cut" there
    copiers,   \* the copiers that run: "up" to the server, "down" to the backend
    activeSessions, totalSessions,
    uncounted  \* history: the streams that failed with the number raised

streamVars == <<handler, localConn, srvConn, copiers, activeSessions, totalSessions, uncounted>>
counts == <<activeSessions, totalSessions, uncounted>>
Conns == {"none", "open", "closed", "cut"}

StreamsInit ==
    /\ handler = [s \in Streams |-> "none"]
    /\ localConn = [s \in Streams |-> "none"] /\ srvConn = [s \in Streams |-> "none"]
    /\ copiers = [s \in Streams |-> {}]
    /\ activeSessions = 0 /\ totalSessions = 0 /\ uncounted = {}

At(s, from, to) == handler[s] = from /\ handler' = [handler EXCEPT ![s] = to]

-----------------------------------------------------------------------------
(* handleProxy.                                                            *)

\* A message without an ID, or in UDP mode, or a backend that is not there; the
\* last is told to the server.
HandleProxyReturns(s) ==
    /\ At(s, "none", "returned")
    /\ UNCHANGED <<localConn, srvConn, copiers, counts>>

DialBackend(s) ==
    /\ At(s, "none", "dialled")
    /\ localConn' = [localConn EXCEPT ![s] = "open"]
    /\ UNCHANGED <<srvConn, copiers, counts>>

CountActive(s) ==
    /\ At(s, "dialled", "active")
    /\ activeSessions' = activeSessions + 1
    /\ UNCHANGED <<localConn, srvConn, copiers, totalSessions, uncounted>>

CountTotal(s) ==
    /\ At(s, "active", "counted")
    /\ totalSessions' = totalSessions + 1
    /\ UNCHANGED <<localConn, srvConn, copiers, activeSessions, uncounted>>

\* What was counted as active stays so.
DialServerFails(s) ==
    /\ At(s, "counted", "returned")
    /\ localConn' = [localConn EXCEPT ![s] = "closed"]
    /\ uncounted' = uncounted \cup {s}
    /\ UNCHANGED <<srvConn, copiers, activeSessions, totalSessions>>

DialServer(s) ==
    /\ At(s, "counted", "connected")
    /\ srvConn' = [srvConn EXCEPT ![s] = "open"]
    /\ UNCHANGED <<localConn, copiers, counts>>

\* Mutant: the connection to the server is forgotten.
HandshakeLeavesConn(s) ==
    /\ At(s, "connected", "returned")
    /\ localConn' = [localConn EXCEPT ![s] = "closed"]
    /\ uncounted' = uncounted \cup {s}
    /\ UNCHANGED <<srvConn, copiers, activeSessions, totalSessions>>

HandshakeFails(s) ==
    /\ At(s, "connected", "returned")
    /\ localConn' = [localConn EXCEPT ![s] = "closed"]
    /\ srvConn' = [srvConn EXCEPT ![s] = "closed"]
    /\ uncounted' = uncounted \cup {s}
    /\ UNCHANGED <<copiers, activeSessions, totalSessions>>

StartCopiers(s) ==
    /\ At(s, "connected", "returned")
    /\ copiers' = [copiers EXCEPT ![s] = {"up", "down"}]
    /\ UNCHANGED <<localConn, srvConn, counts>>

-----------------------------------------------------------------------------
(* The copiers.                                                            *)

\* The other end of a connection is closed, or breaks.
BackendLeaves(s) ==
    /\ localConn[s] = "open"
    /\ localConn' = [localConn EXCEPT ![s] = "cut"]
    /\ UNCHANGED <<handler, srvConn, copiers, counts>>

ServerLeaves(s) ==
    /\ srvConn[s] = "open"
    /\ srvConn' = [srvConn EXCEPT ![s] = "cut"]
    /\ UNCHANGED <<handler, localConn, copiers, counts>>

\* Reading or writing ends with either connection; both are closed on the way out.
CopyEnds(s, way) ==
    /\ way \in copiers[s]
    /\ localConn[s] # "open" \/ srvConn[s] # "open"
    /\ localConn' = [localConn EXCEPT ![s] = "closed"]
    /\ srvConn' = [srvConn EXCEPT ![s] = "closed"]
    /\ copiers' = [copiers EXCEPT ![s] = @ \ {way}]
    /\ UNCHANGED <<handler, totalSessions, uncounted>>

\* Mutant: the other copier lowers the number too.
DownEndsCounted(s) == CopyEnds(s, "down") /\ activeSessions' = activeSessions - 1

DownEnds(s) == CopyEnds(s, "down") /\ UNCHANGED activeSessions

UpEnds(s) == CopyEnds(s, "up") /\ activeSessions' = activeSessions - 1

-----------------------------------------------------------------------------

StreamsNext ==
    \E s \in Streams :
        \/ HandleProxyReturns(s) \/ DialBackend(s) \/ CountActive(s) \/ CountTotal(s)
        \/ DialServerFails(s) \/ DialServer(s) \/ HandshakeFails(s) \/ StartCopiers(s)
        \/ BackendLeaves(s) \/ ServerLeaves(s) \/ DownEnds(s) \/ UpEnds(s)

StreamsSpec == StreamsInit /\ [][StreamsNext]_streamVars

-----------------------------------------------------------------------------

\* Every variable has its type.
StreamsTypeOK ==
    /\ handler \in [Streams -> {"none", "dialled", "active", "counted", "connected", "returned"}]
    /\ localConn \in [Streams -> Conns] /\ srvConn \in [Streams -> Conns]
    /\ copiers \in [Streams -> SUBSET {"up", "down"}]
    /\ activeSessions \in Int /\ totalSessions \in Nat
    /\ uncounted \subseteq Streams

\* The streams that handleProxy has counted and not given up or ended.
Counted(s) == handler[s] \in {"active", "counted", "connected"} \/ "up" \in copiers[s]

\* The number of active sessions is that of the streams being set up or copied,
\* and of those that failed at the server: only these are never taken back.
ActiveCountsStreams ==
    activeSessions = Cardinality({s \in Streams : Counted(s) \/ s \in uncounted})

\* A connection that handleProxy opened is closed once its work is over: no stream
\* leaves one of its two connections open behind the other.
NothingLeftOpen ==
    \A s \in Streams : handler[s] = "returned" /\ copiers[s] = {} =>
        localConn[s] \in {"none", "closed"} /\ srvConn[s] \in {"none", "closed"}

=============================================================================
