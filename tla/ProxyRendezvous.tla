-------------------------- MODULE ProxyRendezvous ---------------------------
(***************************************************************************)
(* The server's half of TCP proxying. For every public connection a        *)
(* handler (handlePublicConnection) asks the client over the control       *)
(* connection to dial back, and waits for the data connection on a channel *)
(* with room for one. A data connection arrives in a goroutine of its own  *)
(* (dispatchProxyConnection), a refusal in the control loop                *)
(* (cancelProxyConnection). Whoever takes the waiter out of proxyWaiting   *)
(* may send to its channel.                                                *)
(*                                                                         *)
(* A proxy ID stands for its public connection. The client is anything     *)
(* that speaks the protocol: it may dial twice, refuse after dialling, or  *)
(* name an ID that was never given out.                                    *)
(***************************************************************************)
EXTENDS Integers

CONSTANTS
    Proxies,     \* proxy IDs, one per public connection
    DataConns,   \* data connections the client dials
    UnknownID,   \* an ID no waiter has
    Empty, Refused, NoConn   \* an empty channel, nil in it, no connection

ASSUME NilAssumption ==
    /\ UnknownID \notin Proxies
    /\ Empty \notin DataConns
    /\ Refused \notin DataConns
    /\ Empty # Refused
    /\ NoConn \notin DataConns

VARIABLES
    waiter,        \* where handlePublicConnection is for each ID
    proxyWaiting,  \* the IDs in server.proxyWaiting
    waitCh,        \* the channel of each waiter
    spliced,       \* the data connection a waiter's stream uses
    copier,        \* the two goroutines of handleProxyStream
    publicConn,    \* the public connection of each ID
    dial,          \* where dispatchProxyConnection is for each data connection
    names,         \* the ID a data connection was dialled for
    dataConn,      \* the data connections
    cancelling     \* the IDs cancelProxyConnection is about to send nil for

vars == <<waiter, proxyWaiting, waitCh, spliced, copier, publicConn, dial,
          names, dataConn, cancelling>>

waiterVars == <<waiter, spliced, copier, publicConn>>
dialVars == <<dial, names, dataConn>>

Directions == {"up", "down"}

Init ==
    /\ waiter = [p \in Proxies |-> "new"]
    /\ proxyWaiting = {}
    /\ waitCh = [p \in Proxies |-> Empty]
    /\ spliced = [p \in Proxies |-> NoConn]
    /\ copier = [p \in Proxies |-> [way \in Directions |-> "idle"]]
    /\ publicConn = [p \in Proxies |-> "open"]
    /\ dial = [d \in DataConns |-> "none"]
    /\ names = [d \in DataConns |-> UnknownID]
    /\ dataConn = [d \in DataConns |-> "open"]
    /\ cancelling = {}

Step(p, from, to) ==
    /\ waiter[p] = from
    /\ waiter' = [waiter EXCEPT ![p] = to]

-----------------------------------------------------------------------------
(* handlePublicConnection.                                                 *)

\* No ID can be generated: the public connection is closed.
NoID(p) ==
    /\ Step(p, "new", "done")
    /\ publicConn' = [publicConn EXCEPT ![p] = "closed"]
    /\ UNCHANGED <<proxyWaiting, waitCh, spliced, copier, dialVars, cancelling>>

\* The waiter is put in the map before the client is asked.
RegisterWaiter(p) ==
    /\ Step(p, "new", "asking")
    /\ proxyWaiting' = proxyWaiting \cup {p}
    /\ UNCHANGED <<waitCh, spliced, copier, publicConn, dialVars, cancelling>>

AskClient(p) ==
    /\ Step(p, "asking", "waiting")
    /\ UNCHANGED <<proxyWaiting, waitCh, spliced, copier, publicConn, dialVars,
                   cancelling>>

\* The control connection is gone: Encode fails.
AskFails(p) ==
    /\ Step(p, "asking", "leaving")
    /\ UNCHANGED <<proxyWaiting, waitCh, spliced, copier, publicConn, dialVars,
                   cancelling>>

\* The select takes a connection from the channel, and the stream starts.
TakeConn(p, d) ==
    /\ waitCh[p] = d
    /\ Step(p, "waiting", "streaming")
    /\ waitCh' = [waitCh EXCEPT ![p] = Empty]
    /\ spliced' = [spliced EXCEPT ![p] = d]
    /\ copier' = [copier EXCEPT ![p] = [way \in Directions |-> "reading"]]
    /\ UNCHANGED <<proxyWaiting, publicConn, dialVars, cancelling>>

TakeRefusal(p) ==
    /\ waitCh[p] = Refused
    /\ Step(p, "waiting", "leaving")
    /\ waitCh' = [waitCh EXCEPT ![p] = Empty]
    /\ UNCHANGED <<proxyWaiting, spliced, copier, publicConn, dialVars,
                   cancelling>>

\* Mutant of TimeOut: the waiter gives up only when somebody has found it.
TimeOutWhenFound(p) ==
    /\ p \notin proxyWaiting
    /\ Step(p, "waiting", "leaving")
    /\ UNCHANGED <<proxyWaiting, waitCh, spliced, copier, publicConn, dialVars,
                   cancelling>>

\* Ten seconds are over. When the channel has become ready at the same time
\* the select chooses either.
TimeOut(p) ==
    /\ Step(p, "waiting", "leaving")
    /\ UNCHANGED <<proxyWaiting, waitCh, spliced, copier, publicConn, dialVars,
                   cancelling>>

\* Mutant of Leave: the entry stays.
LeaveEntry(p) ==
    /\ Step(p, "leaving", "done")
    /\ publicConn' = [publicConn EXCEPT ![p] = "closed"]
    /\ UNCHANGED <<proxyWaiting, waitCh, spliced, copier, dialVars, cancelling>>

\* The deferred calls: the entry goes, the public connection is closed.
Leave(p) ==
    /\ Step(p, "leaving", "done")
    /\ proxyWaiting' = proxyWaiting \ {p}
    /\ publicConn' = [publicConn EXCEPT ![p] = "closed"]
    /\ UNCHANGED <<waitCh, spliced, copier, dialVars, cancelling>>

-----------------------------------------------------------------------------
(* handleProxyStream and proxyCopy.                                        *)

\* Up copies from the data to the public connection, down the other way.
Source(p, way) == IF way = "up" THEN dataConn[spliced[p]] ELSE publicConn[p]
Sink(p, way) == IF way = "up" THEN publicConn[p] ELSE dataConn[spliced[p]]

Copier(p, way, from, to) ==
    /\ waiter[p] = "streaming"
    /\ copier[p][way] = from
    /\ copier' = [copier EXCEPT ![p][way] = to]
    /\ UNCHANGED <<waiter, proxyWaiting, waitCh, spliced, dial, names,
                   cancelling>>

\* Mutant of CloseBoth: a copier closes its source only.
CloseSource(p, way) ==
    /\ publicConn' = [publicConn EXCEPT ![p] = IF way = "up" THEN @ ELSE "closed"]
    /\ dataConn' = [dataConn EXCEPT ![spliced[p]] = IF way = "up" THEN "closed" ELSE @]

\* The deferred calls of a copier.
CloseBoth(p, way) ==
    /\ publicConn' = [publicConn EXCEPT ![p] = "closed"]
    /\ dataConn' = [dataConn EXCEPT ![spliced[p]] = "closed"]

\* Read returns something to copy.
CopyReads(p, way) ==
    /\ Copier(p, way, "reading", "writing")
    /\ Source(p, way) = "open"
    /\ UNCHANGED <<publicConn, dataConn>>

\* Read reports the end of the source or that it was closed.
CopyReadEnds(p, way) ==
    /\ Copier(p, way, "reading", "returned")
    /\ Source(p, way) # "open"
    /\ CloseBoth(p, way)

\* Write returns once the peer has made room; the peer may have ended its own
\* direction and read on.
CopyWrites(p, way) ==
    /\ Copier(p, way, "writing", "reading")
    /\ Sink(p, way) # "closed"
    /\ UNCHANGED <<publicConn, dataConn>>

CopyWriteFails(p, way) ==
    /\ Copier(p, way, "writing", "returned")
    /\ Sink(p, way) # "open"
    /\ CloseBoth(p, way)

CopyStep(p, way) ==
    \/ CopyReads(p, way)
    \/ CopyReadEnds(p, way)
    \/ CopyWrites(p, way)
    \/ CopyWriteFails(p, way)

\* Both copiers have returned: wg.Wait is over.
StreamEnds(p) ==
    /\ \A way \in Directions : copier[p][way] = "returned"
    /\ Step(p, "streaming", "leaving")
    /\ UNCHANGED <<proxyWaiting, waitCh, spliced, copier, publicConn, dialVars,
                   cancelling>>

-----------------------------------------------------------------------------
(* dispatchProxyConnection.                                                *)

\* The client dials the server and names an ID it was asked for, perhaps while
\* Encode is still returning, or another.
ClientDials(d, p) ==
    /\ dial[d] = "none"
    /\ p # UnknownID => waiter[p] # "new"
    /\ dial' = [dial EXCEPT ![d] = "lookup"]
    /\ names' = [names EXCEPT ![d] = p]
    /\ UNCHANGED <<waiterVars, proxyWaiting, waitCh, dataConn, cancelling>>

\* Mutant of DispatchFinds: the waiter stays in the map.
DispatchFindsKept(d) ==
    /\ dial[d] = "lookup"
    /\ names[d] \in proxyWaiting
    /\ dial' = [dial EXCEPT ![d] = "deliver"]
    /\ UNCHANGED <<waiterVars, proxyWaiting, waitCh, names, dataConn, cancelling>>

\* Under proxyMu: the waiter is found and taken out of the map.
DispatchFinds(d) ==
    /\ dial[d] = "lookup"
    /\ names[d] \in proxyWaiting
    /\ proxyWaiting' = proxyWaiting \ {names[d]}
    /\ dial' = [dial EXCEPT ![d] = "deliver"]
    /\ UNCHANGED <<waiterVars, waitCh, names, dataConn, cancelling>>

\* No waiter: the connection is closed.
DispatchFindsNone(d) ==
    /\ dial[d] = "lookup"
    /\ names[d] \notin proxyWaiting
    /\ dial' = [dial EXCEPT ![d] = "done"]
    /\ dataConn' = [dataConn EXCEPT ![d] = "closed"]
    /\ UNCHANGED <<waiterVars, proxyWaiting, waitCh, names, cancelling>>

\* The connection is sent to the channel. The other branch of this select, ten
\* seconds on a full channel, is never taken: SendersFindRoom.
Deliver(d) ==
    /\ dial[d] = "deliver"
    /\ waitCh[names[d]] = Empty
    /\ waitCh' = [waitCh EXCEPT ![names[d]] = d]
    /\ dial' = [dial EXCEPT ![d] = "done"]
    /\ UNCHANGED <<waiterVars, proxyWaiting, names, dataConn, cancelling>>

-----------------------------------------------------------------------------
(* cancelProxyConnection, in the control loops of any sessions.            *)

\* Mutant of CancelFinds: the waiter stays in the map.
CancelFindsKept(p) ==
    /\ p \in proxyWaiting
    /\ cancelling' = cancelling \cup {p}
    /\ UNCHANGED <<waiterVars, proxyWaiting, waitCh, dialVars>>

CancelFinds(p) ==
    /\ p \in proxyWaiting
    /\ proxyWaiting' = proxyWaiting \ {p}
    /\ cancelling' = cancelling \cup {p}
    /\ UNCHANGED <<waiterVars, waitCh, dialVars>>

\* nil is sent if the channel has room, and dropped otherwise.
CancelDelivers(p) ==
    /\ p \in cancelling
    /\ waitCh' = [waitCh EXCEPT ![p] = IF @ = Empty THEN Refused ELSE @]
    /\ cancelling' = cancelling \ {p}
    /\ UNCHANGED <<waiterVars, proxyWaiting, dialVars>>

-----------------------------------------------------------------------------
PublicPeerCloses(p) ==
    /\ publicConn[p] = "open"
    /\ publicConn' = [publicConn EXCEPT ![p] = "eof"]
    /\ UNCHANGED <<waiter, proxyWaiting, waitCh, spliced, copier, dialVars,
                   cancelling>>

ClientPeerCloses(d) ==
    /\ dial[d] # "none" /\ dataConn[d] = "open"
    /\ dataConn' = [dataConn EXCEPT ![d] = "eof"]
    /\ UNCHANGED <<waiterVars, proxyWaiting, waitCh, dial, names, cancelling>>

\* Every public connection has been served and every data connection handled.
Terminated ==
    /\ \A p \in Proxies : waiter[p] = "done"
    /\ \A d \in DataConns : dial[d] = "done"
    /\ cancelling = {}
    /\ UNCHANGED vars

Waiter(p) ==
    \/ NoID(p)
    \/ RegisterWaiter(p)
    \/ AskClient(p)
    \/ AskFails(p)
    \/ \E d \in DataConns : TakeConn(p, d)
    \/ TakeRefusal(p)
    \/ TimeOut(p)
    \/ StreamEnds(p)
    \/ Leave(p)

Dispatch(d) ==
    \/ DispatchFinds(d)
    \/ DispatchFindsNone(d)
    \/ Deliver(d)

Next ==
    \/ \E p \in Proxies :
         \/ Waiter(p)
         \/ \E way \in Directions : CopyStep(p, way)
         \/ CancelFinds(p)
         \/ CancelDelivers(p)
         \/ PublicPeerCloses(p)
    \/ \E d \in DataConns :
         \/ \E p \in Proxies \cup {UnknownID} : ClientDials(d, p)
         \/ Dispatch(d)
         \/ ClientPeerCloses(d)
    \/ Terminated

Spec == Init /\ [][Next]_vars

\* The server's goroutines are scheduled and timers fire, a Read returns when
\* its connection has ended, and a Write when the peer reads or is gone: a peer
\* that stays without reading stalls its stream. Nothing else is assumed of
\* the peers.
Fairness ==
    /\ \A p \in Proxies :
         /\ WF_vars(Waiter(p))
         /\ \A way \in Directions :
              /\ WF_vars(CopyReadEnds(p, way))
              /\ WF_vars(CopyWrites(p, way) \/ CopyWriteFails(p, way))
         /\ WF_vars(CancelDelivers(p))
    /\ \A d \in DataConns : WF_vars(Dispatch(d))

FairSpec == Spec /\ Fairness

-----------------------------------------------------------------------------
ConnStates == {"open", "eof", "closed"}

\* Every variable has its type.
TypeOK ==
    /\ waiter \in [Proxies -> {"new", "asking", "waiting", "streaming",
                               "leaving", "done"}]
    /\ proxyWaiting \subseteq Proxies
    /\ waitCh \in [Proxies -> DataConns \cup {Empty, Refused}]
    /\ spliced \in [Proxies -> DataConns \cup {NoConn}]
    /\ copier \in [Proxies -> [Directions -> {"idle", "reading", "writing",
                                             "returned"}]]
    /\ publicConn \in [Proxies -> ConnStates]
    /\ dial \in [DataConns -> {"none", "lookup", "deliver", "done"}]
    /\ names \in [DataConns -> Proxies \cup {UnknownID}]
    /\ dataConn \in [DataConns -> ConnStates]
    /\ cancelling \subseteq Proxies

Delivering(d, p) == dial[d] = "deliver" /\ names[d] = p

\* Whoever took a waiter out of proxyWaiting is the only one with something
\* to send to its channel, and finds room for it: dispatchProxyConnection
\* never waits for its timeout, and a refusal is never dropped, though data
\* connections and refusals for one ID come in any number and order.
SendersFindRoom ==
    \A p \in Proxies :
        /\ \A d \in DataConns :
             Delivering(d, p) => /\ waitCh[p] = Empty
                                 /\ p \notin cancelling
                                 /\ \A e \in DataConns \ {d} : ~Delivering(e, p)
        /\ p \in cancelling => waitCh[p] = Empty

\* The data connections that have got, or are getting, to the waiter of p.
HasTurn(d, p) == Delivering(d, p) \/ waitCh[p] = d \/ spliced[p] = d

\* An ID is dialled successfully at most once, and for the public connection
\* it was given out for: the first data connection that finds the waiter is
\* its only one, however many name the ID and whatever else goes on.
OneConnPerID ==
    \A p \in Proxies : \A d \in DataConns :
        HasTurn(d, p) => /\ names[d] = p
                         /\ \A e \in DataConns \ {d} : ~HasTurn(e, p)

\* How the server's state reads as a matching. A public connection is open to
\* a match as long as its waiter can be found, and matched as soon as it was.
StateOf(p) ==
    CASE waiter[p] = "new" -> "new"
      [] waiter[p] = "done" -> "ended"
      [] OTHER -> IF p \in proxyWaiting THEN "open"
                  ELSE IF spliced[p] # NoConn THEN "joined" ELSE "settled"

MatchOf(p) == {d \in DataConns : HasTurn(d, p)}
ShutPublic == {p \in Proxies : publicConn[p] = "closed"}
ShutData == {d \in DataConns : dataConn[d] = "closed"}

Matching == INSTANCE ConnMatching WITH
    Publics <- Proxies, Datas <- DataConns, NoOne <- UnknownID, wants <- names,
    state <- [p \in Proxies |-> StateOf(p)], match <- [p \in Proxies |-> MatchOf(p)],
    shutPublic <- ShutPublic, shutData <- ShutData

\* Of any number of data connections, refusals and timeouts for a public
\* connection one decides, and a stream is over when both its connections are
\* closed: the server with its map, channels and goroutines is a matching.
ImplementsMatching == Matching!Spec

\* proxyWaiting keeps no waiter that has returned or got its connection.
EntryHasWaiter ==
    \A p \in proxyWaiting : waiter[p] \in {"asking", "waiting", "leaving"}

\* A public connection is answered or given up: it does not stay with the
\* server without a stream, whatever the client sends or keeps back.
PublicConnIsServed ==
    \A p \in Proxies :
        waiter[p] = "asking" ~> waiter[p] = "streaming" \/ publicConn[p] = "closed"

\* As long as the peers read: when either end of a stream closes, both
\* connections are closed and the handler returns.
StreamEndsWithEitherEnd ==
    \A p \in Proxies : \A d \in DataConns :
        spliced[p] = d /\ (publicConn[p] # "open" \/ dataConn[d] # "open")
            ~> /\ waiter[p] = "done"
               /\ publicConn[p] = "closed"
               /\ dataConn[d] = "closed"

=============================================================================
