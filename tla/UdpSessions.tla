----------------------------- MODULE UdpSessions -----------------------------
(***************************************************************************)
(* The UDP sessions at the two ends of a tunnel. An end keeps a table of    *)
(* sessions under udpMu and runs one reader for each. An entry is taken out *)
(* under the lock and its socket is closed afterwards, by whichever of the  *)
(* reader, the control connection, a packet handler or a timer took it; all *)
(* of them know a session by its ID only, which may be another's by then.   *)
(*                                                                          *)
(* The ends share nothing and tell each other of their sessions in packets  *)
(* that may be late, repeated or lost; the udp_open that makes either end   *)
(* open a session is sent by no program of this repository. A behaviour is  *)
(* therefore about one end, and its peer sends anything at any time. The    *)
(* n-th session the end opens is called n.                                  *)
(***************************************************************************)
EXTENDS Integers, FiniteSets

CONSTANTS
    Ids,         \* the IDs peers give to sessions
    MaxOpens,    \* bound: how many sessions the end opens
    MaxTimeouts, \* bound: how many calls of handleBackendTimeout run at a time
    IdleRetries  \* backendIdleRetries

ASSUME SessionsAssumption ==
    /\ Ids # {} /\ MaxOpens \in Nat \ {0}
    /\ MaxTimeouts \in Nat /\ IdleRetries \in Nat \ {0}

VARIABLES
    end,     \* the end the behaviour is about
    opened,  \* how many sessions it has opened
    table,   \* udpSessions
    idOf,    \* the ID of each session
    open,    \* the sessions whose socket is open
    taken,   \* the sessions out of the table whose socket is about to be closed
    reader,  \* readFromUDPRemote and readFromUDPLocal, by session
    timer,   \* the timer of each session of the client
    idle,    \* idleCount of each session of the client
    timeout  \* the client's calls of handleBackendTimeout

vars == <<end, opened, table, idOf, open, taken, reader, timer, idle, timeout>>
waits == <<timer, idle, timeout>>

Sessions == 1..MaxOpens
Timeouts == 1..MaxTimeouts
Nil == 0
NoCall == [at |-> "none", id |-> CHOOSE i \in Ids : TRUE, sess |-> Nil, count |-> 0]

Init ==
    /\ end \in {"server", "client"}
    /\ opened = 0
    /\ table = [i \in Ids |-> Nil]
    /\ idOf \in [Sessions -> {CHOOSE i \in Ids : TRUE}]
    /\ open = {} /\ taken = {}
    /\ reader = [n \in Sessions |-> "none"]
    /\ timer = [n \in Sessions |-> "nil"]
    /\ idle = [n \in Sessions |-> 0]
    /\ timeout = [c \in Timeouts |-> NoCall]

-----------------------------------------------------------------------------

Entry(i) == {table[i]} \ {Nil}

\* Somebody may have looked the ID up.
Known(i) == \E n \in 1..opened : idOf[n] = i

Goto(n, at) == reader' = [reader EXCEPT ![n] = at]

Take(i) ==
    /\ table' = [table EXCEPT ![i] = Nil]
    /\ taken' = taken \cup Entry(i)

\* The client closes the session the ID had before and the server forgets it.
Open(i, closed) ==
    /\ opened < MaxOpens
    /\ opened' = opened + 1
    /\ table' = [table EXCEPT ![i] = opened + 1]
    /\ idOf' = [idOf EXCEPT ![opened + 1] = i]
    /\ open' = (open \ closed) \cup {opened + 1}
    /\ Goto(opened + 1, "read")
    /\ UNCHANGED <<end, taken>>

\* handleUDPClose of the server, removeUDPSession of the client, called for a
\* udp_close or udp_idle of the peer.
PeerCloses(i) ==
    /\ Take(i)
    /\ UNCHANGED <<end, opened, idOf, open, reader, waits>>

\* A packet for the session is written to its socket, which fails: the ID is
\* removed, whatever session it has by now.
WriteFails(i) ==
    /\ Known(i)
    /\ Take(i)
    /\ UNCHANGED <<end, opened, idOf, open, reader, waits>>

-----------------------------------------------------------------------------
(* The server.                                                             *)

ServerOpens(i) ==
    /\ end = "server"
    /\ Open(i, {})
    /\ UNCHANGED waits

ServerReads(n) ==
    /\ end = "server" /\ reader[n] = "read" /\ n \in open
    /\ Goto(n, "send")
    /\ UNCHANGED <<end, opened, table, idOf, open, taken, waits>>

\* sendUDPData looks the session up by ID.
ServerSends(n) ==
    /\ end = "server" /\ reader[n] = "send"
    /\ Goto(n, IF table[idOf[n]] = Nil THEN "leave" ELSE "read")
    /\ UNCHANGED <<end, opened, table, idOf, open, taken, waits>>

ServerReadFails(n) ==
    /\ end = "server" /\ reader[n] = "read"
    /\ Goto(n, "leave")
    /\ UNCHANGED <<end, opened, table, idOf, open, taken, waits>>

\* Mutant: the reader ends without its deferred handleUDPClose.
ServerReaderForgets(n) ==
    /\ end = "server" /\ reader[n] = "leave"
    /\ Goto(n, "ended")
    /\ UNCHANGED <<end, opened, table, idOf, open, taken, waits>>

ServerReaderEnds(n) ==
    /\ end = "server" /\ reader[n] = "leave"
    /\ Goto(n, "ended")
    /\ Take(idOf[n])
    /\ UNCHANGED <<end, opened, idOf, open, waits>>

\* Mutant: the session is dropped without closing its socket.
ServerDrops(n) ==
    /\ end = "server" /\ n \in taken
    /\ taken' = taken \ {n}
    /\ UNCHANGED <<end, opened, table, idOf, open, reader, waits>>

ServerCloses(n) ==
    /\ end = "server" /\ n \in taken
    /\ taken' = taken \ {n}
    /\ open' = open \ {n}
    /\ UNCHANGED <<end, opened, table, idOf, reader, waits>>

-----------------------------------------------------------------------------
(* The client.                                                             *)

\* A timer that was stopped, like one that has fired, stays in its field.
Stop(some) ==
    timer' = [n \in Sessions |-> IF n \in some /\ timer[n] = "armed" THEN "spent" ELSE timer[n]]

\* Mutant: the client forgets the session the ID had before, as the server does.
ClientReplaces(i) ==
    /\ end = "client"
    /\ Open(i, {})
    /\ Stop(Entry(i))
    /\ UNCHANGED <<idle, timeout>>

ClientOpens(i) ==
    /\ end = "client"
    /\ Open(i, Entry(i))
    /\ Stop(Entry(i))
    /\ UNCHANGED <<idle, timeout>>

CancelBackendWait(i) ==
    LET waiting == {n \in Entry(i) : timer[n] # "nil"} IN
    /\ timer' = [n \in Sessions |-> IF n \in waiting THEN "nil" ELSE timer[n]]
    /\ idle' = [n \in Sessions |-> IF n \in waiting THEN 0 ELSE idle[n]]

\* A packet of the backend.
ClientReads(n) ==
    /\ end = "client" /\ reader[n] = "read" /\ n \in open
    /\ Goto(n, "cancel")
    /\ UNCHANGED <<end, opened, table, idOf, open, taken, waits>>

\* The wait of whatever session has the ID is cancelled, also when its timer has
\* fired.
ClientCancels(n) ==
    /\ end = "client" /\ reader[n] = "cancel"
    /\ CancelBackendWait(idOf[n])
    /\ Goto(n, "read")
    /\ UNCHANGED <<end, opened, table, idOf, open, taken, timeout>>

ClientReadFails(n) ==
    /\ end = "client" /\ reader[n] = "read"
    /\ Goto(n, "ended")
    /\ Take(idOf[n])
    /\ UNCHANGED <<end, opened, idOf, open, waits>>

StartBackendWait(i) ==
    /\ timer' = [n \in Sessions |-> IF n \in Entry(i) THEN "armed" ELSE timer[n]]
    /\ idle' = [n \in Sessions |-> IF n \in Entry(i) THEN 0 ELSE idle[n]]

\* A packet is passed to the backend, which now has to speak. The session it was
\* found for may be gone when the wait begins: that of the session there is then
\* does, as for a packet that came for this one, or none.
ClientGetsData(i) ==
    /\ end = "client" /\ table[i] # Nil
    /\ StartBackendWait(i)
    /\ UNCHANGED <<end, opened, table, idOf, open, taken, reader, timeout>>

\* Mutant: closing a session closes its socket and leaves its timer.
ClientClosesSocket(n) ==
    /\ end = "client" /\ n \in taken
    /\ taken' = taken \ {n}
    /\ open' = open \ {n}
    /\ UNCHANGED <<end, opened, table, idOf, reader, waits>>

ClientCloses(n) ==
    /\ end = "client" /\ n \in taken
    /\ taken' = taken \ {n}
    /\ open' = open \ {n}
    /\ Stop({n})
    /\ UNCHANGED <<end, opened, table, idOf, reader, idle, timeout>>

ClientLosesControl ==
    LET all == UNION {Entry(i) : i \in Ids} IN
    /\ end = "client" /\ all # {}
    /\ table' = [i \in Ids |-> Nil]
    /\ taken' = taken \cup all
    /\ timer' = [n \in Sessions |-> IF n \in all THEN "nil" ELSE timer[n]]
    /\ UNCHANGED <<end, opened, idOf, open, reader, idle, timeout>>

-----------------------------------------------------------------------------
(* handleBackendTimeout. Calls overlap, also those for one ID: nothing in the *)
(* code keeps them apart, and they count outside the lock.                  *)

Call(c, at, id, sess, count) ==
    timeout' = [timeout EXCEPT ![c] = [at |-> at, id |-> id, sess |-> sess, count |-> count]]

Return(c) == timeout' = [timeout EXCEPT ![c] = NoCall]

\* The number of a call is only its name: the lowest free one is taken.
TimerFires(n) ==
    /\ timer[n] = "armed"
    /\ timer' = [timer EXCEPT ![n] = "spent"]
    /\ \E c \in Timeouts :
        /\ timeout[c] = NoCall
        /\ \A d \in Timeouts : d < c => timeout[d] # NoCall
        /\ Call(c, "find", idOf[n], Nil, 0)
    /\ UNCHANGED <<end, opened, table, idOf, open, taken, reader, idle>>

\* Whatever session has the ID by now is counted; if there is none the ID is
\* given up all the same. Counts past IdleRetries are all the same to the code.
\* The lookup and the read of the count are one step: what changes the count in
\* between might as well have done so before.
LoadIdle(c) ==
    LET call == timeout[c]
        sess == table[call.id] IN
    /\ call.at = "find"
    /\ IF sess = Nil THEN Call(c, "giveUp", call.id, Nil, 0)
                     ELSE Call(c, "store", call.id, sess,
                              IF idle[sess] < IdleRetries THEN idle[sess] + 1 ELSE IdleRetries)
    /\ UNCHANGED <<end, opened, table, idOf, open, taken, reader, timer, idle>>

StoreIdle(c) ==
    LET call == timeout[c] IN
    /\ call.at = "store"
    /\ idle' = [idle EXCEPT ![call.sess] = call.count]
    /\ Call(c, "test", call.id, call.sess, call.count)
    /\ UNCHANGED <<end, opened, table, idOf, open, taken, reader, timer>>

\* The field is not locked: the comparison may read it again, after somebody has
\* written to it, or use what was written here.
TestIdle(c) ==
    LET call == timeout[c] IN
    /\ call.at = "test"
    /\ \E count \in {call.count, idle[call.sess]} :
        Call(c, IF count < IdleRetries THEN "again" ELSE "giveUp", call.id, Nil, 0)
    /\ UNCHANGED <<end, opened, table, idOf, open, taken, reader, timer, idle>>

WaitAgain(c) ==
    /\ timeout[c].at = "again"
    /\ StartBackendWait(timeout[c].id)
    /\ Return(c)
    /\ UNCHANGED <<end, opened, table, idOf, open, taken, reader>>

GiveUp(c) ==
    /\ timeout[c].at = "giveUp"
    /\ Take(timeout[c].id)
    /\ Return(c)
    /\ UNCHANGED <<end, opened, idOf, open, reader, timer, idle>>

-----------------------------------------------------------------------------

Peer(i) ==
    PeerCloses(i) \/ WriteFails(i) \/ ServerOpens(i) \/ ClientOpens(i) \/ ClientGetsData(i)

Timeout(c) ==
    LoadIdle(c) \/ StoreIdle(c) \/ TestIdle(c) \/ WaitAgain(c) \/ GiveUp(c)

ReadFails(n) == ServerReadFails(n) \/ ClientReadFails(n)

Closes(n) == ServerCloses(n) \/ ClientCloses(n)

Next ==
    \/ \E i \in Ids : Peer(i)
    \/ \E c \in Timeouts : Timeout(c)
    \/ \E n \in Sessions :
        \/ ServerReads(n) \/ ServerSends(n)
        \/ ClientReads(n) \/ ClientCancels(n) \/ TimerFires(n)
        \/ ReadFails(n) \/ ServerReaderEnds(n) \/ Closes(n)
    \/ ClientLosesControl

Spec == Init /\ [][Next]_vars

\* Whoever took a session out goes on to close it; a reader goes on with what it
\* has read, and returns from a socket that is closed.
Fairness ==
    \A n \in Sessions :
        /\ WF_vars(Closes(n))
        /\ WF_vars(\/ ServerSends(n) \/ ServerReaderEnds(n) \/ ClientCancels(n)
                   \/ ReadFails(n) /\ n \notin open)

FairSpec == Spec /\ Fairness

\* Timers fire, and their calls come to an end.
TimerFairness ==
    /\ \A n \in Sessions : WF_vars(TimerFires(n))
    /\ \A c \in Timeouts : WF_vars(Timeout(c))

TimedSpec == FairSpec /\ TimerFairness

-----------------------------------------------------------------------------

Calls ==
    [at : {"none", "find", "store", "test", "again", "giveUp"}, id : Ids,
     sess : 0..MaxOpens, count : 0..IdleRetries]

\* Every variable has its type.
TypeOK ==
    /\ end \in {"server", "client"}
    /\ opened \in 0..MaxOpens
    /\ table \in [Ids -> 0..MaxOpens]
    /\ idOf \in [Sessions -> Ids]
    /\ open \subseteq Sessions /\ taken \subseteq Sessions
    /\ reader \in [Sessions -> {"none", "read", "send", "cancel", "leave", "ended"}]
    /\ timer \in [Sessions -> {"nil", "armed", "spent"}]
    /\ idle \in [Sessions -> 0..IdleRetries]
    /\ timeout \in [Timeouts -> Calls]

\* A session in the table is read: a reader that ends takes its own session
\* out if it is still there, although it only knows the ID.
EntryIsRead ==
    \A i \in Ids : table[i] # Nil => reader[table[i]] \notin {"none", "ended"}

\* An open socket is in the table, or somebody has taken it out and is about
\* to close it. Only a server whose peer has opened the same ID again has
\* sockets that nobody will close.
SocketIsHeld ==
    \A n \in open :
        \/ n \in taken
        \/ table[idOf[n]] = n
        \/ end = "server" /\ \E m \in (n + 1)..opened : idOf[m] = idOf[n]

\* The wait for a backend is begun and cancelled by ID, at any time; all the same
\* only a session that is in the table, or about to be closed, has a timer that
\* runs. A timer left running would count and close whatever session has the ID
\* when it fires.
TimerHasSession ==
    \A n \in Sessions : timer[n] = "armed" => table[idOf[n]] = n \/ n \in taken

\* How far a session has come.
Life(n) ==
    IF n > opened THEN "unborn"
    ELSE IF table[idOf[n]] = n THEN "listed"
    ELSE IF n \in taken THEN "taken"
    ELSE IF n \in open THEN "forgotten" ELSE "closed"

Lives == INSTANCE SessionLife WITH life <- [n \in Sessions |-> Life(n)], name <- idOf

\* Although everybody who removes a session knows it by its ID only, each is listed
\* once, taken out by at most one of them and closed by that one; none is closed
\* while it is listed, comes back or is left open, but for those a server forgets.
ImplementsSessionLife == Lives!Spec

\* A session that somebody has taken out of the table is closed and its reader
\* ends, also when the reader has to find out by ID and another session has it.
TakenSessionEnds ==
    \A n \in Sessions : n \in taken ~> (n \notin open /\ reader[n] = "ended")

\* "backend không phản hồi ... đóng phiên" (the backend does not answer, closing the
\* session), after "chưa phản hồi (%d/%d)" as often as backendIdleRetries says: a
\* session does not wait for ever unless its backend speaks or more packets come.
SilentBackendIsGivenUp ==
    \A i \in Ids :
        \/ []<>(\A n \in Entry(i) : timer[n] = "nil")
        \/ []<><<ClientGetsData(i) \/ \E n \in Sessions : idOf[n] = i /\ ClientCancels(n)>>_vars

=============================================================================
