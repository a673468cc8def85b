------------------------- MODULE UdpSessionsProofs --------------------------
(* Theorems about UdpSessions for any IDs and any number of sessions.       *)
EXTENDS UdpSessions, TLAPS

\* What holds between the table, the numbers given to sessions and their IDs:
\* an entry is a session that was opened under its ID, so that two IDs never
\* share a session, and a session that was not opened yet has nothing.
NumbersAreGiven ==
    /\ \A i \in Ids : table[i] \in 0..opened /\ (table[i] # Nil => idOf[table[i]] = i)
    /\ open \subseteq 1..opened

Inv == TypeOK /\ NumbersAreGiven /\ EntryIsRead /\ SocketIsHeld

TimerStates == {"nil", "armed", "spent"}

LEMMA NilIsNoSession == Nil \notin Sessions /\ 0..MaxOpens = Sessions \cup {Nil}
BY SessionsAssumption DEF Nil, Sessions

\* The initial states satisfy the invariant.
LEMMA InitInv == Init => Inv
<1> SUFFICES ASSUME Init PROVE Inv
  OBVIOUS
<1>1. (CHOOSE i \in Ids : TRUE) \in Ids
  BY SessionsAssumption
<1>2. TypeOK
  <2>1. idOf \in [Sessions -> Ids]
    BY <1>1 DEF Init
  <2>2. NoCall \in Calls
    BY <1>1, SessionsAssumption DEF NoCall, Calls, Nil
  <2>3. QED
    BY <2>1, <2>2, SessionsAssumption DEF Init, TypeOK, Nil
<1>3. NumbersAreGiven /\ EntryIsRead /\ SocketIsHeld
  BY SessionsAssumption
  DEF Init, NumbersAreGiven, EntryIsRead, SocketIsHeld, Nil, Sessions
<1>4. QED
  BY <1>2, <1>3 DEF Inv

\* Taking an entry out of the table keeps the invariant: its socket is now in
\* the hands of whoever took it.
LEMMA TakeInv ==
    ASSUME Inv, NEW i \in Ids, Take(i), UNCHANGED <<end, opened, idOf, open>>,
           \A j \in Ids : table'[j] # Nil => reader'[table'[j]] = reader[table'[j]],
           reader' \in [Sessions -> {"none", "read", "send", "cancel", "leave", "ended"}],
           UNCHANGED <<timer, idle>>, timeout' \in [Timeouts -> Calls]
    PROVE  Inv'
<1> USE DEF Inv
<1>1. table' = [table EXCEPT ![i] = Nil] /\ taken' = taken \cup Entry(i)
  BY DEF Take
<1>2. TypeOK'
  BY <1>1, NilIsNoSession DEF TypeOK, Entry
<1>3. NumbersAreGiven'
  BY <1>1 DEF NumbersAreGiven, TypeOK, Nil
<1>4. EntryIsRead'
  BY <1>1 DEF EntryIsRead, TypeOK
<1>5. SocketIsHeld'
  <2> SUFFICES ASSUME NEW n \in open
               PROVE  \/ n \in taken' \/ table'[idOf[n]] = n
                      \/ end = "server" /\ \E m \in (n + 1)..opened : idOf[m] = idOf[n]
    BY DEF SocketIsHeld
  <2>1. n \in Sessions /\ n # Nil /\ idOf[n] \in Ids
    BY NilIsNoSession DEF TypeOK
  <2>2. CASE table[idOf[n]] = n /\ idOf[n] = i
    BY <1>1, <2>1, <2>2 DEF Entry
  <2>3. CASE table[idOf[n]] = n /\ idOf[n] # i
    BY <1>1, <2>1, <2>3 DEF TypeOK
  <2>4. CASE table[idOf[n]] # n
    BY <1>1, <2>4 DEF SocketIsHeld
  <2>5. QED
    BY <2>2, <2>3, <2>4
<1>6. QED
  BY <1>2, <1>3, <1>4, <1>5

\* Stopping timers.
LEMMA StopType ==
    ASSUME TypeOK, NEW some, Stop(some)
    PROVE  timer' \in [Sessions -> TimerStates]
BY DEF TypeOK, Stop, TimerStates

\* A new session gets a number of its own; the session whose ID it takes is
\* closed, or is one that its server has lost.
LEMMA OpenInv ==
    ASSUME Inv, NEW i \in Ids, NEW closed, Open(i, closed),
           \/ end = "client" /\ closed = Entry(i)
           \/ end = "server" /\ closed = {},
           timer' \in [Sessions -> TimerStates], UNCHANGED <<idle, timeout>>
    PROVE  Inv'
<1> USE DEF Inv
<1> DEFINE new == opened + 1
<1>1. /\ opened < MaxOpens /\ opened' = new /\ UNCHANGED <<end, taken>>
      /\ table' = [table EXCEPT ![i] = new]
      /\ idOf' = [idOf EXCEPT ![new] = i]
      /\ open' = (open \ closed) \cup {new}
      /\ reader' = [reader EXCEPT ![new] = "read"]
  BY DEF Open, Goto
<1>2. opened \in Nat /\ new \in Sessions /\ new # Nil /\ 1..new \subseteq Sessions
  BY <1>1, SessionsAssumption DEF TypeOK, Sessions, Nil
<1>3. TypeOK'
  <2>1. opened' \in 0..MaxOpens /\ table' \in [Ids -> 0..MaxOpens]
    BY <1>1, <1>2, NilIsNoSession DEF TypeOK
  <2>2. idOf' \in [Sessions -> Ids]
    BY <1>1, <1>2 DEF TypeOK
  <2>3. reader' \in [Sessions -> {"none", "read", "send", "cancel", "leave", "ended"}]
    BY <1>1, <1>2 DEF TypeOK
  <2>4. open' \subseteq Sessions /\ taken' \subseteq Sessions
    BY <1>1, <1>2 DEF TypeOK
  <2>5. QED
    BY <1>1, <2>1, <2>2, <2>3, <2>4 DEF TypeOK, TimerStates
<1>4. \A n \in 1..opened : n \in Sessions /\ n # new /\ idOf'[n] = idOf[n] /\ reader'[n] = reader[n]
  BY <1>1, <1>2 DEF TypeOK
<1>5. \A j \in Ids : table[j] # Nil => table[j] \in 1..opened
  BY <1>2 DEF NumbersAreGiven, Nil
<1>6. NumbersAreGiven'
  <2>1. ASSUME NEW j \in Ids
        PROVE  table'[j] \in 0..opened' /\ (table'[j] # Nil => idOf'[table'[j]] = j)
    <3>1. CASE j = i
      BY <1>1, <1>2, <3>1 DEF TypeOK
    <3>2. CASE j # i
      BY <1>1, <1>2, <1>4, <1>5, <3>2 DEF TypeOK, NumbersAreGiven
    <3>3. QED
      BY <3>1, <3>2
  <2>2. open' \subseteq 1..opened'
    <3>1. 1..opened \subseteq 1..new /\ new \in 1..new
      BY <1>2
    <3>2. QED
      BY <1>1, <3>1 DEF NumbersAreGiven
  <2>3. QED
    BY <2>1, <2>2 DEF NumbersAreGiven
<1>7. EntryIsRead'
  <2> SUFFICES ASSUME NEW j \in Ids, table'[j] # Nil
               PROVE  reader'[table'[j]] \notin {"none", "ended"}
    BY DEF EntryIsRead
  <2>1. CASE j = i
    BY <1>1, <1>2, <2>1 DEF TypeOK
  <2>2. CASE j # i
    BY <1>1, <1>4, <1>5, <2>2 DEF TypeOK, EntryIsRead
  <2>3. QED
    BY <2>1, <2>2
<1>8. SocketIsHeld'
  <2> SUFFICES ASSUME NEW n \in open'
               PROVE  \/ n \in taken' \/ table'[idOf'[n]] = n
                      \/ end' = "server" /\ \E m \in (n + 1)..opened' : idOf'[m] = idOf'[n]
    BY DEF SocketIsHeld
  <2>1. CASE n = new
    BY <1>1, <1>2, <2>1 DEF TypeOK
  <2>2. CASE n # new
    <3>1. n \in open /\ n \notin closed /\ n \in 1..opened /\ n # Nil
      BY <1>1, <2>2 DEF NumbersAreGiven, Nil
    <3>2. idOf'[n] = idOf[n] /\ idOf[n] \in Ids
      BY <1>4, <3>1 DEF TypeOK
    <3>3. CASE n \in taken
      BY <1>1, <3>3
    <3>4. CASE table[idOf[n]] = n /\ idOf[n] # i
      BY <1>1, <3>2, <3>4 DEF TypeOK
    <3>5. CASE table[idOf[n]] = n /\ idOf[n] = i
      <4>1. end = "server"
        BY <3>1, <3>5 DEF Entry
      <4>2. new \in (n + 1)..opened' /\ idOf'[new] = i
        BY <1>1, <1>2, <3>1 DEF TypeOK
      <4>3. QED
        BY <1>1, <3>2, <3>5, <4>1, <4>2
    <3>6. CASE end = "server" /\ \E m \in (n + 1)..opened : idOf[m] = idOf[n]
      <4>1. PICK m \in (n + 1)..opened : idOf[m] = idOf[n]
        BY <3>6
      <4>2. m \in 1..opened /\ m \in (n + 1)..opened'
        BY <1>1, <1>2, <3>1, <4>1
      <4>3. idOf'[m] = idOf'[n]
        BY <1>4, <3>2, <4>1, <4>2
      <4>4. QED
        BY <1>1, <3>6, <4>2, <4>3
    <3>7. QED
      BY <3>1, <3>3, <3>4, <3>5, <3>6 DEF SocketIsHeld
  <2>3. QED
    BY <2>1, <2>2
<1>9. QED
  BY <1>3, <1>6, <1>7, <1>8

\* Closing a session that was taken out.
LEMMA CloseInv ==
    ASSUME Inv, NEW n \in Sessions, Closes(n)
    PROVE  Inv'
<1> USE DEF Inv, Closes, ServerCloses, ClientCloses, waits
<1>1. timer' \in [Sessions -> TimerStates]
  BY StopType DEF TypeOK, TimerStates
<1>2. TypeOK'
  BY <1>1 DEF TypeOK, TimerStates
<1>3. NumbersAreGiven' /\ EntryIsRead'
  BY DEF NumbersAreGiven, EntryIsRead
<1>4. SocketIsHeld'
  BY DEF SocketIsHeld
<1>5. QED
  BY <1>2, <1>3, <1>4

\* Steps that leave the table and the sockets alone and move a reader that
\* reads, or the waits for the backend.
LEMMA WaitInv ==
    ASSUME Inv, UNCHANGED <<end, opened, table, idOf, open, taken>>,
           reader' \in [Sessions -> {"none", "read", "send", "cancel", "leave", "ended"}],
           \A n \in Sessions : reader[n] \notin {"none", "ended"}
                                => reader'[n] \notin {"none", "ended"},
           timer' \in [Sessions -> TimerStates],
           idle' \in [Sessions -> 0..IdleRetries],
           timeout' \in [Timeouts -> Calls]
    PROVE  Inv'
<1>1. TypeOK' /\ NumbersAreGiven' /\ SocketIsHeld'
  BY DEF Inv, TypeOK, NumbersAreGiven, SocketIsHeld, TimerStates
<1>2. EntryIsRead'
  BY NilIsNoSession DEF Inv, TypeOK, EntryIsRead
<1>3. QED
  BY <1>1, <1>2 DEF Inv

\* Beginning a wait, and cancelling it.
LEMMA WaitType ==
    ASSUME TypeOK, NEW i \in Ids, StartBackendWait(i) \/ CancelBackendWait(i)
    PROVE  timer' \in [Sessions -> TimerStates] /\ idle' \in [Sessions -> 0..IdleRetries]
<1>1. 0 \in 0..IdleRetries /\ idle \in [Sessions -> 0..IdleRetries]
      /\ timer \in [Sessions -> TimerStates]
  BY SessionsAssumption DEF TypeOK, TimerStates
<1>2. CASE StartBackendWait(i)
  BY <1>1, <1>2 DEF StartBackendWait, TimerStates
<1>3. CASE CancelBackendWait(i)
  BY <1>1, <1>3 DEF CancelBackendWait, TimerStates
<1>4. QED
  BY <1>2, <1>3

\* A call of handleBackendTimeout goes on, or returns.
LEMMA CallType ==
    ASSUME TypeOK, NEW c \in Timeouts
    PROVE  /\ \A at \in {"find", "store", "test", "again", "giveUp"}, id \in Ids,
               sess \in 0..MaxOpens, count \in 0..IdleRetries :
               Call(c, at, id, sess, count) => timeout' \in [Timeouts -> Calls]
           /\ Return(c) => timeout' \in [Timeouts -> Calls]
<1>1. timeout \in [Timeouts -> Calls]
  BY DEF TypeOK
<1>2. ASSUME NEW at \in {"find", "store", "test", "again", "giveUp"}, NEW id \in Ids,
             NEW sess \in 0..MaxOpens, NEW count \in 0..IdleRetries,
             Call(c, at, id, sess, count)
      PROVE  timeout' \in [Timeouts -> Calls]
  <2>1. [at |-> at, id |-> id, sess |-> sess, count |-> count] \in Calls
    BY DEF Calls
  <2>2. QED
    BY <1>1, <1>2, <2>1 DEF Call
<1>3. ASSUME Return(c) PROVE timeout' \in [Timeouts -> Calls]
  <2>1. (CHOOSE i \in Ids : TRUE) \in Ids
    BY SessionsAssumption
  <2>2. NoCall \in Calls
    BY <2>1, SessionsAssumption DEF NoCall, Calls, Nil
  <2>3. QED
    BY <1>1, <1>3, <2>2 DEF Return
<1>4. QED
  BY <1>2, <1>3

\* The invariant holds in every reachable state.
LEMMA NextInv == Inv /\ [Next]_vars => Inv'
<1> SUFFICES ASSUME Inv, [Next]_vars PROVE Inv'
  OBVIOUS
<1> USE DEF waits
<1>1. ASSUME NEW i \in Ids, PeerCloses(i) \/ WriteFails(i) PROVE Inv'
  BY <1>1, TakeInv DEF PeerCloses, WriteFails, Inv, TypeOK
<1>2. ASSUME NEW i \in Ids, ServerOpens(i) PROVE Inv'
  BY <1>2, OpenInv DEF ServerOpens, Inv, TypeOK, TimerStates
<1>3. ASSUME NEW i \in Ids, ClientOpens(i) PROVE Inv'
  BY <1>3, OpenInv, StopType DEF ClientOpens, Inv
<1>4. ASSUME NEW i \in Ids, ClientGetsData(i) PROVE Inv'
  BY <1>4, WaitType, WaitInv DEF ClientGetsData, Inv, TypeOK
<1>5. ASSUME NEW c \in Timeouts, LoadIdle(c) PROVE Inv'
  <2>1. timeout[c].id \in Ids /\ table[timeout[c].id] \in 0..MaxOpens
    BY DEF Inv, TypeOK, Calls
  <2>2. ASSUME table[timeout[c].id] # Nil
        PROVE  (IF idle[table[timeout[c].id]] < IdleRetries
                THEN idle[table[timeout[c].id]] + 1 ELSE IdleRetries) \in 0..IdleRetries
    BY <2>1, <2>2, NilIsNoSession, SessionsAssumption DEF Inv, TypeOK
  <2>3. Nil \in 0..MaxOpens /\ 0 \in 0..IdleRetries
    BY SessionsAssumption DEF Nil
  <2>4. timeout' \in [Timeouts -> Calls]
    <3>1. CASE table[timeout[c].id] = Nil
      BY <1>5, <2>1, <2>3, <3>1, CallType DEF LoadIdle, Inv
    <3>2. CASE table[timeout[c].id] # Nil
      BY <1>5, <2>1, <2>2, <3>2, CallType DEF LoadIdle, Inv
    <3>3. QED
      BY <3>1, <3>2
  <2>5. QED
    BY <1>5, <2>4, WaitInv DEF LoadIdle, Inv, TypeOK, TimerStates
<1>6. ASSUME NEW c \in Timeouts, StoreIdle(c) PROVE Inv'
  <2>1. /\ timeout[c].id \in Ids /\ timeout[c].sess \in 0..MaxOpens
        /\ timeout[c].count \in 0..IdleRetries
    BY DEF Inv, TypeOK, Calls
  <2>2. timeout' \in [Timeouts -> Calls]
    BY <1>6, <2>1, CallType DEF StoreIdle, Inv
  <2>3. idle' \in [Sessions -> 0..IdleRetries]
    BY <1>6, <2>1 DEF StoreIdle, Inv, TypeOK
  <2>4. QED
    BY <1>6, <2>2, <2>3, WaitInv DEF StoreIdle, Inv, TypeOK, TimerStates
<1>7. ASSUME NEW c \in Timeouts, TestIdle(c) PROVE Inv'
  <2>1. timeout[c].id \in Ids /\ Nil \in 0..MaxOpens /\ 0 \in 0..IdleRetries
    BY SessionsAssumption DEF Inv, TypeOK, Calls, Nil
  <2>2. PICK at \in {"again", "giveUp"} : Call(c, at, timeout[c].id, Nil, 0)
    BY <1>7 DEF TestIdle
  <2>3. timeout' \in [Timeouts -> Calls]
    BY <2>1, <2>2, CallType DEF Inv
  <2>4. QED
    BY <1>7, <2>3, WaitInv DEF TestIdle, Inv, TypeOK, TimerStates
<1>8. ASSUME NEW c \in Timeouts, WaitAgain(c) \/ GiveUp(c) PROVE Inv'
  <2>1. timeout[c].id \in Ids /\ timeout' \in [Timeouts -> Calls]
    <3>1. timeout[c].id \in Ids
      BY DEF Inv, TypeOK, Calls
    <3>2. QED
      BY <1>8, <3>1, CallType DEF WaitAgain, GiveUp, Inv
  <2>2. CASE WaitAgain(c)
    BY <2>1, <2>2, WaitType, WaitInv DEF WaitAgain, Inv, TypeOK
  <2>3. CASE GiveUp(c)
    BY <2>1, <2>3, TakeInv DEF GiveUp, Inv, TypeOK
  <2>4. QED
    BY <1>8, <2>2, <2>3
<1>9. ASSUME NEW n \in Sessions,
             ServerReads(n) \/ ServerSends(n) \/ ServerReadFails(n) \/ ClientReads(n)
      PROVE  Inv'
  BY <1>9, WaitInv
  DEF ServerReads, ServerSends, ServerReadFails, ClientReads, Goto, Inv, TypeOK, TimerStates
<1>10. ASSUME NEW n \in Sessions, ServerReaderEnds(n) \/ ClientReadFails(n) PROVE Inv'
  <2>1. idOf[n] \in Ids /\ Take(idOf[n]) /\ UNCHANGED <<end, opened, idOf, open, waits>>
        /\ reader' = [reader EXCEPT ![n] = "ended"]
    BY <1>10 DEF ServerReaderEnds, ClientReadFails, Goto, Inv, TypeOK
  <2>2. \A j \in Ids : table'[j] # Nil => table'[j] # n
    BY <2>1 DEF Take, Inv, TypeOK, NumbersAreGiven
  <2>3. \A j \in Ids : table'[j] # Nil => reader'[table'[j]] = reader[table'[j]]
    BY <2>1, <2>2, NilIsNoSession DEF Take, Inv, TypeOK
  <2>4. QED
    BY <2>1, <2>3, TakeInv DEF Inv, TypeOK
<1>11. ASSUME NEW n \in Sessions, ClientCancels(n) PROVE Inv'
  <2>1. idOf[n] \in Ids
    BY DEF Inv, TypeOK
  <2>2. QED
    BY <1>11, <2>1, WaitType, WaitInv DEF ClientCancels, Goto, Inv, TypeOK
<1>12. ASSUME NEW n \in Sessions, TimerFires(n) PROVE Inv'
  <2>1. idOf[n] \in Ids /\ Nil \in 0..MaxOpens /\ 0 \in 0..IdleRetries
    BY SessionsAssumption DEF Inv, TypeOK, Nil
  <2>2. timeout' \in [Timeouts -> Calls]
    BY <1>12, <2>1, CallType DEF TimerFires, Inv
  <2>3. timer' \in [Sessions -> TimerStates]
    BY <1>12 DEF TimerFires, Inv, TypeOK, TimerStates
  <2>4. QED
    BY <1>12, <2>2, <2>3, WaitInv DEF TimerFires, Inv, TypeOK
<1>13. ASSUME NEW n \in Sessions, Closes(n) PROVE Inv'
  BY <1>13, CloseInv
<1>14. CASE ClientLosesControl
  <2>1. /\ table' = [i \in Ids |-> Nil]
        /\ taken' = taken \cup UNION {Entry(i) : i \in Ids}
        /\ UNCHANGED <<end, opened, idOf, open, reader, idle, timeout>>
        /\ timer' \in [Sessions -> TimerStates]
    BY <1>14 DEF ClientLosesControl, Inv, TypeOK, TimerStates
  <2>2. TypeOK'
    BY <2>1, NilIsNoSession DEF Inv, TypeOK, TimerStates, Entry
  <2>3. NumbersAreGiven' /\ EntryIsRead'
    BY <2>1, SessionsAssumption DEF Inv, TypeOK, NumbersAreGiven, EntryIsRead, Nil
  <2>4. SocketIsHeld'
    <3> SUFFICES ASSUME NEW n \in open
                 PROVE  \/ n \in taken'
                        \/ end = "server" /\ \E m \in (n + 1)..opened : idOf[m] = idOf[n]
      BY <2>1 DEF SocketIsHeld
    <3>1. n # Nil /\ idOf[n] \in Ids
      BY NilIsNoSession DEF Inv, TypeOK
    <3>2. table[idOf[n]] = n => n \in Entry(idOf[n])
      BY <3>1 DEF Entry
    <3>3. QED
      BY <2>1, <3>1, <3>2 DEF Inv, SocketIsHeld
  <2>5. QED
    BY <2>2, <2>3, <2>4 DEF Inv
<1>15. CASE UNCHANGED vars
  BY <1>15 DEF vars, Inv, TypeOK, NumbersAreGiven, EntryIsRead, SocketIsHeld
<1>16. QED
  BY <1>1, <1>2, <1>3, <1>4, <1>5, <1>6, <1>7, <1>8, <1>9, <1>10, <1>11, <1>12, <1>13,
     <1>14, <1>15
  DEF Next, Peer, Timeout, ReadFails

-----------------------------------------------------------------------------

\* Every variable keeps its type, and the invariant of the tables holds.
THEOREM TablesAreSound == Spec => []Inv
BY InitInv, NextInv, PTL DEF Spec

\* A session in a table has a reader, whoever removes and opens sessions.
THEOREM EntriesAreRead == Spec => []EntryIsRead
<1>1. Inv => EntryIsRead
  BY DEF Inv
<1>2. QED
  BY <1>1, TablesAreSound, PTL

\* The client loses no socket; the server loses only those whose ID is opened
\* again.
THEOREM SocketsAreHeld == Spec => []SocketIsHeld
<1>1. Inv => SocketIsHeld
  BY DEF Inv
<1>2. QED
  BY <1>1, TablesAreSound, PTL

-----------------------------------------------------------------------------
(* Only the client has timers, so that an open that forgets a session leaves *)
(* no timer behind.                                                          *)
TimersInv ==
    /\ TimerHasSession
    /\ end = "server" => /\ \A n \in Sessions : timer[n] = "nil"
                         /\ \A c \in Timeouts : timeout[c] = NoCall

\* An entry is taken out by ID.
LEMMA TakeTimers ==
    ASSUME Inv, TimersInv, NEW i \in Ids, Take(i), UNCHANGED <<end, idOf, timer>>,
           end = "client" \/ UNCHANGED timeout
    PROVE  TimersInv'
<1>1. ASSUME NEW n \in Sessions, timer[n] = "armed"
      PROVE  table'[idOf[n]] = n \/ n \in taken'
  <2>1. table' = [table EXCEPT ![i] = Nil] /\ taken' = taken \cup Entry(i)
    BY DEF Take
  <2>2. n # Nil /\ idOf[n] \in Ids /\ (table[idOf[n]] = n \/ n \in taken)
    BY <1>1, NilIsNoSession DEF Inv, TypeOK, TimersInv, TimerHasSession
  <2>3. CASE idOf[n] = i
    BY <2>1, <2>2, <2>3 DEF Entry
  <2>4. CASE idOf[n] # i
    BY <2>1, <2>2, <2>4 DEF Inv, TypeOK
  <2>5. QED
    BY <2>3, <2>4
<1>2. QED
  BY <1>1 DEF TimersInv, TimerHasSession

\* No timer is started and no session goes.
LEMMA QuietTimers ==
    ASSUME TimersInv, UNCHANGED <<end, table, idOf, taken>>,
           \A n \in Sessions : timer'[n] = timer[n] \/ (end = "client" /\ timer'[n] # "armed"),
           end = "client" \/ UNCHANGED timeout
    PROVE  TimersInv'
BY DEF TimersInv, TimerHasSession

\* A wait is begun for the session that has the ID.
LEMMA WaitTimers ==
    ASSUME Inv, TimersInv, NEW i \in Ids, StartBackendWait(i), end = "client",
           UNCHANGED <<end, table, idOf, taken>>
    PROVE  TimersInv'
<1>1. ASSUME NEW n \in Sessions, timer'[n] = "armed"
      PROVE  table[idOf[n]] = n \/ n \in taken
  <2>1. CASE n \in Entry(i)
    BY <2>1, NilIsNoSession DEF Entry, Inv, NumbersAreGiven
  <2>2. CASE n \notin Entry(i)
    BY <1>1, <2>2 DEF StartBackendWait, TimersInv, TimerHasSession
  <2>3. QED
    BY <2>1, <2>2
<1>2. QED
  BY <1>1 DEF TimersInv, TimerHasSession

\* A session is opened; the one it replaces has its timer stopped.
LEMMA OpenTimers ==
    ASSUME Inv, TimersInv, NEW i \in Ids, ServerOpens(i) \/ ClientOpens(i)
    PROVE  TimersInv'
<1>0. PICK new \in Sessions : new = opened + 1
  BY SessionsAssumption DEF ServerOpens, ClientOpens, Open, Inv, TypeOK, Sessions
<1>1. /\ UNCHANGED <<end, taken, timeout>>
      /\ table' = [table EXCEPT ![i] = new]
      /\ idOf' = [idOf EXCEPT ![new] = i]
  BY <1>0 DEF ServerOpens, ClientOpens, Open, waits
<1>2. ASSUME NEW n \in Sessions, timer'[n] = "armed"
      PROVE  timer[n] = "armed" /\ n \notin Entry(i) /\ end = "client"
  <2>1. CASE ServerOpens(i)
    BY <1>2, <2>1 DEF ServerOpens, waits, TimersInv
  <2>2. CASE ClientOpens(i)
    BY <1>2, <2>2 DEF ClientOpens, Stop
  <2>3. QED
    BY <2>1, <2>2
<1>3. ASSUME NEW n \in Sessions, timer'[n] = "armed"
      PROVE  table'[idOf'[n]] = n \/ n \in taken'
  <2>1. timer[n] = "armed" /\ n \notin Entry(i) /\ n # Nil /\ idOf[n] \in Ids
    BY <1>2, <1>3, NilIsNoSession DEF Inv, TypeOK
  <2>2. CASE n = new
    BY <1>1, <2>2 DEF Inv, TypeOK
  <2>3. CASE n # new /\ n \notin taken
    <3>1. table[idOf[n]] = n /\ idOf'[n] = idOf[n]
      BY <1>1, <2>1, <2>3 DEF TimersInv, TimerHasSession, Inv, TypeOK
    <3>2. idOf[n] # i
      BY <2>1, <3>1 DEF Entry
    <3>3. QED
      BY <1>1, <2>1, <3>1, <3>2 DEF Inv, TypeOK
  <2>4. QED
    BY <1>1, <2>2, <2>3
<1>4. end = "server" => UNCHANGED timer
  BY DEF ServerOpens, ClientOpens, waits
<1>5. QED
  BY <1>1, <1>3, <1>4 DEF TimersInv, TimerHasSession

LEMMA NextTimers == Inv /\ TimersInv /\ [Next]_vars => TimersInv'
<1> SUFFICES ASSUME Inv, TimersInv, [Next]_vars PROVE TimersInv'
  OBVIOUS
<1> USE DEF waits
<1>1. ASSUME NEW i \in Ids, Peer(i) PROVE TimersInv'
  <2>1. CASE PeerCloses(i) \/ WriteFails(i)
    BY <2>1, TakeTimers DEF PeerCloses, WriteFails
  <2>2. CASE ClientGetsData(i)
    BY <2>2, WaitTimers DEF ClientGetsData
  <2>3. QED
    BY <1>1, <2>1, <2>2, OpenTimers DEF Peer
<1>2. ASSUME NEW c \in Timeouts, Timeout(c) PROVE TimersInv'
  <2>1. timeout[c].at # "none" /\ timeout[c].id \in Ids
    BY <1>2 DEF Timeout, LoadIdle, StoreIdle, TestIdle, WaitAgain, GiveUp, Inv, TypeOK, Calls
  <2>2. end = "client"
    BY <2>1 DEF TimersInv, NoCall, Inv, TypeOK
  <2>3. CASE LoadIdle(c) \/ StoreIdle(c) \/ TestIdle(c)
    BY <2>2, <2>3, QuietTimers DEF LoadIdle, StoreIdle, TestIdle
  <2>4. CASE WaitAgain(c)
    BY <2>1, <2>2, <2>4, WaitTimers DEF WaitAgain
  <2>5. CASE GiveUp(c)
    BY <2>1, <2>2, <2>5, TakeTimers DEF GiveUp
  <2>6. QED
    BY <1>2, <2>3, <2>4, <2>5 DEF Timeout
<1>3. ASSUME NEW n \in Sessions, ServerReads(n) \/ ServerSends(n) \/ ClientReads(n)
      PROVE  TimersInv'
  BY <1>3, QuietTimers DEF ServerReads, ServerSends, ClientReads
<1>4. ASSUME NEW n \in Sessions, ClientCancels(n) PROVE TimersInv'
  <2>1. \A m \in Sessions : timer'[m] = timer[m] \/ timer'[m] = "nil"
    BY <1>4 DEF ClientCancels, CancelBackendWait
  <2>2. QED
    BY <1>4, <2>1, QuietTimers DEF ClientCancels
<1>5. ASSUME NEW n \in Sessions, TimerFires(n) PROVE TimersInv'
  <2>1. end = "client"
    BY <1>5 DEF TimerFires, TimersInv, Inv, TypeOK
  <2>2. \A m \in Sessions : timer'[m] = timer[m] \/ timer'[m] = "spent"
    BY <1>5 DEF TimerFires, Inv, TypeOK
  <2>3. QED
    BY <1>5, <2>1, <2>2, QuietTimers DEF TimerFires
<1>6. ASSUME NEW n \in Sessions, ReadFails(n) \/ ServerReaderEnds(n) PROVE TimersInv'
  <2>1. idOf[n] \in Ids
    BY DEF Inv, TypeOK
  <2>2. CASE ServerReadFails(n)
    BY <2>2, QuietTimers DEF ServerReadFails
  <2>3. CASE ClientReadFails(n) \/ ServerReaderEnds(n)
    BY <2>1, <2>3, TakeTimers DEF ClientReadFails, ServerReaderEnds
  <2>4. QED
    BY <1>6, <2>2, <2>3 DEF ReadFails
<1>7. ASSUME NEW n \in Sessions, Closes(n) PROVE TimersInv'
  <2>1. UNCHANGED <<end, table, idOf, timeout>> /\ taken' = taken \ {n}
    BY <1>7 DEF Closes, ServerCloses, ClientCloses
  <2>2. ASSUME NEW m \in Sessions, timer'[m] = "armed" PROVE timer[m] = "armed" /\ m # n
    BY <1>7, <2>2 DEF Closes, ServerCloses, ClientCloses, Stop, TimersInv
  <2>3. end = "server" => UNCHANGED timer
    BY <1>7 DEF Closes, ServerCloses, ClientCloses
  <2>4. QED
    BY <2>1, <2>2, <2>3 DEF TimersInv, TimerHasSession
<1>8. CASE ClientLosesControl
  <2>1. /\ end = "client" /\ UNCHANGED <<end, idOf>>
        /\ taken' = taken \cup UNION {Entry(i) : i \in Ids}
        /\ timer' = [n \in Sessions |-> IF n \in UNION {Entry(i) : i \in Ids}
                                          THEN "nil" ELSE timer[n]]
    BY <1>8 DEF ClientLosesControl
  <2>2. ASSUME NEW n \in Sessions, timer'[n] = "armed" PROVE n \in taken
    <3>1. timer[n] = "armed" /\ n \notin Entry(idOf[n]) /\ n # Nil
      BY <2>1, <2>2, NilIsNoSession DEF Inv, TypeOK
    <3>2. QED
      BY <3>1 DEF TimersInv, TimerHasSession, Entry
  <2>3. QED
    BY <2>1, <2>2 DEF TimersInv, TimerHasSession
<1>9. CASE UNCHANGED vars
  BY <1>9, QuietTimers DEF vars
<1>10. QED
  BY <1>1, <1>2, <1>3, <1>4, <1>5, <1>6, <1>7, <1>8, <1>9 DEF Next

\* Whoever begins waits, cancels them and closes sessions by their ID, no timer
\* outlives its session.
THEOREM TimersHaveSessions == Spec => []TimerHasSession
<1>1. Init => TimersInv
  BY DEF Init, TimersInv, TimerHasSession
<1>2. TimersInv => TimerHasSession
  BY DEF TimersInv
<1>3. QED
  BY <1>1, <1>2, NextTimers, TablesAreSound, PTL DEF Spec

-----------------------------------------------------------------------------
(***************************************************************************)
(* The tables implement SessionLife. What is listed is open and in nobody's *)
(* hands, and what is in somebody's hands was opened: this makes the four   *)
(* places a session can be in those of one life.                            *)
(***************************************************************************)
LifeInv ==
    /\ taken \subseteq 1..opened
    /\ \A i \in Ids : table[i] # Nil => table[i] \in open /\ table[i] \notin taken

LVars == <<end, [n \in Sessions |-> Life(n)], idOf>>
LifeStep == [Lives!Next]_LVars

LEMMA LifeInitInv == Init => LifeInv
BY DEF Init, LifeInv

\* Sessions are taken out, by ID.
LEMMA TakeIsLife ==
    ASSUME Inv, LifeInv, NEW gone \in SUBSET Ids,
           table' = [j \in Ids |-> IF j \in gone THEN Nil ELSE table[j]],
           taken' = taken \cup UNION {Entry(j) : j \in gone},
           UNCHANGED <<end, opened, idOf, open>>
    PROVE  LifeInv' /\ LifeStep
<1> DEFINE some == {n \in Sessions : Life(n) = "listed" /\ idOf[n] \in gone}
<1>1. /\ \A j \in Ids : table[j] \in 0..opened /\ (table[j] # Nil => idOf[table[j]] = j)
      /\ opened \in Nat /\ idOf \in [Sessions -> Ids]
      /\ \A j \in Ids : table[j] # Nil => table[j] \in Sessions /\ table[j] \in 1..opened
  BY NilIsNoSession DEF Inv, NumbersAreGiven, TypeOK, Nil
<1>2. \A n : n \in taken' <=> n \in taken \/ \E j \in gone : table[j] = n /\ n # Nil
  BY DEF Entry
<1>3. LifeInv'
  <2>1. \A n \in taken' : n \in 1..opened
    BY <1>1, <1>2 DEF LifeInv
  <2>2. ASSUME NEW j \in Ids, table'[j] # Nil
        PROVE  table'[j] \in open /\ table'[j] \notin taken'
    <3>1. j \notin gone /\ table'[j] = table[j] /\ table[j] \in open /\ table[j] \notin taken
      BY <2>2 DEF LifeInv
    <3>2. \A k \in gone : table[k] # table[j]
      BY <1>1, <2>2, <3>1
    <3>3. QED
      BY <1>2, <3>1, <3>2
  <2>3. taken' \subseteq 1..opened'
    BY <2>1
  <2>4. QED
    BY <2>2, <2>3 DEF LifeInv
<1>4. ASSUME NEW n \in Sessions
      PROVE  Life(n)' = IF n \in some THEN "taken" ELSE Life(n)
  <2>1. idOf[n] \in Ids /\ n # Nil /\ (\A j \in Ids : table[j] = n => j = idOf[n])
    BY <1>1, NilIsNoSession
  <2>2. CASE n > opened
    BY <2>2 DEF Life
  <2>3. CASE ~(n > opened) /\ table[idOf[n]] = n /\ idOf[n] \in gone
    BY <1>2, <2>1, <2>3 DEF Life
  <2>4. CASE ~(n > opened) /\ table[idOf[n]] = n /\ idOf[n] \notin gone
    BY <2>1, <2>4 DEF Life
  <2>5. CASE ~(n > opened) /\ table[idOf[n]] # n
    <3>1. (n \in taken' <=> n \in taken) /\ table'[idOf[n]] # n
      BY <1>2, <2>1, <2>5
    <3>2. QED
      BY <2>5, <3>1 DEF Life
  <2>6. QED
    BY <2>2, <2>3, <2>4, <2>5
<1>5. Lives!Take(some)
  <2>1. some \in SUBSET Sessions /\ \A n \in some : Life(n) = "listed"
    OBVIOUS
  <2> HIDE DEF some
  <2>2. QED
    BY <1>4, <2>1 DEF Lives!Take
<1>6. some \in SUBSET Sessions
  OBVIOUS
<1> HIDE DEF some
<1>7. QED
  BY <1>3, <1>5, <1>6 DEF LifeStep, Lives!Next

\* A session is opened.
LEMMA OpenIsLife ==
    ASSUME Inv, LifeInv, NEW i \in Ids, NEW closed, Open(i, closed),
           \/ end = "client" /\ closed = Entry(i)
           \/ end = "server" /\ closed = {}
    PROVE  LifeInv' /\ LifeStep
<1>0. PICK new \in Sessions : new = opened + 1
  BY SessionsAssumption DEF Open, Inv, TypeOK, Sessions
<1>1. /\ opened < MaxOpens /\ opened' = new /\ UNCHANGED <<end, taken>>
      /\ table' = [table EXCEPT ![i] = new]
      /\ idOf' = [idOf EXCEPT ![new] = i]
      /\ open' = (open \ closed) \cup {new}
  BY <1>0 DEF Open
<1>2. /\ \A j \in Ids : table[j] \in 0..opened /\ (table[j] # Nil => idOf[table[j]] = j)
      /\ opened \in Nat /\ idOf \in [Sessions -> Ids] /\ table = [j \in Ids |-> table[j]]
      /\ \A j \in Ids : table[j] # Nil => table[j] \in Sessions /\ table[j] \in 1..opened
      /\ open \subseteq 1..opened
  BY NilIsNoSession DEF Inv, NumbersAreGiven, TypeOK, Nil
<1>3. new \in Sessions /\ new # Nil /\ new \in 1..new /\ new \notin 1..opened
      /\ 1..opened \subseteq 1..new /\ Sessions \subseteq Nat
  BY <1>0, <1>2, SessionsAssumption DEF Sessions, Nil
<1>4. LifeInv'
  <2>1. taken' \subseteq 1..opened'
    BY <1>1, <1>3 DEF LifeInv
  <2>2. ASSUME NEW j \in Ids, table'[j] # Nil
        PROVE  table'[j] \in open' /\ table'[j] \notin taken'
    <3>1. CASE j = i
      <4>1. table'[j] = new
        BY <1>1, <1>2, <3>1
      <4>2. QED
        BY <1>1, <1>3, <4>1 DEF LifeInv
    <3>2. CASE j # i
      <4>1. table'[j] = table[j]
        BY <1>1, <1>2, <3>2
      <4>2. table[j] \in open /\ table[j] \notin taken /\ table[j] \notin Entry(i)
        BY <1>2, <2>2, <3>2, <4>1 DEF LifeInv, Entry
      <4>3. QED
        BY <1>1, <4>1, <4>2
    <3>3. QED
      BY <3>1, <3>2
  <2>3. QED
    BY <2>1, <2>2 DEF LifeInv
<1>5. Life(new) = "unborn" /\ Life(new)' = "listed"
  <2>1. new > opened /\ ~(new > opened')
    BY <1>0, <1>1, <1>2
  <2>2. table'[idOf'[new]] = new
    BY <1>1, <1>2, <1>3
  <2>3. QED
    BY <2>1, <2>2 DEF Life
<1>6. ASSUME NEW m \in Sessions, m # new
      PROVE  Life(m)' = IF Life(m) = "listed" /\ idOf[m] = i THEN Lives!Replaced ELSE Life(m)
  <2>1. /\ idOf'[m] = idOf[m] /\ idOf[m] \in Ids /\ m # Nil /\ m \in Nat
        /\ (m > opened' <=> m > opened)
    BY <1>0, <1>1, <1>2, <1>3, <1>6, NilIsNoSession
  <2>2. CASE m > opened
    BY <2>1, <2>2 DEF Life
  <2>3. CASE ~(m > opened) /\ idOf[m] # i
    <3>1. table'[idOf[m]] = table[idOf[m]]
      BY <1>1, <1>2, <2>1, <2>3
    <3>2. m \in open' <=> m \in open
      BY <1>1, <1>2, <1>6, <2>3 DEF Entry
    <3>3. QED
      BY <1>1, <2>1, <2>3, <3>1, <3>2 DEF Life
  <2>4. CASE ~(m > opened) /\ idOf[m] = i /\ table[i] # m
    <3>1. table'[i] # m
      BY <1>1, <1>2, <1>6, <2>4
    <3>2. m \in open' <=> m \in open
      BY <1>1, <1>6, <2>4 DEF Entry
    <3>3. QED
      BY <1>1, <2>1, <2>4, <3>1, <3>2 DEF Life
  <2>5. CASE ~(m > opened) /\ idOf[m] = i /\ table[i] = m
    <3>1. m \in open /\ m \notin taken
      BY <2>1, <2>5 DEF LifeInv
    <3>2. table'[i] # m
      BY <1>1, <1>2, <1>6, <2>5
    <3>3. Life(m) = "listed"
      BY <2>5 DEF Life
    <3>4. m \in open' <=> end = "server"
      BY <1>1, <1>6, <2>1, <2>5, <3>1 DEF Entry
    <3>5. Life(m)' = IF end = "server" THEN "forgotten" ELSE "closed"
      BY <1>1, <2>1, <2>5, <3>1, <3>2, <3>4 DEF Life
    <3>6. QED
      BY <2>5, <3>3, <3>5 DEF Lives!Replaced
  <2>6. QED
    BY <2>2, <2>3, <2>4, <2>5
<1>7. Lives!Open(new, i)
  BY <1>1, <1>3, <1>5, <1>6 DEF Lives!Open
<1>8. QED
  BY <1>3, <1>4, <1>7 DEF LifeStep, Lives!Next

\* A session is closed by whoever took it.
LEMMA CloseIsLife ==
    ASSUME Inv, LifeInv, NEW n \in Sessions, Closes(n)
    PROVE  LifeInv' /\ LifeStep
<1>1. /\ n \in taken /\ taken' = taken \ {n} /\ open' = open \ {n}
      /\ UNCHANGED <<end, opened, table, idOf>>
  BY DEF Closes, ServerCloses, ClientCloses
<1>2. /\ \A j \in Ids : table[j] # n
      /\ idOf[n] \in Ids /\ n \in 1..opened /\ opened \in Nat
  BY <1>1, NilIsNoSession DEF LifeInv, Inv, TypeOK
<1>3. LifeInv'
  BY <1>1, <1>2 DEF LifeInv
<1>4. Life(n) = "taken" /\ Life(n)' = "closed"
  BY <1>1, <1>2 DEF Life
<1>5. \A m \in Sessions \ {n} : Life(m)' = Life(m)
  BY <1>1 DEF Life
<1>6. Lives!Close(n)
  BY <1>1, <1>4, <1>5 DEF Lives!Close
<1>7. QED
  BY <1>3, <1>6 DEF LifeStep, Lives!Next

\* The life of a session is not touched.
LEMMA NoLife ==
    ASSUME LifeInv, UNCHANGED <<end, opened, table, idOf, open, taken>>
    PROVE  LifeInv' /\ LifeStep
BY DEF LifeInv, LifeStep, LVars, Life

LEMMA NextIsLife == Inv /\ LifeInv /\ [Next]_vars => LifeInv' /\ LifeStep
<1> SUFFICES ASSUME Inv, LifeInv, [Next]_vars PROVE LifeInv' /\ LifeStep
  OBVIOUS
<1>1. ASSUME NEW i \in Ids, Take(i), UNCHANGED <<end, opened, idOf, open>>
      PROVE  LifeInv' /\ LifeStep
  <2>1. /\ {i} \in SUBSET Ids
        /\ table' = [j \in Ids |-> IF j \in {i} THEN Nil ELSE table[j]]
        /\ taken' = taken \cup UNION {Entry(j) : j \in {i}}
    BY <1>1 DEF Take, Inv, TypeOK
  <2>2. QED
    BY <1>1, <2>1, TakeIsLife
<1>2. ASSUME NEW i \in Ids, PeerCloses(i) \/ WriteFails(i) PROVE LifeInv' /\ LifeStep
  BY <1>1, <1>2 DEF PeerCloses, WriteFails
<1>3. ASSUME NEW n \in Sessions, ServerReaderEnds(n) \/ ClientReadFails(n)
      PROVE  LifeInv' /\ LifeStep
  <2>1. idOf[n] \in Ids
    BY DEF Inv, TypeOK
  <2>2. QED
    BY <1>1, <1>3, <2>1 DEF ServerReaderEnds, ClientReadFails
<1>4. CASE ClientLosesControl
  <2>1. /\ Ids \in SUBSET Ids
        /\ table' = [j \in Ids |-> IF j \in Ids THEN Nil ELSE table[j]]
        /\ taken' = taken \cup UNION {Entry(j) : j \in Ids}
        /\ UNCHANGED <<end, opened, idOf, open>>
    BY <1>4 DEF ClientLosesControl
  <2>2. QED
    BY <2>1, TakeIsLife
<1>5. ASSUME NEW i \in Ids, ServerOpens(i) \/ ClientOpens(i) PROVE LifeInv' /\ LifeStep
  BY <1>5, OpenIsLife DEF ServerOpens, ClientOpens
<1>6. ASSUME NEW n \in Sessions, Closes(n) PROVE LifeInv' /\ LifeStep
  BY <1>6, CloseIsLife
<1>7. ASSUME NEW c \in Timeouts, Timeout(c) PROVE LifeInv' /\ LifeStep
  <2>1. CASE GiveUp(c)
    <3>1. timeout[c].id \in Ids
      BY DEF Inv, TypeOK, Calls
    <3>2. QED
      BY <1>1, <2>1, <3>1 DEF GiveUp
  <2>2. CASE LoadIdle(c) \/ StoreIdle(c) \/ TestIdle(c) \/ WaitAgain(c)
    BY <2>2, NoLife DEF LoadIdle, StoreIdle, TestIdle, WaitAgain
  <2>3. QED
    BY <1>7, <2>1, <2>2 DEF Timeout
<1>8. ASSUME NEW n \in Sessions,
             \/ ServerReads(n) \/ ServerSends(n) \/ ServerReadFails(n)
             \/ ClientReads(n) \/ ClientCancels(n) \/ TimerFires(n)
      PROVE  LifeInv' /\ LifeStep
  BY <1>8, NoLife
  DEF ServerReads, ServerSends, ServerReadFails, ClientReads, ClientCancels, TimerFires
<1>9. ASSUME NEW i \in Ids, ClientGetsData(i) PROVE LifeInv' /\ LifeStep
  BY <1>9, NoLife DEF ClientGetsData
<1>10. CASE UNCHANGED vars
  BY <1>10, NoLife DEF vars
<1>11. QED
  BY <1>2, <1>3, <1>4, <1>5, <1>6, <1>7, <1>8, <1>9, <1>10 DEF Next, Peer, ReadFails

\* The tables keep the promise of SessionLife: a session is listed once, taken out
\* once and closed by whoever took it, although all of them go by its ID.
THEOREM TablesImplementSessionLife == Spec => ImplementsSessionLife
<1>1. Init => Lives!Init
  <2> SUFFICES ASSUME Init PROVE Lives!Init
    OBVIOUS
  <2>1. ASSUME NEW n \in Sessions PROVE Life(n) = "unborn"
    BY SessionsAssumption DEF Init, Life, Sessions
  <2>2. idOf \in [Sessions -> Ids]
    BY InitInv DEF Inv, TypeOK
  <2>3. QED
    BY <2>1, <2>2 DEF Init, Lives!Init
<1>2. QED
  BY <1>1, LifeInitInv, NextIsLife, TablesAreSound, PTL
  DEF Spec, ImplementsSessionLife, Lives!Spec, LifeStep, LVars, Lives!vars

=============================================================================
