----------------------------- MODULE PartsProofs ----------------------------
(***************************************************************************)
(* Theorems about the small parts of the system that MCParts checks: the    *)
(* accounts for any number of rows, the locks for any goroutines, the       *)
(* client's streams for any finite set of them, the pool for any workers.   *)
(***************************************************************************)
EXTENDS Accounts, ServerLocks, ClientStreams, WorkerPool, FiniteSetTheorems, TLAPS

-----------------------------------------------------------------------------
(* ServerLocks.                                                            *)

\* A push is among the readers as long as it writes, and no writer changes the
\* table while there is a reader.
LocksInv ==
    /\ at \in [Goroutines -> Places]
    /\ shown \in [Goroutines -> Nat]
    /\ \A g \in Goroutines : at[g] \in {"tunnels", "metrics"} =>
          g \in readers /\ shown[g] = clients
    /\ clients \in Nat

LEMMA LocksInitInv == LocksInit => LocksInv
BY DEF LocksInit, LocksInv, Places, Tasks

\* A goroutine that gives its read lock back takes nothing from the others.
LEMMA ReadUnlockInv ==
    ASSUME LocksInv, NEW g \in Goroutines, NEW from, ReadUnlock(g, from)
    PROVE  LocksInv'
<1> USE DEF LocksInv, ReadUnlock, Go
<1>1. /\ at' \in [Goroutines -> Places] /\ at'[g] = "away"
      /\ shown' \in [Goroutines -> Nat] /\ clients' = clients
  BY DEF Places, Tasks
<1>2. ASSUME NEW h \in Goroutines, at'[h] \in {"tunnels", "metrics"}
      PROVE  h \in readers' /\ shown'[h] = clients'
  <2>1. h # g
    BY <1>1, <1>2
  <2>2. at'[h] = at[h] /\ shown'[h] = shown[h]
    BY <2>1
  <2>3. QED
    BY <1>1, <1>2, <2>1, <2>2
<1>3. QED
  BY <1>1, <1>2

LEMMA LocksNextInv == LocksInv /\ [LocksNext]_lockVars => LocksInv'
<1> SUFFICES ASSUME LocksInv, [LocksNext]_lockVars PROVE LocksInv'
  OBVIOUS
<1> USE DEF LocksInv, Places, Tasks, Go
<1>1. CASE UNCHANGED lockVars
  BY <1>1 DEF lockVars
<1>2. ASSUME NEW g \in Goroutines, Enters(g) PROVE LocksInv'
  BY <1>2 DEF Enters
<1>3. ASSUME NEW g \in Goroutines, Announce(g) PROVE LocksInv'
  BY <1>3 DEF Announce
<1>4. ASSUME NEW g \in Goroutines, GetNextPublicPort(g) PROVE LocksInv'
  BY <1>4 DEF GetNextPublicPort, LockPort, UnlockPort, LockReservations, UnlockReservations
<1>5. ASSUME NEW g \in Goroutines, ReleasePort(g) PROVE LocksInv'
  BY <1>5 DEF ReleasePort, LockPort, UnlockPort
<1>6. ASSUME NEW g \in Goroutines, AddClient(g) PROVE LocksInv'
  <2>1. /\ \A h \in Goroutines : at[h] \notin {"tunnels", "metrics"}
        /\ clients' \in Nat /\ shown' = shown
    <3>1. readers = {} /\ shown' = shown
      BY <1>6 DEF AddClient, MayWrite
    <3>2. clients' \in Nat
      <4>1. clients' = clients + 1 \/ clients' = clients
        BY <1>6 DEF AddClient
      <4>2. clients \in Nat
        OBVIOUS
      <4> HIDE DEF LocksInv
      <4>3. QED
        BY <4>1, <4>2
    <3>3. QED
      BY <3>1, <3>2
  <2>2. /\ at' \in [Goroutines -> Places]
        /\ \A h \in Goroutines : at'[h] \notin {"tunnels", "metrics"}
    <3>1. at' = [at EXCEPT ![g] = "away"]
      BY <1>6 DEF AddClient
    <3>2. QED
      BY <2>1, <3>1
  <2>3. QED
    BY <2>1, <2>2
<1>7. ASSUME NEW g \in Goroutines, RemoveOther(g) PROVE LocksInv'
  BY <1>7 DEF RemoveOther
<1>8. ASSUME NEW g \in Goroutines, RemoveFound(g) PROVE LocksInv'
  <2>1. /\ \A h \in Goroutines : at[h] \notin {"tunnels", "metrics"}
        /\ clients' \in Nat /\ shown' = shown
    <3>1. readers = {} /\ shown' = shown
      BY <1>8 DEF RemoveFound, MayWrite
    <3>2. clients' \in Nat
      <4>1. clients > 0 /\ clients' = clients - 1
        BY <1>8 DEF RemoveFound
      <4>2. clients \in Nat
        OBVIOUS
      <4> HIDE DEF LocksInv
      <4>3. QED
        BY <4>1, <4>2
    <3>3. QED
      BY <3>1, <3>2
  <2>2. /\ at' \in [Goroutines -> Places]
        /\ \A h \in Goroutines : at'[h] \notin {"tunnels", "metrics"}
    <3>1. \E to \in {"reserve", "delete"} : at' = [at EXCEPT ![g] = to]
      BY <1>8 DEF RemoveFound
    <3>2. QED
      BY <2>1, <3>1
  <2>3. QED
    BY <2>1, <2>2
<1>9. ASSUME NEW g \in Goroutines, Reserve(g) PROVE LocksInv'
  BY <1>9 DEF Reserve, LockPort, UnlockPort, LockReservations, UnlockReservations
<1>10. ASSUME NEW g \in Goroutines, RemoveReturns(g) PROVE LocksInv'
  BY <1>10 DEF RemoveReturns
<1>11. ASSUME NEW g \in Goroutines, GetClient(g) PROVE LocksInv'
  <2>1. CASE ReadLock(g, "getClient", "get") /\ UNCHANGED shown
    BY <2>1 DEF ReadLock
  <2>2. CASE ReadUnlock(g, "get")
    BY <2>2, ReadUnlockInv
  <2>3. QED
    BY <1>11, <2>1, <2>2 DEF GetClient
<1>12. ASSUME NEW g \in Goroutines, CleanupPortReservations(g) PROVE LocksInv'
  BY <1>12 DEF CleanupPortReservations, LockReservations, UnlockReservations
<1>13. ASSUME NEW g \in Goroutines, ListTunnels(g) PROVE LocksInv'
  BY <1>13 DEF ListTunnels, ReadLock
<1>14. ASSUME NEW g \in Goroutines, WriteTunnels(g) PROVE LocksInv'
  BY <1>14 DEF WriteTunnels
<1>15. ASSUME NEW g \in Goroutines, WriteMetrics(g) \/ WriteFails(g) PROVE LocksInv'
  BY <1>15, ReadUnlockInv DEF WriteMetrics, WriteFails
<1>16. QED
  BY <1>1, <1>2, <1>3, <1>4, <1>5, <1>6, <1>7, <1>8, <1>9, <1>10, <1>11, <1>12, <1>13,
     <1>14, <1>15
  DEF LocksNext, Steps

\* The two messages of a push agree, for any number of browsers, registrations and
\* teardowns, and however long a browser takes.
THEOREM PushesAreSnapshots == LocksSpec => []PushIsOneSnapshot
<1>1. LocksInv => PushIsOneSnapshot
  BY DEF LocksInv, PushIsOneSnapshot
<1>2. QED
  BY LocksInitInv, LocksNextInv, <1>1, PTL DEF LocksSpec

LEMMA LocksTypeInit == LocksInit => LocksTypeOK
<1>1. 0 \in 0..MaxClients
  BY LocksAssumption
<1>2. QED
  BY <1>1 DEF LocksInit, LocksTypeOK, Places, Tasks

LEMMA LocksTypeNext == LocksTypeOK /\ [LocksNext]_lockVars => LocksTypeOK'
<1> SUFFICES ASSUME LocksTypeOK, [LocksNext]_lockVars PROVE LocksTypeOK'
  OBVIOUS
<1>0. 0 \in 0..MaxClients
  BY LocksAssumption
<1> USE DEF LocksTypeOK, Places, Tasks, Go
<1>1. CASE UNCHANGED lockVars
  BY <1>1 DEF lockVars
<1>2. ASSUME NEW g \in Goroutines, Enters(g) PROVE LocksTypeOK'
  BY <1>2 DEF Enters
<1>3. ASSUME NEW g \in Goroutines, Announce(g) PROVE LocksTypeOK'
  BY <1>3 DEF Announce
<1>4. ASSUME NEW g \in Goroutines, GetNextPublicPort(g) PROVE LocksTypeOK'
  BY <1>4 DEF GetNextPublicPort, LockPort, UnlockPort, LockReservations, UnlockReservations
<1>5. ASSUME NEW g \in Goroutines, ReleasePort(g) \/ Reserve(g) PROVE LocksTypeOK'
  BY <1>5 DEF ReleasePort, Reserve, LockPort, UnlockPort, LockReservations,
              UnlockReservations
<1>6. ASSUME NEW g \in Goroutines, AddClient(g) PROVE LocksTypeOK'
  <2>1. clients' = clients \/ (clients < MaxClients /\ clients' = clients + 1)
    BY <1>6 DEF AddClient
  <2>2. clients \in 0..MaxClients
    OBVIOUS
  <2>3. clients' \in 0..MaxClients
    <3> HIDE DEF LocksTypeOK
    <3>1. QED
      BY <2>1, <2>2, LocksAssumption
  <2>4. at' \in [Goroutines -> Places]
    BY <1>6 DEF AddClient
  <2>5. QED
    BY <1>6, <2>3, <2>4 DEF AddClient
<1>7. ASSUME NEW g \in Goroutines, RemoveOther(g) \/ RemoveReturns(g) PROVE LocksTypeOK'
  BY <1>7 DEF RemoveOther, RemoveReturns
<1>8. ASSUME NEW g \in Goroutines, RemoveFound(g) PROVE LocksTypeOK'
  <2>1. clients > 0 /\ clients' = clients - 1
    BY <1>8 DEF RemoveFound
  <2>2. clients \in 0..MaxClients
    OBVIOUS
  <2>3. clients' \in 0..MaxClients
    <3> HIDE DEF LocksTypeOK
    <3>1. QED
      BY <2>1, <2>2, LocksAssumption
  <2>4. at' \in [Goroutines -> Places]
    BY <1>8 DEF RemoveFound
  <2>5. QED
    BY <1>8, <2>3, <2>4 DEF RemoveFound
<1>9. ASSUME NEW g \in Goroutines, NEW from, ReadUnlock(g, from) PROVE LocksTypeOK'
  <2>1. at' \in [Goroutines -> Places]
    <3>1. at' = [at EXCEPT ![g] = "away"]
      BY <1>9 DEF ReadUnlock
    <3>2. QED
      BY <3>1
  <2>2. shown' \in [Goroutines -> 0..MaxClients]
    <3>1. shown' = [shown EXCEPT ![g] = 0]
      BY <1>9 DEF ReadUnlock
    <3>2. QED
      BY <1>0, <3>1
  <2>3. readers' \subseteq Goroutines
    BY <1>9 DEF ReadUnlock
  <2>4. QED
    BY <1>9, <2>1, <2>2, <2>3 DEF ReadUnlock
<1>10. ASSUME NEW g \in Goroutines, GetClient(g) PROVE LocksTypeOK'
  BY <1>9, <1>10 DEF GetClient, ReadLock
<1>11. ASSUME NEW g \in Goroutines, CleanupPortReservations(g) PROVE LocksTypeOK'
  BY <1>11 DEF CleanupPortReservations, LockReservations, UnlockReservations
<1>12. ASSUME NEW g \in Goroutines, ListTunnels(g) PROVE LocksTypeOK'
  BY <1>12 DEF ListTunnels, ReadLock
<1>13. ASSUME NEW g \in Goroutines, WriteTunnels(g) \/ WriteMetrics(g) \/ WriteFails(g)
       PROVE  LocksTypeOK'
  BY <1>9, <1>13 DEF WriteTunnels, WriteMetrics, WriteFails
<1>14. QED
  BY <1>1, <1>2, <1>3, <1>4, <1>5, <1>6, <1>7, <1>8, <1>10, <1>11, <1>12, <1>13
  DEF LocksNext, Steps

\* Every variable of the locks keeps its type: the table within its bound, and a lock
\* in the hands of one goroutine or nobody.
THEOREM LocksTypeCorrect == LocksSpec => []LocksTypeOK
BY LocksTypeInit, LocksTypeNext, PTL DEF LocksSpec

\* Who is announced or writes is in one of the two functions that do.
WriterIsThere(g) == writer = g => at[g] \in Writes \cup {"addClient", "removeClient"}

LockInv == LocksTypeOK /\ LocksExclude /\ \A g \in Goroutines : WriterIsThere(g)

LEMMA LockInitInv == LocksInit => LockInv
<1> SUFFICES ASSUME LocksInit PROVE LockInv
  OBVIOUS
<1>1. LocksExclude
  BY LocksAssumption
  DEF LocksInit, LocksExclude, Excludes, Writes, Reads, HasPort, HasReservations
<1>2. QED
  BY <1>1, LocksTypeInit, LocksAssumption DEF LockInv, WriterIsThere, LocksInit

\* A goroutine that moves leaves the locks of the others, and who it leaves them to
\* is a question of where it comes from and where it goes.
LEMMA LockNextInv == LockInv /\ [LocksNext]_lockVars => LockInv'
<1> SUFFICES ASSUME LockInv, [LocksNext]_lockVars, NEW h \in Goroutines
             PROVE  Excludes(h)' /\ WriterIsThere(h)'
  BY LocksTypeNext DEF LockInv, LocksExclude
<1>0. /\ at \in [Goroutines -> Places] /\ Nobody \notin Goroutines
      /\ writer \in Goroutines \cup {Nobody}
  BY LocksAssumption DEF LockInv, LocksTypeOK
<1>i. \A g \in Goroutines : Excludes(g) /\ WriterIsThere(g)
  BY DEF LockInv, LocksExclude
<1> USE DEF Excludes, WriterIsThere, Writes, Reads, HasPort, HasReservations
<1>m. ASSUME NEW g \in Goroutines, NEW to, at' = [at EXCEPT ![g] = to]
      PROVE  /\ at'[g] = to /\ \A k \in Goroutines \ {g} : at'[k] = at[k]
             /\ Excludes(g) /\ Excludes(h) /\ WriterIsThere(g) /\ WriterIsThere(h)
  BY <1>0, <1>i, <1>m
<1> DEFINE Goal == Excludes(h)' /\ WriterIsThere(h)'
<1>1. CASE UNCHANGED lockVars
  BY <1>0, <1>i, <1>1 DEF lockVars
<1>2. ASSUME NEW g \in Goroutines, Enters(g) PROVE Goal
  BY <1>0, <1>m, <1>2 DEF Enters, Tasks, Go
<1>3. ASSUME NEW g \in Goroutines, Announce(g) PROVE Goal
  BY <1>0, <1>i, <1>3 DEF Announce
<1>4. ASSUME NEW g \in Goroutines, GetNextPublicPort(g) PROVE Goal
  <2>1. ASSUME NEW to \in {"look up", "grant"}, LockPort(g, "getNextPublicPort", to) PROVE Goal
    BY <1>0, <1>m, <2>1 DEF LockPort, Go
  <2>2. CASE LockReservations(g, "look up", "looked up") \/ LockReservations(g, "clear", "cleared")
    BY <1>0, <1>m, <2>2 DEF LockReservations, Go
  <2>3. ASSUME NEW to \in {"clear", "grant"}, UnlockReservations(g, "looked up", to) PROVE Goal
    BY <1>0, <1>m, <2>3 DEF UnlockReservations, Go
  <2>4. CASE UnlockReservations(g, "cleared", "grant")
    BY <1>0, <1>m, <2>4 DEF UnlockReservations, Go
  <2>5. CASE UnlockPort(g, "grant", "away")
    BY <1>0, <1>m, <2>5 DEF UnlockPort, Go
  <2>6. QED
    BY <1>4, <2>1, <2>2, <2>3, <2>4, <2>5 DEF GetNextPublicPort
<1>5. ASSUME NEW g \in Goroutines, ReleasePort(g) PROVE Goal
  <2>1. CASE LockPort(g, "releasePort", "released")
    BY <1>0, <1>m, <2>1 DEF LockPort, Go
  <2>2. CASE UnlockPort(g, "released", "away")
    BY <1>0, <1>m, <2>2 DEF UnlockPort, Go
  <2>3. QED
    BY <1>5, <2>1, <2>2 DEF ReleasePort
<1>6. ASSUME NEW g \in Goroutines, AddClient(g) \/ RemoveOther(g) PROVE Goal
  <2>1. CASE AddClient(g)
    BY <1>0, <1>m, <2>1 DEF AddClient, MayWrite, Go
  <2>2. CASE RemoveOther(g)
    BY <1>0, <1>m, <2>2 DEF RemoveOther, MayWrite, Go
  <2>3. QED
    BY <1>6, <2>1, <2>2
<1>7. ASSUME NEW g \in Goroutines, RemoveFound(g) PROVE Goal
  BY <1>0, <1>m, <1>7 DEF RemoveFound, MayWrite, Go
<1>8. ASSUME NEW g \in Goroutines, Reserve(g) PROVE Goal
  <2>1. CASE LockReservations(g, "reserve", "reserved")
    BY <1>0, <1>m, <2>1 DEF LockReservations, Go
  <2>2. CASE UnlockReservations(g, "reserved", "release")
    BY <1>0, <1>m, <2>2 DEF UnlockReservations, Go
  <2>3. CASE LockPort(g, "release", "found")
    BY <1>0, <1>m, <2>3 DEF LockPort, Go
  <2>4. CASE UnlockPort(g, "found", "delete")
    BY <1>0, <1>m, <2>4 DEF UnlockPort, Go
  <2>5. QED
    BY <1>8, <2>1, <2>2, <2>3, <2>4 DEF Reserve
<1>9. ASSUME NEW g \in Goroutines, RemoveReturns(g) PROVE Goal
  BY <1>0, <1>m, <1>9 DEF RemoveReturns, Go
<1>r. ASSUME NEW g \in Goroutines, NEW from \in Reads, ReadUnlock(g, from) PROVE Goal
  <2>1. at[g] = from /\ at' = [at EXCEPT ![g] = "away"] /\ readers' = readers \ {g}
    BY <1>r DEF ReadUnlock, Go
  <2>2. UNCHANGED <<writer, portMu, reservationMu>>
    BY <1>r DEF ReadUnlock
  <2>3. CASE h = g
    BY <1>0, <1>m, <2>1, <2>2, <2>3
  <2>4. CASE h # g
    BY <1>0, <1>m, <2>1, <2>2, <2>4
  <2>5. QED
    BY <2>3, <2>4
<1>10. ASSUME NEW g \in Goroutines, GetClient(g) PROVE Goal
  <2>1. CASE ReadLock(g, "getClient", "get")
    BY <1>0, <1>m, <2>1 DEF ReadLock, Go
  <2>2. CASE ReadUnlock(g, "get")
    BY <1>r, <2>2
  <2>3. QED
    BY <1>10, <2>1, <2>2 DEF GetClient
<1>11. ASSUME NEW g \in Goroutines, CleanupPortReservations(g) PROVE Goal
  <2>1. CASE LockReservations(g, "cleanupPortReservations", "clean")
    BY <1>0, <1>m, <2>1 DEF LockReservations, Go
  <2>2. CASE UnlockReservations(g, "clean", "away")
    BY <1>0, <1>m, <2>2 DEF UnlockReservations, Go
  <2>3. QED
    BY <1>11, <2>1, <2>2 DEF CleanupPortReservations
<1>12. ASSUME NEW g \in Goroutines, ListTunnels(g) PROVE Goal
  BY <1>0, <1>m, <1>12 DEF ListTunnels, ReadLock, Go
<1>13. ASSUME NEW g \in Goroutines, WriteTunnels(g) PROVE Goal
  BY <1>0, <1>m, <1>13 DEF WriteTunnels, Go
<1>14. ASSUME NEW g \in Goroutines, WriteMetrics(g) \/ WriteFails(g) PROVE Goal
  BY <1>r, <1>14 DEF WriteMetrics, WriteFails
<1>15. QED
  BY <1>1, <1>2, <1>3, <1>4, <1>5, <1>6, <1>7, <1>8, <1>9, <1>10, <1>11, <1>12, <1>13,
     <1>14
  DEF LocksNext, Steps

\* For any number of goroutines, the table of clients has one writer and then no
\* reader, and a mutex is in the hands of the goroutine that is between its calls.
THEOREM LocksAreExclusive == LocksSpec => []LocksExclude
<1>1. LockInv => LocksExclude
  BY DEF LockInv
<1>2. QED
  BY LockInitInv, LockNextInv, <1>1, PTL DEF LocksSpec

\* The locks are taken in one order, the table, portMu, reservationMu: of any
\* goroutines the one that is furthest waits for none of the others.
THEOREM NobodyWaitsInARing == LocksSpec => []NoRing
<1>1. LockInv => NoRing
  <2> SUFFICES ASSUME LockInv, NEW some \in SUBSET Goroutines, some # {}
               PROVE  \E g \in some : WaitsFor(g) \cap some = {}
    BY DEF NoRing
  <2> USE DEF WaitsFor, AsksPort, AsksReservations, Excludes, WriterIsThere, Writes, Reads,
          HasPort, HasReservations
  <2>0. \A g \in Goroutines : Excludes(g) /\ WriterIsThere(g)
    BY DEF LockInv, LocksExclude
  <2>1. CASE \E g \in some : at[g] \in HasReservations
    BY <2>1
  <2>2. CASE /\ ~\E g \in some : at[g] \in HasReservations
             /\ \E g \in some : at[g] \in AsksReservations
    <3>1. PICK g \in some : at[g] \in AsksReservations
      BY <2>2
    <3>2. WaitsFor(g) \cap some = {}
      BY <2>0, <2>2, <3>1
    <3>3. QED
      BY <3>2
  <2>3. CASE /\ ~\E g \in some : at[g] \in AsksReservations
             /\ \E g \in some : at[g] \in HasPort
    BY <2>3
  <2>4. CASE /\ ~\E g \in some : at[g] \in HasPort
             /\ \E g \in some : at[g] \in AsksPort
    <3>1. PICK g \in some : at[g] \in AsksPort
      BY <2>4
    <3>2. WaitsFor(g) \cap some = {}
      BY <2>0, <2>4, <3>1
    <3>3. QED
      BY <3>2
  <2>5. CASE /\ ~\E g \in some : at[g] \in AsksPort \cup AsksReservations
             /\ \E g \in some : at[g] \in Writes \cup Reads
    BY <2>5
  <2>6. CASE /\ ~\E g \in some : at[g] \in AsksPort \cup AsksReservations
             /\ ~\E g \in some : at[g] \in Writes \cup Reads
    <3>1. CASE writer \in some
      <4>1. at[writer] \in {"addClient", "removeClient"}
        BY <2>0, <2>6, <3>1
      <4>2. WaitsFor(writer) \cap some = {}
        BY <2>0, <2>6, <3>1, <4>1
      <4>3. QED
        BY <3>1, <4>2
    <3>2. CASE writer \notin some
      <4>1. \A g \in some : WaitsFor(g) \cap some = {}
        BY <2>6, <3>2
      <4>2. QED
        BY <4>1
    <3>3. QED
      BY <3>1, <3>2
  <2>7. QED
    BY <2>1, <2>2, <2>3, <2>4, <2>5, <2>6
<1>2. QED
  BY LockInitInv, LockNextInv, <1>1, PTL DEF LocksSpec

-----------------------------------------------------------------------------
(* ClientStreams.                                                          *)

\* Where handleProxy is tells which connections there are, and a stream whose
\* number was given up has nothing left that could lower it.
StreamInv(s) ==
    /\ handler[s] # "returned" => copiers[s] = {}
    /\ handler[s] = "none" => localConn[s] = "none"
    /\ handler[s] \in {"none", "dialled", "active", "counted"} => srvConn[s] = "none"
    /\ s \in uncounted => handler[s] = "returned" /\ copiers[s] = {}
    /\ handler[s] = "returned" /\ copiers[s] = {} =>
          localConn[s] \in {"none", "closed"} /\ srvConn[s] \in {"none", "closed"}

Held == {s \in Streams : Counted(s) \/ s \in uncounted}

StreamsInv ==
    /\ StreamsTypeOK
    /\ \A s \in Streams : StreamInv(s)
    /\ ActiveCountsStreams

LEMMA StreamsInitInv == StreamsInit => StreamsInv
<1> SUFFICES ASSUME StreamsInit PROVE StreamsInv
  OBVIOUS
<1>1. StreamsTypeOK /\ \A s \in Streams : StreamInv(s)
  BY DEF StreamsInit, StreamsTypeOK, StreamInv, Conns
<1>2. Held = {}
  BY DEF StreamsInit, Held, Counted
<1>3. ActiveCountsStreams
  BY <1>2, FS_EmptySet DEF StreamsInit, ActiveCountsStreams, Held
<1>4. QED
  BY <1>1, <1>3 DEF StreamsInv

\* A step of a stream keeps the types and leaves every stream as it should be.
LEMMA StreamStepInv ==
    ASSUME StreamsTypeOK, \A s \in Streams : StreamInv(s), [StreamsNext]_streamVars
    PROVE  StreamsTypeOK' /\ \A s \in Streams : StreamInv(s)'
<1> USE DEF StreamsTypeOK, StreamInv, Conns, At, counts
<1>1. CASE UNCHANGED streamVars
  BY <1>1 DEF streamVars
<1>2. ASSUME NEW s \in Streams, HandleProxyReturns(s)
      PROVE  StreamsTypeOK' /\ \A r \in Streams : StreamInv(r)'
  BY <1>2 DEF HandleProxyReturns
<1>3. ASSUME NEW s \in Streams, DialBackend(s)
      PROVE  StreamsTypeOK' /\ \A r \in Streams : StreamInv(r)'
  BY <1>3 DEF DialBackend
<1>4. ASSUME NEW s \in Streams, CountActive(s)
      PROVE  StreamsTypeOK' /\ \A r \in Streams : StreamInv(r)'
  BY <1>4 DEF CountActive
<1>5. ASSUME NEW s \in Streams, CountTotal(s)
      PROVE  StreamsTypeOK' /\ \A r \in Streams : StreamInv(r)'
  BY <1>5 DEF CountTotal
<1>6. ASSUME NEW s \in Streams, DialServerFails(s)
      PROVE  StreamsTypeOK' /\ \A r \in Streams : StreamInv(r)'
  BY <1>6 DEF DialServerFails
<1>7. ASSUME NEW s \in Streams, DialServer(s)
      PROVE  StreamsTypeOK' /\ \A r \in Streams : StreamInv(r)'
  BY <1>7 DEF DialServer
<1>8. ASSUME NEW s \in Streams, HandshakeFails(s)
      PROVE  StreamsTypeOK' /\ \A r \in Streams : StreamInv(r)'
  BY <1>8 DEF HandshakeFails
<1>9. ASSUME NEW s \in Streams, StartCopiers(s)
      PROVE  StreamsTypeOK' /\ \A r \in Streams : StreamInv(r)'
  BY <1>9 DEF StartCopiers
<1>10. ASSUME NEW s \in Streams, BackendLeaves(s) \/ ServerLeaves(s)
       PROVE  StreamsTypeOK' /\ \A r \in Streams : StreamInv(r)'
  BY <1>10 DEF BackendLeaves, ServerLeaves
<1>11. ASSUME NEW s \in Streams, DownEnds(s) \/ UpEnds(s)
       PROVE  StreamsTypeOK' /\ \A r \in Streams : StreamInv(r)'
  BY <1>11 DEF DownEnds, UpEnds, CopyEnds
<1>12. QED
  BY <1>1, <1>2, <1>3, <1>4, <1>5, <1>6, <1>7, <1>8, <1>9, <1>10, <1>11 DEF StreamsNext

\* The number follows the set: it is raised with the stream that comes in and
\* lowered with the one that goes, each of them once.
LEMMA ActiveStepInv == StreamsInv /\ [StreamsNext]_streamVars => ActiveCountsStreams'
<1> SUFFICES ASSUME StreamsInv, [StreamsNext]_streamVars PROVE ActiveCountsStreams'
  OBVIOUS
<1>1. IsFiniteSet(Held)
  BY StreamsAssumption, FS_Subset DEF Held
<1>2. activeSessions = Cardinality(Held)
  BY DEF StreamsInv, ActiveCountsStreams, Held
<1>3. ASSUME Held' = Held, activeSessions' = activeSessions PROVE ActiveCountsStreams'
  BY <1>2, <1>3 DEF ActiveCountsStreams, Held
<1>4. ASSUME NEW s \in Streams, CountActive(s) PROVE ActiveCountsStreams'
  <2>1. s \notin Held /\ Held' = Held \cup {s} /\ activeSessions' = activeSessions + 1
    BY <1>4 DEF CountActive, At, counts, Held, Counted, StreamsInv, StreamsTypeOK, StreamInv
  <2>2. Cardinality(Held \cup {s}) = Cardinality(Held) + 1
    BY <1>1, <2>1, FS_AddElement
  <2>3. QED
    BY <1>2, <2>1, <2>2 DEF ActiveCountsStreams, Held
<1>5. ASSUME NEW s \in Streams, UpEnds(s) PROVE ActiveCountsStreams'
  <2>1. s \in Held /\ Held' = Held \ {s} /\ activeSessions' = activeSessions - 1
    BY <1>5 DEF UpEnds, CopyEnds, Held, Counted, StreamsInv, StreamsTypeOK, StreamInv
  <2>2. Cardinality(Held \ {s}) = Cardinality(Held) - 1
    BY <1>1, <2>1, FS_RemoveElement
  <2>3. QED
    BY <1>2, <2>1, <2>2 DEF ActiveCountsStreams, Held
<1>6. ASSUME NEW s \in Streams, HandleProxyReturns(s) \/ DialBackend(s) \/ CountTotal(s)
                                \/ DialServer(s)
      PROVE  Held' = Held /\ activeSessions' = activeSessions
  BY <1>6 DEF HandleProxyReturns, DialBackend, CountTotal, DialServer, At, counts, Held,
              Counted, StreamsInv, StreamsTypeOK, StreamInv
<1>7. ASSUME NEW s \in Streams, DialServerFails(s) \/ HandshakeFails(s)
      PROVE  Held' = Held /\ activeSessions' = activeSessions
  BY <1>7 DEF DialServerFails, HandshakeFails, At, Held, Counted, StreamsInv,
              StreamsTypeOK, StreamInv
<1>8. ASSUME NEW s \in Streams, StartCopiers(s)
      PROVE  Held' = Held /\ activeSessions' = activeSessions
  BY <1>8 DEF StartCopiers, At, counts, Held, Counted, StreamsInv, StreamsTypeOK, StreamInv
<1>9. ASSUME NEW s \in Streams, BackendLeaves(s) \/ ServerLeaves(s)
      PROVE  Held' = Held /\ activeSessions' = activeSessions
  BY <1>9 DEF BackendLeaves, ServerLeaves, counts, Held, Counted
<1>10. ASSUME NEW s \in Streams, DownEnds(s)
       PROVE  Held' = Held /\ activeSessions' = activeSessions
  BY <1>10 DEF DownEnds, CopyEnds, Held, Counted, StreamsInv, StreamsTypeOK, StreamInv
<1>11. CASE UNCHANGED streamVars
  BY <1>3, <1>11 DEF streamVars, Held, Counted
<1>12. QED
  BY <1>3, <1>4, <1>5, <1>6, <1>7, <1>8, <1>9, <1>10, <1>11 DEF StreamsNext

LEMMA StreamsNextInv == StreamsInv /\ [StreamsNext]_streamVars => StreamsInv'
BY StreamStepInv, ActiveStepInv DEF StreamsInv

\* Every variable of the streams keeps its type.
THEOREM StreamsTypeCorrect == StreamsSpec => []StreamsTypeOK
<1>1. StreamsInv => StreamsTypeOK
  BY DEF StreamsInv
<1>2. QED
  BY StreamsInitInv, StreamsNextInv, <1>1, PTL DEF StreamsSpec

\* Whatever the backend and the server do, and however handleProxy and the copiers
\* interleave, a stream whose work is over has closed both its connections.
THEOREM StreamsClose == StreamsSpec => []NothingLeftOpen
<1>1. StreamsInv => NothingLeftOpen
  BY DEF StreamsInv, StreamInv, NothingLeftOpen
<1>2. QED
  BY StreamsInitInv, StreamsNextInv, <1>1, PTL DEF StreamsSpec

\* The number of active sessions is right but for the streams that failed at the
\* server, for any finite number of streams.
THEOREM ActiveIsCounted == StreamsSpec => []ActiveCountsStreams
<1>1. StreamsInv => ActiveCountsStreams
  BY DEF StreamsInv
<1>2. QED
  BY StreamsInitInv, StreamsNextInv, <1>1, PTL DEF StreamsSpec

-----------------------------------------------------------------------------
(* WorkerPool.                                                             *)

\* A task that runs is some worker's, and Stop returns after all the workers.
PoolInv ==
    /\ PoolTypeOK
    /\ \A t \in PoolTasks : task[t] = "runs" => \E w \in Workers : doing[w] = t
    /\ stop = "returned" => \A w \in Workers : doing[w] = "returned"

LEMMA PoolInitInv == PoolInit => PoolInv
BY DEF PoolInit, PoolInv, PoolTypeOK

LEMMA PoolNextInv == PoolInv /\ [PoolNext]_poolVars => PoolInv'
<1> SUFFICES ASSUME PoolInv, [PoolNext]_poolVars PROVE PoolInv'
  OBVIOUS
<1> USE PoolAssumption DEF PoolInv, PoolTypeOK, Set
<1>1. CASE UNCHANGED poolVars
  BY <1>1 DEF poolVars
<1>2. ASSUME NEW t \in PoolTasks, SubmitSends(t) \/ SubmitSeesStop(t) \/ SubmitPanics(t)
      PROVE  PoolInv'
  BY <1>2 DEF SubmitSends, SubmitSeesStop, SubmitPanics
<1>3. ASSUME NEW w \in Workers, WorkerTakes(w) PROVE PoolInv'
  <2>1. PICK t \in PoolTasks : Set(t, "queued", "runs") /\ doing' = [doing EXCEPT ![w] = t]
    BY <1>3 DEF WorkerTakes, Queued
  <2>2. PoolTypeOK' /\ stop # "returned" /\ stop' = stop
    BY <1>3, <2>1 DEF WorkerTakes
  <2>3. ASSUME NEW r \in PoolTasks, task'[r] = "runs"
        PROVE  \E v \in Workers : doing'[v] = r
    <3>1. CASE r = t
      BY <2>1, <3>1
    <3>2. CASE r # t
      <4>1. PICK v \in Workers : doing[v] = r
        BY <2>1, <2>3, <3>2
      <4>2. v # w
        BY <1>3, <4>1 DEF WorkerTakes
      <4>3. QED
        BY <2>1, <4>1, <4>2
    <3>3. QED
      BY <3>1, <3>2
  <2>4. QED
    BY <2>2, <2>3
<1>4. ASSUME NEW w \in Workers, TaskEnds(w) PROVE PoolInv'
  <2>1. PoolTypeOK' /\ stop # "returned" /\ stop' = stop
    BY <1>4 DEF TaskEnds
  <2>2. ASSUME NEW r \in PoolTasks, task'[r] = "runs"
        PROVE  \E v \in Workers : doing'[v] = r
    <3>1. r # doing[w] /\ task[r] = "runs"
      BY <1>4, <2>2 DEF TaskEnds
    <3>2. PICK v \in Workers : doing[v] = r
      BY <3>1
    <3>3. QED
      BY <1>4, <3>1, <3>2 DEF TaskEnds
  <2>3. QED
    BY <2>1, <2>2
<1>5. ASSUME NEW w \in Workers, WorkerReturns(w) PROVE PoolInv'
  <2>1. PoolTypeOK' /\ (stop' = "returned" => \A v \in Workers : doing'[v] = "returned")
    BY <1>5 DEF WorkerReturns
  <2>2. ASSUME NEW r \in PoolTasks, task'[r] = "runs"
        PROVE  \E v \in Workers : doing'[v] = r
    <3>1. PICK v \in Workers : doing[v] = r
      BY <1>5, <2>2 DEF WorkerReturns
    <3>2. QED
      BY <1>5, <3>1 DEF WorkerReturns
  <2>3. QED
    BY <2>1, <2>2
<1>6. CASE CloseStopChan \/ CloseTasks
  BY <1>6 DEF CloseStopChan, CloseTasks
<1>7. CASE StopReturns
  BY <1>7 DEF StopReturns
<1>8. QED
  BY <1>1, <1>2, <1>3, <1>4, <1>5, <1>6, <1>7 DEF PoolNext, WorkerSteps

\* Every variable of the pool keeps its type.
THEOREM PoolTypeCorrect == PoolSpec => []PoolTypeOK
<1>1. PoolInv => PoolTypeOK
  BY DEF PoolInv
<1>2. QED
  BY PoolInitInv, PoolNextInv, <1>1, PTL DEF PoolSpec

\* When Stop has returned no task runs, for any number of workers and of tasks that
\* are submitted while it is under way.
THEOREM StoppedPoolIsIdle == PoolSpec => []NoneRunsAfterStop
<1>1. PoolInv => NoneRunsAfterStop
  BY PoolAssumption DEF PoolInv, NoneRunsAfterStop
<1>2. QED
  BY PoolInitInv, PoolNextInv, <1>1, PTL DEF PoolSpec

\* What a worker is doing runs, and no other worker is doing it; the channel is finite.
Hands ==
    /\ \A w \in Workers : doing[w] \in PoolTasks => task[doing[w]] = "runs"
    /\ \A v, w \in Workers : doing[v] = doing[w] /\ doing[v] \in PoolTasks => v = w
    /\ IsFiniteSet(Queued) /\ Cardinality(Queued) <= Buffer

LEMMA HandsInit == PoolInit => Hands
<1> SUFFICES ASSUME PoolInit PROVE Hands
  OBVIOUS
<1>1. Queued = {} /\ \A w \in Workers : doing[w] \notin PoolTasks
  BY PoolAssumption DEF PoolInit, Queued
<1>2. Cardinality(Workers) \in Nat
  BY PoolAssumption, FS_CardinalityType
<1>3. IsFiniteSet(Queued) /\ Cardinality(Queued) = 0
  BY <1>1, FS_EmptySet
<1>4. QED
  BY <1>1, <1>2, <1>3 DEF Hands, Buffer

LEMMA HandsStep == PoolInv /\ Hands /\ [PoolNext]_poolVars => Hands'
<1> SUFFICES ASSUME PoolInv, Hands, [PoolNext]_poolVars PROVE Hands'
  OBVIOUS
<1>t. task \in [PoolTasks -> {"select", "queued", "runs", "done", "refused", "panic"}]
      /\ doing \in [Workers -> PoolTasks \cup {"waits", "returned"}]
  BY DEF PoolInv, PoolTypeOK
<1>c. Cardinality(Workers) \in Nat /\ Cardinality(Queued) \in Nat
  BY PoolAssumption, FS_CardinalityType DEF Hands
\* Steps that put no task into the channel.
<1>0. ASSUME Queued' \in SUBSET Queued
      PROVE  IsFiniteSet(Queued)' /\ (Cardinality(Queued) <= Buffer)'
  <2>1. IsFiniteSet(Queued') /\ Cardinality(Queued') <= Cardinality(Queued)
    BY <1>0, FS_Subset DEF Hands
  <2>2. Cardinality(Queued') \in Nat
    BY <2>1, FS_CardinalityType
  <2>3. QED
    BY <1>c, <2>1, <2>2 DEF Hands, Buffer
<1>1. ASSUME NEW t \in PoolTasks, SubmitSends(t) PROVE Hands'
  <2>1. /\ task[t] = "select" /\ task' = [task EXCEPT ![t] = "queued"] /\ doing' = doing
        /\ Cardinality(Queued) < Buffer
    BY <1>1 DEF SubmitSends, Set
  <2>2. Queued' = Queued \cup {t} /\ t \notin Queued
    BY <1>t, <2>1 DEF Queued
  <2>3. IsFiniteSet(Queued') /\ Cardinality(Queued') = Cardinality(Queued) + 1
    BY <2>2, FS_AddElement DEF Hands
  <2>4. Cardinality(Queued') <= Buffer
    BY <1>c, <2>1, <2>3 DEF Buffer
  <2>5. QED
    BY <1>t, <2>1, <2>3, <2>4 DEF Hands, Buffer
<1>2. ASSUME NEW t \in PoolTasks, SubmitSeesStop(t) \/ SubmitPanics(t) PROVE Hands'
  <2>1. /\ task[t] = "select" /\ doing' = doing
        /\ task' = [task EXCEPT ![t] = "refused"] \/ task' = [task EXCEPT ![t] = "panic"]
    BY <1>2 DEF SubmitSeesStop, SubmitPanics, Set
  <2>2. Queued' \in SUBSET Queued
    BY <1>t, <2>1 DEF Queued
  <2>3. QED
    BY <1>0, <1>t, <2>1, <2>2 DEF Hands
<1>3. ASSUME NEW w \in Workers, WorkerTakes(w) PROVE Hands'
  <2>1. PICK t \in Queued : Set(t, "queued", "runs") /\ doing' = [doing EXCEPT ![w] = t]
    BY <1>3 DEF WorkerTakes
  <2>2. /\ t \in PoolTasks /\ task[t] = "queued" /\ task' = [task EXCEPT ![t] = "runs"]
        /\ doing' = [doing EXCEPT ![w] = t]
    BY <2>1 DEF Queued, Set
  <2>3. \A v \in Workers : doing[v] # t
    BY <2>2 DEF Hands
  <2>4. Queued' \in SUBSET Queued
    BY <1>t, <2>2 DEF Queued
  <2>5. QED
    BY <1>0, <1>t, <2>2, <2>3, <2>4 DEF Hands
<1>4. ASSUME NEW w \in Workers, TaskEnds(w) PROVE Hands'
  <2>1. /\ doing[w] \in PoolTasks /\ task[doing[w]] = "runs"
        /\ task' = [task EXCEPT ![doing[w]] = "done"]
        /\ doing' = [doing EXCEPT ![w] = "waits"]
    BY <1>4 DEF TaskEnds, Set
  <2>2. Queued' \in SUBSET Queued
    BY <1>t, <2>1 DEF Queued
  <2>3. QED
    BY <1>0, <1>t, <2>1, <2>2, PoolAssumption DEF Hands
<1>5. ASSUME NEW w \in Workers, WorkerReturns(w) PROVE Hands'
  <2>1. /\ task' = task /\ doing' = [doing EXCEPT ![w] = "returned"]
    BY <1>5 DEF WorkerReturns
  <2>2. Queued' \in SUBSET Queued
    BY <2>1 DEF Queued
  <2>3. QED
    BY <1>0, <1>t, <2>1, <2>2, PoolAssumption DEF Hands
<1>6. ASSUME UNCHANGED <<task, doing>> PROVE Hands'
  <2>1. Queued' \in SUBSET Queued
    BY <1>6 DEF Queued
  <2>2. QED
    BY <1>0, <1>6, <2>1 DEF Hands
<1>7. QED
  BY <1>1, <1>2, <1>3, <1>4, <1>5, <1>6
  DEF PoolNext, WorkerSteps, CloseStopChan, CloseTasks, StopReturns, poolVars

\* Workers bound the tasks that run, for any finite set of them: every task that runs
\* is in the hands of a worker, and of one only.
THEOREM WorkersBoundTasks == PoolSpec => []PoolIsBounded
<1>1. PoolInv /\ Hands => PoolIsBounded
  <2> SUFFICES ASSUME PoolInv, Hands PROVE Cardinality(Running) <= Cardinality(Workers)
    BY DEF Hands, PoolIsBounded
  <2> DEFINE f == [t \in Running |-> CHOOSE w \in Workers : doing[w] = t]
  <2>1. \A t \in Running : f[t] \in Workers /\ doing[f[t]] = t
    BY DEF PoolInv, Running
  <2>2. f \in [Running -> Workers] /\ \A t, u \in Running : f[t] = f[u] => t = u
    BY <2>1
  <2>3. f \in Injection(Running, Workers)
    BY <2>2 DEF Injection, IsInjective
  <2> HIDE DEF f
  <2>4. QED
    BY <2>3, PoolAssumption, FS_Injection
<1>2. QED
  BY <1>1, PoolInitInv, PoolNextInv, HandsInit, HandsStep, PTL DEF PoolSpec

-----------------------------------------------------------------------------
(* Accounts.                                                               *)

\* An id is given once, so that a row and the claims made from it can be told
\* from every row made later.
IdsAreGiven ==
    /\ \A u \in users : u.id <= made
    /\ \A claims \in Claims : claims.id <= made
    /\ \A u, v \in users : u.id = v.id => u = v

RequestsComeFromAdmins == \A r \in requests : r.by.role = "admin"

Inv == TypeOK /\ IdsAreGiven /\ RequestsComeFromAdmins /\ ClaimsMatchRow

USE DEF TypeOK, IdsAreGiven, RequestsComeFromAdmins, ClaimsMatchRow, Claims, Inv

LEMMA InitInv == Init => Inv
<1> SUFFICES ASSUME Init PROVE Inv
  OBVIOUS
<1>1. users = {} /\ Claims = {} /\ requests = {} /\ 0 \in 0..MaxIds
  BY AccountsAssumption DEF Init
<1>2. QED
  BY <1>1 DEF Init

\* A new row has an id that neither a row nor claims have.
LEMMA CreateInv ==
    ASSUME Inv, NEW name \in Names, NEW role \in Roles, CreateUserRow(name, role),
           logins' = logins, tokens' = tokens, requests' \subseteq requests, up' \in BOOLEAN
    PROVE  Inv'
<1> DEFINE new == Row(made + 1, name, role)
<1>1. made \in Nat /\ made + 1 \in Ids /\ made' = made + 1 /\ users' = users \cup {new}
  BY AccountsAssumption DEF CreateUserRow, Ids
<1>2. new \in Rows /\ new.id = made + 1
  BY <1>1 DEF Row, Rows
<1>3. TypeOK'
  <2>1. made' \in 0..MaxIds
    BY <1>1, AccountsAssumption DEF Ids
  <2>2. QED
    BY <1>1, <1>2, <2>1
<1>4. \A u \in users \cup Claims : u.id \in Nat /\ u.id <= made
  BY DEF Rows, Ids
<1>5. IdsAreGiven' /\ ClaimsMatchRow'
  BY <1>1, <1>2, <1>4
<1>6. RequestsComeFromAdmins'
  OBVIOUS
<1>7. QED
  BY <1>3, <1>5, <1>6

\* Claims that are copied from a row or from other claims keep the invariant, and
\* so does anything that is dropped.
LEMMA KeepInv ==
    ASSUME Inv, up' \in BOOLEAN, made' = made, users' \subseteq users,
           logins' \subseteq users \cup logins, tokens' \subseteq logins \cup tokens,
           \A r \in requests' : \/ r \in requests
                                \/ /\ r \in [by : tokens, op : DeleteOps \cup CreateOps]
                                   /\ r.by.role = "admin"
    PROVE  Inv'
<1>1. TypeOK'
  OBVIOUS
<1>2. RequestsComeFromAdmins'
  OBVIOUS
<1>3. Claims' \subseteq Claims \cup users
  OBVIOUS
<1>4. IdsAreGiven' /\ ClaimsMatchRow'
  BY <1>3
<1>5. QED
  BY <1>1, <1>2, <1>4

LEMMA NextInv == Inv /\ [Next]_vars => Inv'
<1> SUFFICES ASSUME Inv, [Next]_vars PROVE Inv'
  OBVIOUS
<1> USE DEF Leave, Admit
<1>1. CASE StartEmpty
  BY <1>1, CreateInv, AccountsAssumption DEF StartEmpty, Roles
<1>2. CASE Start
  BY <1>2, KeepInv DEF Start
<1>3. CASE Stop
  BY <1>3, KeepInv DEF Stop
<1>4. ASSUME NEW u \in users, Login(u) PROVE Inv'
  BY <1>4, KeepInv DEF Login
<1>5. ASSUME NEW u \in logins, GenerateToken(u) PROVE Inv'
  BY <1>5, KeepInv DEF GenerateToken
<1>6. ASSUME NEW name \in Names, Register(name) PROVE Inv'
  BY <1>6, CreateInv DEF Register, Roles
<1>7. ASSUME NEW claims \in tokens, TokenExpires(claims) PROVE Inv'
  BY <1>7, KeepInv DEF TokenExpires
<1>8. ASSUME NEW claims \in tokens, AdmitDelete(claims) PROVE Inv'
  BY <1>8, KeepInv DEF AdmitDelete
<1>9. ASSUME NEW claims \in tokens, AdmitCreate(claims) PROVE Inv'
  BY <1>9, KeepInv DEF AdmitCreate
<1>10. ASSUME NEW r \in requests, CreateUserByAdmin(r) PROVE Inv'
  <2>1. r.op.name \in Names /\ r.op.role \in Roles
    BY <1>10 DEF CreateUserByAdmin, CreateOps
  <2>2. QED
    BY <1>10, <2>1, CreateInv DEF CreateUserByAdmin
<1>11. ASSUME NEW r \in requests, CreateUserFails(r) PROVE Inv'
  BY <1>11, KeepInv DEF CreateUserFails
<1>12. ASSUME NEW r \in requests, DeleteUser(r) PROVE Inv'
  BY <1>12, KeepInv DEF DeleteUser
<1>13. ASSUME NEW r \in requests, DeleteUserFails(r) PROVE Inv'
  BY <1>13, KeepInv DEF DeleteUserFails
<1>14. CASE UNCHANGED vars
  BY <1>14, KeepInv DEF vars
<1>15. QED
  BY <1>1, <1>2, <1>3, <1>4, <1>5, <1>6, <1>7, <1>8, <1>9, <1>10, <1>11, <1>12, <1>13, <1>14
  DEF Next

\* Every variable of the accounts has its type: handlers of /api, middleware, users.
THEOREM TypeCorrect == Spec => []TypeOK
<1>1. Inv => TypeOK
  OBVIOUS
<1>2. QED
  BY InitInv, NextInv, <1>1, PTL DEF Spec

\* Claims never point to the row of somebody else, whoever was deleted and whoever
\* has taken the name since, for any number of rows.
THEOREM ClaimsStayTrue == Spec => []ClaimsMatchRow
<1>1. Inv => ClaimsMatchRow
  OBVIOUS
<1>2. QED
  BY InitInv, NextInv, <1>1, PTL DEF Spec

\* An admin is made by the first start or by somebody whose claims say admin.
THEOREM AdminsAreMadeByAdmins == Spec => AdminsComeFromAdmins
<1> DEFINE ByAdmin(u) ==
      \/ ~up /\ users = {}
      \/ \E r \in requests \ requests' :
            r.by.role = "admin" /\ r.op = [name |-> u.name, role |-> "admin"]
<1>1. ASSUME Inv, [Next]_vars, NEW u \in users' \ users, u.role = "admin"
      PROVE  ByAdmin(u)
  <2>1. ASSUME NEW name \in Names, Register(name) PROVE FALSE
    BY <1>1, <2>1 DEF Register, CreateUserRow, Row
  <2>2. ASSUME NEW r \in requests, CreateUserByAdmin(r) PROVE ByAdmin(u)
    <3>1. r \in requests \ requests' /\ r.by.role = "admin"
      BY <1>1, <2>2 DEF CreateUserByAdmin, Leave
    <3>2. u = Row(made + 1, r.op.name, r.op.role)
      BY <1>1, <2>2 DEF CreateUserByAdmin, CreateUserRow
    <3>3. r.op \in CreateOps /\ r.op.role = "admin" /\ r.op.name = u.name
      BY <1>1, <2>2, <3>2 DEF CreateUserByAdmin, Row
    <3>4. r.op = [name |-> u.name, role |-> "admin"]
      BY <3>3 DEF CreateOps
    <3>5. QED
      BY <3>1, <3>4
  <2>3. \/ StartEmpty
        \/ \E name \in Names : Register(name)
        \/ \E r \in requests : CreateUserByAdmin(r)
    BY <1>1 DEF Next, vars, Start, Stop, Login, GenerateToken, TokenExpires, AdmitDelete,
                AdmitCreate, Admit, CreateUserFails, DeleteUser, DeleteUserFails
  <2>4. QED
    BY <2>1, <2>2, <2>3 DEF StartEmpty
<1>2. Inv /\ [Next]_vars =>
        [\A u \in users' \ users : u.role = "admin" => ByAdmin(u)]_vars
  BY <1>1
<1>3. QED
  BY InitInv, NextInv, <1>2, PTL DEF Spec, AdminsComeFromAdmins

=============================================================================
