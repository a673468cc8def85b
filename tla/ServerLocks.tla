----------------------------- MODULE ServerLocks ----------------------------
(***************************************************************************)
(* The locks of the server's tables, held one inside the other: clientsMu   *)
(* with reservationMu and portMu, portMu with reservationMu; and the push   *)
(* to the dashboard, which writes to a browser with clientsMu in its hand.  *)
(* clientsMu is a sync.RWMutex: a writer announces itself, new readers wait *)
(* for it, and it waits for the readers there are.                          *)
(***************************************************************************)
EXTENDS Naturals

CONSTANTS
    Goroutines,
    MaxClients  \* bound: how many clients the table has

Nobody == "nobody"

ASSUME LocksAssumption == MaxClients \in Nat \ {0} /\ Nobody \notin Goroutines

VARIABLES
    at,          \* where each goroutine is; "away" from these functions
    writer,      \* who holds clientsMu or is announced as its next writer
    readers,     \* who holds clientsMu for reading
    portMu, reservationMu,  \* who holds them
    clients,     \* the number of clients in the table
    shown        \* of a push: the clients it has listed; 0 for others

lockVars == <<at, writer, readers, portMu, reservationMu, clients, shown>>

Tasks == {"getNextPublicPort", "releasePort", "addClient", "removeClient", "getClient",
          "sendDashboardUpdate", "cleanupPortReservations"}
Places == Tasks \cup {"away", "look up", "looked up", "clear", "cleared", "grant", "released",
                      "found", "reserve", "reserved", "release", "delete",
                      "tunnels", "metrics", "get", "clean"}

LocksInit ==
    /\ at = [g \in Goroutines |-> "away"]
    /\ writer = Nobody /\ readers = {}
    /\ portMu = Nobody /\ reservationMu = Nobody
    /\ clients = 0 /\ shown = [g \in Goroutines |-> 0]

Go(g, from, to) == at[g] = from /\ at' = [at EXCEPT ![g] = to]

Enters(g) ==
    /\ \E task \in Tasks : Go(g, "away", task)
    /\ UNCHANGED <<writer, readers, portMu, reservationMu, clients, shown>>

-----------------------------------------------------------------------------
(* The mutexes.                                                            *)

LockPort(g, from, to) ==
    /\ Go(g, from, to)
    /\ portMu = Nobody /\ portMu' = g
    /\ UNCHANGED <<writer, readers, reservationMu, clients, shown>>

UnlockPort(g, from, to) ==
    /\ Go(g, from, to)
    /\ portMu' = Nobody
    /\ UNCHANGED <<writer, readers, reservationMu, clients, shown>>

LockReservations(g, from, to) ==
    /\ Go(g, from, to)
    /\ reservationMu = Nobody /\ reservationMu' = g
    /\ UNCHANGED <<writer, readers, portMu, clients, shown>>

UnlockReservations(g, from, to) ==
    /\ Go(g, from, to)
    /\ reservationMu' = Nobody
    /\ UNCHANGED <<writer, readers, portMu, clients, shown>>

Announce(g) ==
    /\ at[g] \in {"addClient", "removeClient"}
    /\ writer = Nobody /\ writer' = g
    /\ UNCHANGED <<at, readers, portMu, reservationMu, clients, shown>>

MayWrite(g) == writer = g /\ readers = {}

ReadLock(g, from, to) ==
    /\ Go(g, from, to)
    /\ writer = Nobody /\ readers' = readers \cup {g}
    /\ UNCHANGED <<writer, portMu, reservationMu, clients>>

ReadUnlock(g, from) ==
    /\ Go(g, from, "away")
    /\ readers' = readers \ {g}
    /\ shown' = [shown EXCEPT ![g] = 0]
    /\ UNCHANGED <<writer, portMu, reservationMu, clients>>

-----------------------------------------------------------------------------
(* The functions that take them.                                           *)

\* A client that asks for a port and has a key is looked up, and a reservation
\* that is used is cleared.
GetNextPublicPort(g) ==
    \/ \E to \in {"look up", "grant"} : LockPort(g, "getNextPublicPort", to)
    \/ LockReservations(g, "look up", "looked up")
    \/ \E to \in {"clear", "grant"} : UnlockReservations(g, "looked up", to)
    \/ LockReservations(g, "clear", "cleared")
    \/ UnlockReservations(g, "cleared", "grant")
    \/ UnlockPort(g, "grant", "away")

ReleasePort(g) ==
    LockPort(g, "releasePort", "released") \/ UnlockPort(g, "released", "away")

\* A session that comes back under its ID replaces the one before.
AddClient(g) ==
    /\ Go(g, "addClient", "away") /\ MayWrite(g)
    /\ \/ clients < MaxClients /\ clients' = clients + 1
       \/ clients > 0 /\ UNCHANGED clients
    /\ writer' = Nobody
    /\ UNCHANGED <<readers, portMu, reservationMu, shown>>

RemoveOther(g) ==
    /\ Go(g, "removeClient", "away") /\ MayWrite(g)
    /\ writer' = Nobody
    /\ UNCHANGED <<readers, portMu, reservationMu, clients, shown>>

\* The session is the one in the table; with a port and a key it leaves a reservation.
RemoveFound(g) ==
    /\ \E to \in {"reserve", "delete"} : Go(g, "removeClient", to)
    /\ MayWrite(g) /\ clients > 0
    /\ clients' = clients - 1
    /\ UNCHANGED <<writer, readers, portMu, reservationMu, shown>>

\* Mutant: the reservations stay locked until the function returns.
ReserveDeferred(g) ==
    \/ LockReservations(g, "reserve", "release")
    \/ LockPort(g, "release", "found")
    \/ UnlockPort(g, "found", "reserved")
    \/ UnlockReservations(g, "reserved", "delete")

Reserve(g) ==
    \/ LockReservations(g, "reserve", "reserved")
    \/ UnlockReservations(g, "reserved", "release")
    \/ LockPort(g, "release", "found")
    \/ UnlockPort(g, "found", "delete")

RemoveReturns(g) ==
    /\ Go(g, "delete", "away")
    /\ writer' = Nobody
    /\ UNCHANGED <<readers, portMu, reservationMu, clients, shown>>

GetClient(g) ==
    \/ ReadLock(g, "getClient", "get") /\ UNCHANGED shown
    \/ ReadUnlock(g, "get")

CleanupPortReservations(g) ==
    \/ LockReservations(g, "cleanupPortReservations", "clean")
    \/ UnlockReservations(g, "clean", "away")

-----------------------------------------------------------------------------
(* sendDashboardUpdate.                                                    *)

\* Mutant: the lock is given back before the browser is written to.
ListsUnlocked(g) ==
    /\ Go(g, "sendDashboardUpdate", "tunnels")
    /\ writer = Nobody
    /\ shown' = [shown EXCEPT ![g] = clients]
    /\ UNCHANGED <<writer, readers, portMu, reservationMu, clients>>

ListTunnels(g) ==
    /\ ReadLock(g, "sendDashboardUpdate", "tunnels")
    /\ shown' = [shown EXCEPT ![g] = clients]

\* The browser takes the first message.
WriteTunnels(g) ==
    /\ Go(g, "tunnels", "metrics")
    /\ UNCHANGED <<writer, readers, portMu, reservationMu, clients, shown>>

\* It takes the second one, with the length of the table as it is now.
WriteMetrics(g) == ReadUnlock(g, "metrics")

\* The browser is gone or its connection broken.
WriteFails(g) == ReadUnlock(g, "tunnels") \/ ReadUnlock(g, "metrics")

-----------------------------------------------------------------------------

Steps(g) ==
    \/ Announce(g)
    \/ GetNextPublicPort(g) \/ ReleasePort(g)
    \/ AddClient(g) \/ RemoveOther(g) \/ RemoveFound(g) \/ Reserve(g) \/ RemoveReturns(g)
    \/ GetClient(g) \/ CleanupPortReservations(g)
    \/ ListTunnels(g) \/ WriteTunnels(g) \/ WriteMetrics(g) \/ WriteFails(g)

LocksNext == \E g \in Goroutines : Enters(g) \/ Steps(g)

LocksSpec == LocksInit /\ [][LocksNext]_lockVars

\* The mutexes let nobody wait for ever. That browsers take their messages or break
\* off is an assumption: the code sets no write deadline that would see to it.
LocksFairness == \A g \in Goroutines : SF_lockVars(Steps(g))

-----------------------------------------------------------------------------

\* Every variable has its type.
LocksTypeOK ==
    /\ at \in [Goroutines -> Places]
    /\ writer \in Goroutines \cup {Nobody} /\ readers \subseteq Goroutines
    /\ portMu \in Goroutines \cup {Nobody} /\ reservationMu \in Goroutines \cup {Nobody}
    /\ clients \in 0..MaxClients /\ shown \in [Goroutines -> 0..MaxClients]

\* The number of tunnels that the second message of a push gives is that of the
\* tunnels the first one has listed, however long the browser took between them.
PushIsOneSnapshot == \A g \in Goroutines : at[g] = "metrics" => shown[g] = clients

\* The places where a goroutine waits for a mutex, and those where it has it.
AsksPort == {"getNextPublicPort", "releasePort", "release"}
HasPort == {"look up", "looked up", "clear", "cleared", "grant", "released", "found"}
AsksReservations == {"look up", "clear", "reserve", "cleanupPortReservations"}
HasReservations == {"looked up", "cleared", "reserved", "clean"}
\* Those where it writes to the table of clients, and those where it reads it.
Writes == {"reserve", "reserved", "release", "found", "delete"}
Reads == {"get", "tunnels", "metrics"}

\* Who holds what g is waiting for: the mutex, the table that somebody writes or is
\* announced to write, or the table that is still read while g is announced.
WaitsFor(g) ==
    {h \in Goroutines :
        \/ at[g] \in AsksPort /\ portMu = h
        \/ at[g] \in AsksReservations /\ reservationMu = h
        \/ at[g] \in {"getClient", "sendDashboardUpdate"} /\ writer = h
        \/ at[g] \in {"addClient", "removeClient"}
             /\ IF writer = g THEN h \in readers ELSE writer = h}

\* However the three locks are nested, no goroutines wait in a ring: among any of them
\* there is one that waits for none of the others, nor for itself.
NoRing ==
    \A some \in SUBSET Goroutines :
        some # {} => \E g \in some : WaitsFor(g) \cap some = {}

\* The table of clients is written by one goroutine while nobody reads it, and a
\* mutex is in the hands of the one that is between its Lock and its Unlock.
Excludes(g) ==
    /\ at[g] \in Writes => writer = g /\ readers = {}
    /\ at[g] \in Reads <=> g \in readers
    /\ at[g] \in HasPort <=> portMu = g
    /\ at[g] \in HasReservations <=> reservationMu = g

LocksExclude == \A g \in Goroutines : Excludes(g)

\* Whoever asks for locks of the server gets them and leaves: no order in which
\* registrations, teardowns, lookups and pushes come makes them wait in a ring.
EveryoneLeaves == \A g \in Goroutines : at[g] # "away" ~> at[g] = "away"

=============================================================================
