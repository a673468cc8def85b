------------------------------ MODULE PortPool ------------------------------
(***************************************************************************)
(* The public port pool of the tunnel server: server.availablePorts,       *)
(* server.usedPorts and server.portReservations with the code that reads   *)
(* and writes them (getNextPublicPort, releasePort, the reservation part   *)
(* of removeClient and cleanupPortReservations).                           *)
(*                                                                         *)
(* The module has no behaviour of its own: SessionRegistry calls these     *)
(* operations from the goroutines of the sessions, under the locks the     *)
(* code takes.                                                             *)
(***************************************************************************)
EXTENDS Integers

CONSTANTS
    Keys,       \* the keys a client can register with
    PortStart,  \* publicPortStart
    PortEnd     \* publicPortEnd

ASSUME PortRangeAssumption ==
    /\ PortStart \in Nat
    /\ PortEnd \in Nat
    /\ 0 < PortStart
    /\ PortStart <= PortEnd

VARIABLES
    availablePorts,    \* how often each port occurs in the sorted slice
    usedPorts,         \* the ports marked true in the map usedPorts
    portReservations   \* what each key has reserved

poolVars == <<availablePorts, usedPorts, portReservations>>

Ports == PortStart .. PortEnd

\* The zero value of RequestedPort and of publicPort.
NoPort == 0

\* A reservation is a port and whether its expiry is still ahead. An absent
\* entry is an expired one of no port: the code tells them apart nowhere else.
NoReservation == [port |-> NoPort, valid |-> FALSE]
Reservation == [port : Ports \cup {NoPort}, valid : BOOLEAN]

(***************************************************************************)
(* The slice availablePorts is sorted after every append, so the number of *)
(* occurrences of each port determines it: its head is the least port that *)
(* occurs, and removing a port removes one occurrence.                     *)
(***************************************************************************)
InPool(p) == availablePorts[p] > 0

PoolEmpty == \A p \in Ports : ~InPool(p)

IsHead(p) == InPool(p) /\ \A q \in Ports : InPool(q) => p <= q

PoolInit ==
    /\ availablePorts = [p \in Ports |-> 1]
    /\ usedPorts = {}
    /\ portReservations = [k \in Keys |-> NoReservation]

\* The two assignments every allocating branch of getNextPublicPort makes.
TakePort(p) ==
    /\ availablePorts' =
         [availablePorts EXCEPT ![p] = IF @ > 0 THEN @ - 1 ELSE @]
    /\ usedPorts' = usedPorts \cup {p}

\* A valid reservation of the requested port under the client's key.
HasReservation(k, requested) ==
    /\ requested > NoPort
    /\ portReservations[k].port = requested
    /\ portReservations[k].valid

(***************************************************************************)
(* The four branches of getNextPublicPort. `reserved' is what the lookup   *)
(* of the reservation answered: reservationMu is released between the      *)
(* lookup and the deletion, portMu is not.                                 *)
(***************************************************************************)
GrantReserved(k, requested, reserved, p) ==
    /\ reserved
    /\ requested \notin usedPorts
    /\ p = requested
    /\ TakePort(p)
    /\ portReservations' = [portReservations EXCEPT ![k] = NoReservation]

\* Mutant of GrantRequested: usedPorts is not consulted.
GrantRequestedUsed(requested, reserved, p) ==
    /\ ~(reserved /\ requested \notin usedPorts)
    /\ requested \in Ports
    /\ p = requested
    /\ TakePort(p)
    /\ UNCHANGED portReservations

GrantRequested(requested, reserved, p) ==
    /\ ~(reserved /\ requested \notin usedPorts)
    /\ requested \in Ports
    /\ requested \notin usedPorts
    /\ p = requested
    /\ TakePort(p)
    /\ UNCHANGED portReservations

GrantHead(requested, p) ==
    /\ ~(requested \in Ports /\ requested \notin usedPorts)
    /\ IsHead(p)
    /\ TakePort(p)
    /\ UNCHANGED portReservations

GrantFallback(requested, p) ==
    /\ ~(requested \in Ports /\ requested \notin usedPorts)
    /\ PoolEmpty
    /\ p = PortStart
    /\ UNCHANGED poolVars

GetNextPublicPort(k, requested, reserved, p) ==
    \/ GrantReserved(k, requested, reserved, p)
    \/ GrantRequested(requested, reserved, p)
    \/ GrantHead(requested, p)
    \/ GrantFallback(requested, p)

\* Mutant of ReleaseToPool: no early return for an unmarked port.
ReleaseUnmarked(p) ==
    /\ usedPorts' = usedPorts \ {p}
    /\ availablePorts' = [availablePorts EXCEPT ![p] = @ + 1]

\* releasePort: an unmarked port is left alone, a marked one is appended to
\* the slice, which is sorted again.
ReleaseToPool(p) ==
    IF p \in usedPorts
      THEN /\ usedPorts' = usedPorts \ {p}
           /\ availablePorts' = [availablePorts EXCEPT ![p] = @ + 1]
      ELSE UNCHANGED <<availablePorts, usedPorts>>

ReservePort(k, p) ==
    portReservations' =
        [portReservations EXCEPT ![k] = [port |-> p, valid |-> TRUE]]

\* Five minutes pass for the reservation of key k.
ReservationExpires(k) ==
    /\ portReservations[k].valid
    /\ portReservations' = [portReservations EXCEPT ![k].valid = FALSE]

\* One tick of cleanupPortReservations: every expired entry goes.
CleanupPortReservations ==
    portReservations' =
        [k \in Keys |-> IF portReservations[k].valid
                          THEN portReservations[k] ELSE NoReservation]

\* Every variable has its type.
PoolTypeOK ==
    /\ availablePorts \in [Ports -> Nat]
    /\ usedPorts \subseteq Ports
    /\ portReservations \in [Keys -> Reservation]

\* usedPorts and availablePorts divide the range: a port is in the slice
\* once when it is not marked used, and not at all when it is. A port that
\* is in neither is lost until the server restarts; one that is in the slice
\* twice, or in both, is handed to two clients (getNextPublicPort and
\* releasePort).
PortAccounting ==
    \A p \in Ports : availablePorts[p] = IF p \in usedPorts THEN 0 ELSE 1
=============================================================================
