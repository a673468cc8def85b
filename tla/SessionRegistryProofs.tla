----------------------- MODULE SessionRegistryProofs ------------------------
(***************************************************************************)
(* Theorems about SessionRegistry for every set of sessions, client IDs,   *)
(* keys and subdomains, every port range and every connection limit.       *)
(***************************************************************************)
EXTENDS SessionRegistry, FiniteSetTheorems, TLAPS

\* A port of the range is not the zero value of publicPort.
LEMMA PortsAreNonzero == Ports \subseteq Nat /\ NoPort \notin Ports
BY PortRangeAssumption DEF Ports, NoPort

\* Every branch of getNextPublicPort leaves the pool well typed.
LEMMA GrantIsTyped ==
    ASSUME PoolTypeOK, NEW k, NEW req, NEW res, NEW p \in Ports,
           GetNextPublicPort(k, req, res, p)
    PROVE  PoolTypeOK'
<1>1. NoReservation \in Reservation
  BY DEF NoReservation, Reservation
<1>2. TakePort(p) => /\ availablePorts' \in [Ports -> Nat]
                     /\ usedPorts' \subseteq Ports
  BY DEF TakePort, PoolTypeOK
<1>3. CASE GrantReserved(k, req, res, p)
  BY <1>1, <1>2, <1>3 DEF GrantReserved, PoolTypeOK
<1>4. CASE GrantRequested(req, res, p)
  BY <1>2, <1>4 DEF GrantRequested, PoolTypeOK
<1>5. CASE GrantHead(req, p)
  BY <1>2, <1>5 DEF GrantHead, PoolTypeOK
<1>6. CASE GrantFallback(req, p)
  BY <1>6 DEF GrantFallback, PoolTypeOK, poolVars
<1>7. QED
  BY <1>3, <1>4, <1>5, <1>6 DEF GetNextPublicPort

\* Every variable of the registry keeps its type.
THEOREM TypeCorrect == Spec => []TypeOK
<1>1. Init => TypeOK
  BY PortsAreNonzero
  DEF Init, PoolInit, TypeOK, PoolTypeOK, PCs, NoReservation, Reservation
<1>2. TypeOK /\ [Next]_vars => TypeOK'
  <2> SUFFICES ASSUME TypeOK, [Next]_vars PROVE TypeOK'
    OBVIOUS
  <2> USE DEF TypeOK, Goto, PCs
  <2>1. ASSUME NEW c \in Sessions, Handshake(c) PROVE TypeOK'
    <3>1. CASE Accept(c)
      BY <3>1 DEF Accept, poolVars, serverVars, PoolTypeOK
    <3>2. CASE Reject(c)
      BY <3>2 DEF Reject, poolVars, serverVars, PoolTypeOK
    <3>3. CASE HandshakeFails(c)
      BY <3>3 DEF HandshakeFails, poolVars, serverVars, PoolTypeOK
    <3>4. CASE RateLimited(c)
      BY <3>4 DEF RateLimited, poolVars, serverVars, PoolTypeOK
    <3>5. ASSUME NEW m \in RegisterMessage, LookupReservation(c, m)
          PROVE  TypeOK'
      <4>1. HasReservation(m.key, m.requested) \in BOOLEAN
        BY DEF HasReservation
      <4>2. QED
        BY <3>5, <4>1 DEF LookupReservation, poolVars, PoolTypeOK
    <3>6. QED
      BY <2>1, <3>1, <3>2, <3>3, <3>4, <3>5 DEF Handshake
  <2>2. ASSUME NEW c \in Sessions, HandleClient(c) PROVE TypeOK'
    <3>1. ASSUME NEW p \in Ports, Allocate(c, p) PROVE TypeOK'
      <4>1. PoolTypeOK'
        BY <3>1, GrantIsTyped DEF Allocate
      <4>2. QED
        BY <3>1, <4>1 DEF Allocate
    <3>2. CASE AddClient(c)
      BY <3>2 DEF AddClient, poolVars, PoolTypeOK
    <3>3. ASSUME NEW n \in Subdomains, RegisterHTTPClient(c, n) PROVE TypeOK'
      BY <3>3 DEF RegisterHTTPClient, poolVars, PoolTypeOK
    <3>4. CASE RegisterHTTPFails(c)
      BY <3>4 DEF RegisterHTTPFails, poolVars, serverVars, PoolTypeOK
    <3>5. CASE Reply(c)
      BY <3>5 DEF Reply, poolVars, serverVars, PoolTypeOK
    <3>6. CASE ReplyFails(c)
      BY <3>6 DEF ReplyFails, poolVars, serverVars, PoolTypeOK
    <3>7. QED
      BY <2>2, <3>1, <3>2, <3>3, <3>4, <3>5, <3>6 DEF HandleClient
  <2>3. ASSUME NEW c \in Sessions,
               \/ PeerHangsUp(c)
               \/ PeerFallsSilent(c)
               \/ ControlLoopEnds(c)
               \/ ControlLoopFails(c)
               \/ IdleTimeout(c)
               \/ FinishClose(c)
        PROVE  TypeOK'
    BY <2>3
    DEF PeerHangsUp, PeerFallsSilent, ControlLoopEnds, ControlLoopFails,
        IdleTimeout, BeginClose, FinishClose, poolVars, serverVars, PoolTypeOK
  <2>4. ASSUME NEW c \in Sessions, PublicListener(c) \/ AcceptFails(c)
        PROVE  TypeOK'
    BY <2>4
    DEF PublicListener, Listen, ListenFails, CheckDone, StoreListener,
        DiscardListener, AcceptFails, CloseListener, AcceptEnds,
        poolVars, serverVars, PoolTypeOK
  <2>5. ASSUME NEW c \in Sessions, RemoveClient(c) PROVE TypeOK'
    <3>1. CASE RemoveEntry(c)
      BY <3>1 DEF RemoveEntry, poolVars, PoolTypeOK
    <3>2. CASE RemoveNothing(c)
      BY <3>2 DEF RemoveNothing, poolVars, serverVars, PoolTypeOK
    <3>3. CASE ReserveSessionPort(c)
      <4>1. [port |-> publicPort[c], valid |-> TRUE] \in Reservation
        BY DEF Reservation
      <4>2. QED
        BY <3>3, <4>1
        DEF ReserveSessionPort, ReservePort, serverVars, PoolTypeOK
    <3>4. CASE ReleaseSessionPort(c)
      BY <3>4 DEF ReleaseSessionPort, ReleaseToPool, PoolTypeOK
    <3>5. CASE UnregisterHTTPClient(c)
      BY <3>5 DEF UnregisterHTTPClient, poolVars, PoolTypeOK
    <3>6. CASE CloseSession(c)
      BY <3>6 DEF CloseSession, BeginClose, poolVars, serverVars, PoolTypeOK
    <3>7. CASE HandlerReturns(c)
      BY <3>7 DEF HandlerReturns, poolVars, serverVars, PoolTypeOK
    <3>8. QED
      BY <2>5, <3>1, <3>2, <3>3, <3>4, <3>5, <3>6, <3>7 DEF RemoveClient
  <2>6. ASSUME NEW k \in Keys, Expire(k) PROVE TypeOK'
    BY <2>6
    DEF Expire, ReservationExpires, serverVars, sessionVars, PoolTypeOK,
        Reservation
  <2>7. CASE Cleanup
    <3>1. NoReservation \in Reservation
      BY DEF NoReservation, Reservation
    <3>2. QED
      BY <2>7, <3>1
      DEF Cleanup, CleanupPortReservations, serverVars, sessionVars, PoolTypeOK
  <2>8. CASE Terminated \/ UNCHANGED vars
    BY <2>8
    DEF Terminated, vars, poolVars, serverVars, sessionVars, PoolTypeOK
  <2>9. QED
    BY <2>1, <2>2, <2>3, <2>4, <2>5, <2>6, <2>7, <2>8 DEF Next
<1>3. QED
  BY <1>1, <1>2, PTL DEF Spec

-----------------------------------------------------------------------------
(***************************************************************************)
(* The pool. ExclusivePort is not inductive: a grant relies on the mark of *)
(* every held port (HeldPortIsMarked) and on the slice holding no marked   *)
(* port (PortAccounting), a release on no other session holding the port   *)
(* whose mark it takes away (ExclusivePort itself).                        *)
(***************************************************************************)
HeldPortIsMarked ==
    \A c \in Sessions :
        Holds(c) /\ publicPort[c] # PortStart => publicPort[c] \in usedPorts

\* A rate-limited session goes to removeClient without a port.
Unallocated == {"dialing", "handshake", "allocate"}

PortIsUnset ==
    \A c \in Sessions : pc[c] \in Unallocated => publicPort[c] = NoPort

PoolInv ==
    /\ PortAccounting
    /\ HeldPortIsMarked
    /\ ExclusivePort
    /\ PortIsUnset

\* What a step is to the pool when it neither grants nor releases a port.
LeavesPoolAlone ==
    /\ UNCHANGED <<availablePorts, usedPorts, publicPort>>
    /\ \A c \in Sessions :
         /\ Holds(c)' => Holds(c)
         /\ pc'[c] \in Unallocated => pc[c] \in Unallocated

KeepsLeases ==
    /\ LeavesPoolAlone
    /\ \A c \in Sessions : Holds(c) => Holds(c)'

\* A step that leaves the pool alone keeps the invariant.
LEMMA PoolLeftAlone == PoolInv /\ LeavesPoolAlone => PoolInv'
BY DEF PoolInv, LeavesPoolAlone, PortAccounting, HeldPortIsMarked,
       ExclusivePort, Holds, PortIsUnset

\* A session that is not in the table stops holding its port without giving
\* it back.
LEMMA RemoveNothingLeavesPoolAlone ==
    ASSUME TypeOK, NEW c \in Sessions, RemoveNothing(c)
    PROVE  LeavesPoolAlone
BY DEF RemoveNothing, LeavesPoolAlone, Holds, Holding, Unallocated, TypeOK,
       Goto, poolVars

\* Every step but the end of an allocation, a release and the teardown of a
\* session that is not in the table leaves the leases as they are.
LEMMA OtherStepsKeepLeases ==
    ASSUME TypeOK, PortIsUnset, [Next]_vars,
           \A c \in Sessions : ~ReleaseSessionPort(c) /\ ~RemoveNothing(c),
           \A c \in Sessions : \A p \in Ports : ~Allocate(c, p)
    PROVE  KeepsLeases
<1> USE DEF KeepsLeases, LeavesPoolAlone, Holds, Holding, Unallocated, TypeOK, Goto
<1>1. ASSUME NEW c \in Sessions, Handshake(c) PROVE KeepsLeases
  BY <1>1
  DEF Handshake, Accept, Reject, HandshakeFails, RateLimited,
      LookupReservation, PortIsUnset, poolVars
<1>2. ASSUME NEW c \in Sessions, HandleClient(c) PROVE KeepsLeases
  BY <1>2
  DEF HandleClient, AddClient, RegisterHTTPClient, RegisterHTTPFails, Reply,
      ReplyFails, poolVars
<1>3. ASSUME NEW c \in Sessions,
             \/ PeerHangsUp(c)
             \/ PeerFallsSilent(c)
             \/ ControlLoopEnds(c)
             \/ ControlLoopFails(c)
             \/ IdleTimeout(c)
             \/ FinishClose(c)
      PROVE  KeepsLeases
  BY <1>3
  DEF PeerHangsUp, PeerFallsSilent, ControlLoopEnds, ControlLoopFails,
      IdleTimeout, BeginClose, FinishClose, poolVars
<1>4. ASSUME NEW c \in Sessions, PublicListener(c) \/ AcceptFails(c)
      PROVE  KeepsLeases
  BY <1>4
  DEF PublicListener, Listen, ListenFails, CheckDone, StoreListener,
      DiscardListener, AcceptFails, CloseListener, AcceptEnds, poolVars
<1>5. ASSUME NEW c \in Sessions, RemoveClient(c) PROVE KeepsLeases
  BY <1>5
  DEF RemoveClient, RemoveEntry, ReserveSessionPort,
      UnregisterHTTPClient, CloseSession, BeginClose, HandlerReturns, poolVars
<1>6. CASE \/ \E k \in Keys : Expire(k)
           \/ Cleanup
           \/ Terminated
           \/ UNCHANGED vars
  BY <1>6 DEF Expire, Cleanup, Terminated, vars, poolVars, sessionVars
<1>7. QED
  BY <1>1, <1>2, <1>3, <1>4, <1>5, <1>6 DEF Next

\* A grant marks a port that was not marked, or shares the fallback port.
LEMMA GrantTakesUnmarkedPort ==
    ASSUME PoolTypeOK, PortAccounting,
           NEW k, NEW req, NEW res, NEW p \in Ports,
           GetNextPublicPort(k, req, res, p)
    PROVE  /\ PortAccounting'
           /\ p \in usedPorts' \/ p = PortStart
           /\ p \notin usedPorts \/ p = PortStart
           /\ usedPorts \subseteq usedPorts'
<1>1. TakePort(p) /\ p \notin usedPorts
         => /\ PortAccounting'
            /\ usedPorts' = usedPorts \cup {p}
  BY DEF TakePort, PoolTypeOK, PortAccounting
<1>2. IsHead(p) => p \notin usedPorts
  BY DEF IsHead, InPool, PortAccounting
<1>3. GrantFallback(req, p) => p = PortStart /\ UNCHANGED poolVars
  BY DEF GrantFallback
<1>4. CASE GrantFallback(req, p)
  BY <1>3, <1>4 DEF poolVars, PortAccounting
<1>5. CASE TakePort(p) /\ p \notin usedPorts
  BY <1>1, <1>5
<1>6. QED
  BY <1>2, <1>4, <1>5
  DEF GetNextPublicPort, GrantReserved, GrantRequested, GrantHead


\* The pool and its holders: from Init and the preservation by every step.
THEOREM PoolIsSound == Spec => []PoolInv
<1>1. Init => PoolInv
  <2> SUFFICES ASSUME Init PROVE PoolInv
    OBVIOUS
  <2>1. PortAccounting
    BY DEF Init, PoolInit, PortAccounting
  <2>2. \A c \in Sessions : ~Holds(c)
    BY DEF Init, Holds, Holding
  <2>3. PortIsUnset
    BY DEF Init, PortIsUnset
  <2>4. QED
    BY <2>1, <2>2, <2>3 DEF PoolInv, HeldPortIsMarked, ExclusivePort
<1>2. TypeOK /\ PoolInv /\ [Next]_vars => PoolInv'
  <2> SUFFICES ASSUME TypeOK, PoolInv, [Next]_vars PROVE PoolInv'
    OBVIOUS
  <2>1. ASSUME NEW c \in Sessions, NEW p \in Ports, Allocate(c, p)
        PROVE  PoolInv'
    <3>1. /\ PortAccounting'
          /\ p \in usedPorts' \/ p = PortStart
          /\ p \notin usedPorts \/ p = PortStart
          /\ usedPorts \subseteq usedPorts'
      BY <2>1, GrantTakesUnmarkedPort DEF Allocate, TypeOK, PoolInv
    <3>2. /\ publicPort' = [publicPort EXCEPT ![c] = p]
          /\ pc' = [pc EXCEPT ![c] = "add"]
      BY <2>1 DEF Allocate, Goto
    <3>3. \A d \in Sessions \ {c} : /\ publicPort'[d] = publicPort[d]
                                    /\ Holds(d)' <=> Holds(d)
                                    /\ pc'[d] = pc[d]
      BY <3>2 DEF TypeOK, Holds
    <3>4. publicPort'[c] = p /\ pc'[c] = "add"
      BY <3>2 DEF TypeOK
    <3>5. HeldPortIsMarked'
      BY <3>1, <3>3, <3>4 DEF PoolInv, HeldPortIsMarked
    <3>6. ExclusivePort'
      BY <3>1, <3>3, <3>4 DEF PoolInv, HeldPortIsMarked, ExclusivePort
    <3>7. PortIsUnset'
      BY <3>3, <3>4 DEF PoolInv, PortIsUnset, Unallocated
    <3>8. QED
      BY <3>1, <3>5, <3>6, <3>7 DEF PoolInv
  <2>2. ASSUME NEW c \in Sessions, ReleaseSessionPort(c) PROVE PoolInv'
    <3> DEFINE q == publicPort[c]
    <3>1. /\ UNCHANGED publicPort
          /\ pc[c] = "release"
          /\ pc' = [pc EXCEPT ![c] = "unregister"]
          /\ ReleaseToPool(q)
      BY <2>2 DEF ReleaseSessionPort, Goto
    <3>2. ~Holds(c)' /\ pc'[c] = "unregister"
      BY <3>1 DEF TypeOK, Holds, Holding
    <3>3. \A d \in Sessions \ {c} : (Holds(d)' <=> Holds(d)) /\ pc'[d] = pc[d]
      BY <3>1 DEF TypeOK, Holds
    <3>4. usedPorts \ {q} \subseteq usedPorts'
      BY <3>1 DEF ReleaseToPool
    <3>5. PortAccounting'
      BY <3>1 DEF ReleaseToPool, TypeOK, PoolTypeOK, PoolInv, PortAccounting
    <3>6. ASSUME NEW d \in Sessions, Holds(d)', publicPort'[d] # PortStart
          PROVE  publicPort'[d] \in usedPorts'
      <4>1. d # c /\ Holds(d) /\ publicPort'[d] = publicPort[d]
        BY <3>1, <3>2, <3>3, <3>6
      <4>2. publicPort[d] \in usedPorts
        BY <3>6, <4>1 DEF PoolInv, HeldPortIsMarked
      <4>3. CASE q = NoPort
        BY <3>4, <4>1, <4>2, <4>3 DEF Holds
      <4>4. CASE q # NoPort
        <5>1. Holds(c)
          BY <3>1, <4>4 DEF Holds, Holding
        <5>2. publicPort[d] # q
          BY <3>6, <4>1, <5>1 DEF PoolInv, ExclusivePort
        <5>3. QED
          BY <3>4, <4>1, <4>2, <5>2
      <4>5. QED
        BY <4>3, <4>4
    <3>7. ExclusivePort'
      BY <3>1, <3>2, <3>3 DEF PoolInv, ExclusivePort
    <3>8. PortIsUnset'
      BY <3>1, <3>2, <3>3 DEF PoolInv, PortIsUnset, Unallocated
    <3>9. QED
      BY <3>5, <3>6, <3>7, <3>8 DEF PoolInv, HeldPortIsMarked
  <2>3. ASSUME NEW c \in Sessions, RemoveNothing(c) PROVE PoolInv'
    BY <2>3, RemoveNothingLeavesPoolAlone, PoolLeftAlone
  <2>4. CASE /\ \A c \in Sessions : ~ReleaseSessionPort(c) /\ ~RemoveNothing(c)
             /\ \A c \in Sessions : \A p \in Ports : ~Allocate(c, p)
    BY <2>4, OtherStepsKeepLeases, PoolLeftAlone DEF PoolInv, KeepsLeases
  <2>5. QED
    BY <2>1, <2>2, <2>3, <2>4
<1>3. QED
  BY <1>1, <1>2, TypeCorrect, PTL DEF Spec

\* Whatever sessions come, leave, reconnect or take an ID over, the pool and
\* the marks account for every port exactly once.
THEOREM PoolAccountsForPorts == Spec => []PortAccounting
BY PoolIsSound, PTL DEF PoolInv

\* No port but publicPortStart is ever held by two sessions at once.
THEOREM PortsAreExclusive == Spec => []ExclusivePort
BY PoolIsSound, PTL DEF PoolInv

-----------------------------------------------------------------------------
(* The registry implements PortLease.                                      *)

\* A session that stops holding its port returns its lease, if it had one.
LEMMA StopHoldingIsReturn ==
    ASSUME TypeOK, NEW c \in Sessions,
           UNCHANGED publicPort,
           ~Holds(c)',
           \A d \in Sessions \ {c} : Holds(d)' <=> Holds(d)
    PROVE  [Lease!Next]_(Holders)
<1>1. \A p \in Ports : HoldersOf(p)' = HoldersOf(p) \ {c}
  BY DEF HoldersOf
<1>2. CASE Holds(c)
  <2>1. publicPort[c] \in Ports
    BY <1>2 DEF Holds, TypeOK
  <2>2. Lease!Leases(c) # {}
    BY <1>2, <2>1 DEF Lease!Leases, Holders, HoldersOf
  <2>3. Lease!Return(c)
    BY <1>1, <2>2 DEF Lease!Return, Holders
  <2>4. QED
    BY <2>3 DEF Lease!Next
<1>3. CASE ~Holds(c)
  <2>1. \A p \in Ports : HoldersOf(p)' = HoldersOf(p)
    BY <1>1, <1>3 DEF HoldersOf
  <2>2. QED
    BY <2>1 DEF Holders
<1>4. QED
  BY <1>2, <1>3

\* Ports are leased and returned as PortLease says, in every behaviour.
THEOREM RegistryImplementsPortLease == Spec => ImplementsPortLease
<1>1. Init => Lease!Init
  BY DEF Init, Lease!Init, Holders, HoldersOf, Holds, Holding
<1>2. TypeOK /\ PoolInv /\ [Next]_vars => [Lease!Next]_(Holders)
  <2> SUFFICES ASSUME TypeOK, PoolInv, [Next]_vars
               PROVE  [Lease!Next]_(Holders)
    OBVIOUS
  <2>1. ASSUME NEW c \in Sessions, NEW p \in Ports, Allocate(c, p)
        PROVE  [Lease!Next]_(Holders)
    <3>1. p \notin usedPorts \/ p = PortStart
      BY <2>1, GrantTakesUnmarkedPort DEF Allocate, TypeOK, PoolInv
    <3>2. HoldersOf(p) = {} \/ p = PortStart
      BY <3>1 DEF HoldersOf, PoolInv, HeldPortIsMarked
    <3>3. Lease!Leases(c) = {}
      BY <2>1
      DEF Allocate, Goto, Lease!Leases, Holders, HoldersOf, Holds, Holding
    <3>4. /\ pc[c] = "allocate"
          /\ publicPort' = [publicPort EXCEPT ![c] = p]
          /\ pc' = [pc EXCEPT ![c] = "add"]
      BY <2>1 DEF Allocate, Goto
    <3>5. p # NoPort
      BY PortsAreNonzero
    <3>6. \A q \in Ports :
             HoldersOf(q)' = IF q = p THEN HoldersOf(q) \cup {c} ELSE HoldersOf(q)
      BY <3>4, <3>5 DEF HoldersOf, Holds, Holding, TypeOK
    <3>7. Lease!Lease(c, p)
      BY <3>2, <3>3, <3>6 DEF Lease!Lease, Holders
    <3>8. QED
      BY <3>7 DEF Lease!Next
  <2>2. ASSUME NEW c \in Sessions, ReleaseSessionPort(c) \/ RemoveNothing(c)
        PROVE  [Lease!Next]_(Holders)
    <3>1. /\ UNCHANGED publicPort
          /\ ~Holds(c)'
          /\ \A d \in Sessions \ {c} : Holds(d)' <=> Holds(d)
      BY <2>2
      DEF ReleaseSessionPort, RemoveNothing, Goto, TypeOK, Holds, Holding
    <3>2. QED
      BY <3>1, StopHoldingIsReturn
  <2>3. CASE /\ \A c \in Sessions : ~ReleaseSessionPort(c) /\ ~RemoveNothing(c)
             /\ \A c \in Sessions : \A p \in Ports : ~Allocate(c, p)
    <3>1. KeepsLeases
      BY <2>3, OtherStepsKeepLeases DEF PoolInv
    <3>2. \A p \in Ports : HoldersOf(p)' = HoldersOf(p)
      BY <3>1 DEF KeepsLeases, LeavesPoolAlone, HoldersOf
    <3>3. QED
      BY <3>2 DEF Holders
  <2>4. QED
    BY <2>1, <2>2, <2>3
<1>3. QED
  BY <1>1, <1>2, TypeCorrect, PoolIsSound, PTL
  DEF Spec, ImplementsPortLease, Lease!Spec

-----------------------------------------------------------------------------
(* The table of clients.                                                   *)

\* One step of the registry keeps the table leading to live sessions, and
\* takes entries out as EntryOutlivesPredecessor says.
EntryKept ==
    \A i \in ClientIDs : \A c \in Sessions :
        clients[i] = c /\ clients'[i] # c =>
            \/ pc[c] = "remove" /\ pc'[c] # "remove"
            \/ \E d \in Sessions : clients'[i] = d /\ pc[d] = "add"

LEMMA TableStep ==
    ASSUME TypeOK, ClientsAreLive, [Next]_vars
    PROVE  ClientsAreLive' /\ EntryKept
<1> USE DEF TypeOK, ClientsAreLive, EntryKept, Goto
<1>1. ASSUME NEW c \in Sessions, Handshake(c)
      PROVE  ClientsAreLive' /\ EntryKept
  BY <1>1
  DEF Handshake, Accept, Reject, HandshakeFails, RateLimited,
      LookupReservation, serverVars
<1>2. ASSUME NEW c \in Sessions, HandleClient(c)
      PROVE  ClientsAreLive' /\ EntryKept
  <2>1. CASE AddClient(c)
    <3>1. /\ pc[c] = "add"
          /\ clients' = [clients EXCEPT ![msg[c].clientID] = c]
          /\ pc'[c] \in {"subdomain", "reply"}
          /\ \A d \in Sessions \ {c} : pc'[d] = pc[d]
          /\ msg' = msg
      BY <2>1 DEF AddClient
    <3>2. \A i \in ClientIDs :
             IF i = msg[c].clientID THEN clients'[i] = c
                                    ELSE clients'[i] = clients[i]
      BY <3>1
    <3>3. QED
      BY <3>1, <3>2
  <2>2. CASE ~AddClient(c)
    BY <1>2, <2>2
    DEF HandleClient, Allocate, RegisterHTTPClient, RegisterHTTPFails, Reply,
        ReplyFails, serverVars
  <2>3. QED
    BY <2>1, <2>2
<1>3. ASSUME NEW c \in Sessions,
             \/ PeerHangsUp(c)
             \/ PeerFallsSilent(c)
             \/ ControlLoopEnds(c)
             \/ ControlLoopFails(c)
             \/ IdleTimeout(c)
             \/ FinishClose(c)
             \/ PublicListener(c)
             \/ AcceptFails(c)
      PROVE  ClientsAreLive' /\ EntryKept
  BY <1>3
  DEF PeerHangsUp, PeerFallsSilent, ControlLoopEnds, ControlLoopFails,
      IdleTimeout, BeginClose, FinishClose, PublicListener, Listen,
      ListenFails, CheckDone, StoreListener, DiscardListener, AcceptFails,
      CloseListener, AcceptEnds, serverVars
<1>4. ASSUME NEW c \in Sessions, RemoveClient(c)
      PROVE  ClientsAreLive' /\ EntryKept
  <2>1. CASE RemoveEntry(c)
    <3>1. /\ pc[c] = "remove" /\ pc'[c] = "reserve"
          /\ clients[msg[c].clientID] = c
          /\ clients' = [clients EXCEPT ![msg[c].clientID] = NoSession]
          /\ \A d \in Sessions \ {c} : pc'[d] = pc[d]
          /\ msg' = msg
      BY <2>1 DEF RemoveEntry, IsCurrent
    <3>2. \A i \in ClientIDs :
             IF i = msg[c].clientID THEN clients'[i] = NoSession
                                    ELSE clients'[i] = clients[i]
      BY <3>1
    <3>3. \A i \in ClientIDs : clients'[i] # c
      BY <3>1, <3>2, NilAssumption
    <3>4. QED
      BY <3>1, <3>2, <3>3, NilAssumption
  <2>2. CASE RemoveNothing(c)
    <3>1. \A i \in ClientIDs : clients[i] # c
      BY <2>2, NilAssumption DEF RemoveNothing, IsCurrent, NoMessage
    <3>2. QED
      BY <2>2, <3>1 DEF RemoveNothing, serverVars
  <2>3. CASE ~RemoveEntry(c) /\ ~RemoveNothing(c)
    BY <1>4, <2>3
    DEF RemoveClient, ReserveSessionPort, ReleaseSessionPort,
        UnregisterHTTPClient, CloseSession, BeginClose, HandlerReturns,
        serverVars
  <2>4. QED
    BY <2>1, <2>2, <2>3
<1>5. CASE \/ \E k \in Keys : Expire(k)
           \/ Cleanup
           \/ Terminated
           \/ UNCHANGED vars
  BY <1>5 DEF Expire, Cleanup, Terminated, vars, serverVars, sessionVars
<1>6. QED
  BY <1>1, <1>2, <1>3, <1>4, <1>5 DEF Next

\* Following an entry of the table never finds a session that is over, for
\* any number of registrations of an ID.
THEOREM TableLeadsToLiveSessions == Spec => []ClientsAreLive
<1>1. Init => ClientsAreLive
  BY NilAssumption DEF Init, ClientsAreLive
<1>2. TypeOK /\ ClientsAreLive /\ [Next]_vars => ClientsAreLive'
  BY TableStep
<1>3. QED
  BY <1>1, <1>2, TypeCorrect, PTL DEF Spec

\* The teardown of a replaced session never takes its successor's entry away.
THEOREM SuccessorKeepsItsEntry == Spec => EntryOutlivesPredecessor
<1>1. TypeOK /\ ClientsAreLive /\ [Next]_vars => [EntryKept]_vars
  BY TableStep
<1>2. EntryOutlivesPredecessor <=> [][EntryKept]_vars
  BY DEF EntryOutlivesPredecessor, EntryKept
<1>3. QED
  BY <1>1, <1>2, TypeCorrect, TableLeadsToLiveSessions, PTL DEF Spec

-----------------------------------------------------------------------------
(***************************************************************************)
(* The listeners. That Close leaves no listener behind rests on the lock   *)
(* between storing and closing (StoreIsUnderLock) and on a port being      *)
(* bound only by a goroutine that can still unbind it (BoundByGoroutine).  *)
(***************************************************************************)
StoreIsUnderLock ==
    \A c \in Sessions : listener[c] = "store" => closing[c] # "closed"

BoundByGoroutine ==
    \A p \in Ports : \A c \in Sessions :
        portOwner[p] = c =>
            /\ publicPort[c] = p
            /\ listener[c] \in {"check", "store", "discard", "accept"}

NoListenerBeforeReply ==
    \A c \in Sessions :
        pc[c] \in {"dialing", "handshake", "allocate", "add", "subdomain", "reply"}
            => listener[c] = "none"

ListenerInv ==
    /\ NoOrphanListener
    /\ StoreIsUnderLock
    /\ BoundByGoroutine
    /\ NoListenerBeforeReply

\* One step of the registry keeps the listener invariant.
LEMMA ListenerStep ==
    ASSUME TypeOK, ListenerInv, [Next]_vars PROVE ListenerInv'
<1> USE NilAssumption
    DEF TypeOK, PCs, ListenerInv, NoOrphanListener, StoreIsUnderLock,
        BoundByGoroutine, NoListenerBeforeReply, Goto
<1>1. ASSUME NEW c \in Sessions, Handshake(c) PROVE ListenerInv'
  BY <1>1
  DEF Handshake, Accept, Reject, HandshakeFails, RateLimited,
      LookupReservation, serverVars
<1>2. ASSUME NEW c \in Sessions, HandleClient(c) PROVE ListenerInv'
  <2>1. ASSUME NEW p \in Ports, Allocate(c, p) PROVE ListenerInv'
    <3>1. \A q \in Ports : portOwner[q] # c
      BY <2>1 DEF Allocate
    <3>2. QED
      BY <2>1, <3>1 DEF Allocate
  <2>2. CASE Reply(c)
    <3>1. \A q \in Ports : portOwner[q] # c
      BY <2>2 DEF Reply
    <3>2. QED
      BY <2>2, <3>1 DEF Reply, serverVars
  <2>3. QED
    BY <1>2, <2>1, <2>2
    DEF HandleClient, AddClient, RegisterHTTPClient, RegisterHTTPFails,
        ReplyFails, serverVars
<1>3. ASSUME NEW c \in Sessions,
             \/ PeerHangsUp(c)
             \/ PeerFallsSilent(c)
             \/ ControlLoopEnds(c)
             \/ ControlLoopFails(c)
             \/ IdleTimeout(c)
      PROVE  ListenerInv'
  BY <1>3
  DEF PeerHangsUp, PeerFallsSilent, ControlLoopEnds, ControlLoopFails,
      IdleTimeout, BeginClose, serverVars
<1>4. ASSUME NEW c \in Sessions, FinishClose(c) PROVE ListenerInv'
  <2>1. /\ listener[c] # "store"
        /\ closing' = [closing EXCEPT ![c] = "closed"]
        /\ UNCHANGED <<listener, pc, publicPort>>
        /\ \A p \in Ports :
             portOwner'[p] = IF portOwner[p] = c /\ listener[c] = "accept"
                               THEN NoSession ELSE portOwner[p]
    BY <1>4 DEF FinishClose
  <2>2. QED
    BY <2>1
<1>5. ASSUME NEW c \in Sessions, PublicListener(c) \/ AcceptFails(c)
      PROVE  ListenerInv'
  <2>1. CASE Listen(c)
    BY <2>1 DEF Listen
  <2>2. CASE ListenFails(c)
    BY <2>2 DEF ListenFails, serverVars
  <2>3. CASE CheckDone(c)
    BY <2>3 DEF CheckDone, Done, serverVars
  <2>4. CASE StoreListener(c)
    BY <2>4 DEF StoreListener, serverVars
  <2>5. CASE DiscardListener(c) \/ AcceptFails(c)
    BY <2>5 DEF DiscardListener, AcceptFails, CloseListener
  <2>6. CASE AcceptEnds(c)
    BY <2>6 DEF AcceptEnds, serverVars
  <2>7. QED
    BY <1>5, <2>1, <2>2, <2>3, <2>4, <2>5, <2>6 DEF PublicListener
<1>6. ASSUME NEW c \in Sessions, RemoveClient(c) PROVE ListenerInv'
  BY <1>6
  DEF RemoveClient, RemoveEntry, RemoveNothing, ReserveSessionPort,
      ReleaseSessionPort, UnregisterHTTPClient, CloseSession, BeginClose,
      HandlerReturns, serverVars
<1>7. CASE \/ \E k \in Keys : Expire(k)
           \/ Cleanup
           \/ Terminated
           \/ UNCHANGED vars
  BY <1>7 DEF Expire, Cleanup, Terminated, vars, serverVars, sessionVars
<1>8. QED
  BY <1>1, <1>2, <1>3, <1>4, <1>5, <1>6, <1>7 DEF Next

\* However Close interleaves with the setup of the listener, no listener
\* stays behind a closed session.
THEOREM NoListenerIsOrphaned == Spec => []NoOrphanListener
<1>1. Init => ListenerInv
  BY NilAssumption
  DEF Init, ListenerInv, NoOrphanListener, StoreIsUnderLock,
      BoundByGoroutine, NoListenerBeforeReply
<1>2. TypeOK /\ ListenerInv /\ [Next]_vars => ListenerInv'
  BY ListenerStep
<1>3. ListenerInv => NoOrphanListener
  BY DEF ListenerInv
<1>4. QED
  BY <1>1, <1>2, <1>3, TypeCorrect, PTL DEF Spec

-----------------------------------------------------------------------------
(***************************************************************************)
(* The subdomains. A session keeps its subdomain because only it can       *)
(* unregister the name: a name leads to the one session that drew it.      *)
(***************************************************************************)
NameLeadsToItsDrawer ==
    \A n \in Subdomains : \A c \in Sessions :
        subdomains[n] = c => subdomain[c] = n

NoNameBeforeRegistration ==
    \A c \in Sessions :
        pc[c] \in {"dialing", "handshake", "allocate", "add", "subdomain"}
            => subdomain[c] = NoName

SubdomainInv ==
    /\ SubdomainLeadsToSession
    /\ NameLeadsToItsDrawer
    /\ NoNameBeforeRegistration

\* One step of the registry keeps the subdomain invariant.
LEMMA SubdomainStep ==
    ASSUME TypeOK, SubdomainInv, [Next]_vars PROVE SubdomainInv'
<1> USE NilAssumption
    DEF TypeOK, PCs, SubdomainInv, SubdomainLeadsToSession,
        NameLeadsToItsDrawer, NoNameBeforeRegistration, Goto
<1>1. ASSUME NEW c \in Sessions, Handshake(c) PROVE SubdomainInv'
  BY <1>1
  DEF Handshake, Accept, Reject, HandshakeFails, RateLimited,
      LookupReservation, serverVars
<1>2. ASSUME NEW c \in Sessions, HandleClient(c) PROVE SubdomainInv'
  <2>1. ASSUME NEW n \in Subdomains, RegisterHTTPClient(c, n)
        PROVE  SubdomainInv'
    BY <2>1 DEF RegisterHTTPClient
  <2>2. QED
    BY <1>2, <2>1
    DEF HandleClient, Allocate, AddClient, RegisterHTTPFails, Reply,
        ReplyFails, serverVars
<1>3. ASSUME NEW c \in Sessions,
             \/ PeerHangsUp(c)
             \/ PeerFallsSilent(c)
             \/ ControlLoopEnds(c)
             \/ ControlLoopFails(c)
             \/ IdleTimeout(c)
             \/ FinishClose(c)
             \/ PublicListener(c)
             \/ AcceptFails(c)
      PROVE  SubdomainInv'
  BY <1>3
  DEF PeerHangsUp, PeerFallsSilent, ControlLoopEnds, ControlLoopFails,
      IdleTimeout, BeginClose, FinishClose, PublicListener, Listen,
      ListenFails, CheckDone, StoreListener, DiscardListener, AcceptFails,
      CloseListener, AcceptEnds, serverVars
<1>4. ASSUME NEW c \in Sessions, RemoveClient(c) PROVE SubdomainInv'
  <2>1. CASE UnregisterHTTPClient(c)
    BY <2>1 DEF UnregisterHTTPClient
  <2>2. QED
    BY <1>4, <2>1
    DEF RemoveClient, RemoveEntry, RemoveNothing, ReserveSessionPort,
        ReleaseSessionPort, CloseSession, BeginClose, HandlerReturns,
        serverVars
<1>5. CASE \/ \E k \in Keys : Expire(k)
           \/ Cleanup
           \/ Terminated
           \/ UNCHANGED vars
  BY <1>5 DEF Expire, Cleanup, Terminated, vars, serverVars, sessionVars
<1>6. QED
  BY <1>1, <1>2, <1>3, <1>4, <1>5 DEF Next

\* An HTTP session is reached under its subdomain until it unregisters,
\* whatever the others draw, lose and give up.
THEOREM SubdomainsLeadToSessions == Spec => []SubdomainLeadsToSession
<1>1. Init => SubdomainInv
  BY NilAssumption
  DEF Init, SubdomainInv, SubdomainLeadsToSession, NameLeadsToItsDrawer,
      NoNameBeforeRegistration
<1>2. TypeOK /\ SubdomainInv /\ [Next]_vars => SubdomainInv'
  BY SubdomainStep
<1>3. SubdomainInv => SubdomainLeadsToSession
  BY DEF SubdomainInv
<1>4. QED
  BY <1>1, <1>2, <1>3, TypeCorrect, PTL DEF Spec
-----------------------------------------------------------------------------
(***************************************************************************)
(* The handlers: their locks, their slots and their connections. Whoever    *)
(* has begun to close a session has closed its connection, and a handler    *)
(* that does not go through Close closes it itself.                         *)
(***************************************************************************)
CloseHangsUp == \A c \in Sessions : Done(c) => conn[c] = "closed"

HandlerInv ==
    /\ LocksAreOwned
    /\ IsFiniteSet(InHandler)
    /\ HandlersAreBounded
    /\ CloseHangsUp

LEMMA HandlerInitInv == Init => HandlerInv
<1> SUFFICES ASSUME Init PROVE HandlerInv
  OBVIOUS
<1>1. InHandler = {}
  BY DEF Init, InHandler
<1>2. IsFiniteSet(InHandler) /\ Cardinality(InHandler) = 0
  BY <1>1, FS_EmptySet
<1>3. Cardinality(InHandler) <= MaxConnections
  BY <1>2, MaxConnectionsAssumption
<1>4. LocksAreOwned
  BY NilAssumption DEF Init, LocksAreOwned
<1>5. QED
  BY <1>2, <1>3, <1>4 DEF Init, HandlerInv, HandlersAreBounded, CloseHangsUp, Done

\* A step that starts no handler.
LEMMA NoHandlerStarts ==
    ASSUME HandlerInv, InHandler' \in SUBSET InHandler
    PROVE  IsFiniteSet(InHandler') /\ Cardinality(InHandler') <= MaxConnections
<1>1. IsFiniteSet(InHandler') /\ Cardinality(InHandler') <= Cardinality(InHandler)
  BY FS_Subset DEF HandlerInv
<1>2. Cardinality(InHandler') \in Nat /\ Cardinality(InHandler) \in Nat
  BY <1>1, FS_CardinalityType DEF HandlerInv
<1>3. QED
  BY <1>1, <1>2, MaxConnectionsAssumption DEF HandlerInv, HandlersAreBounded

\* The parts of the invariant that are about one handler.
GoneHasHungUp == \A c \in Sessions : pc[c] = "gone" => conn[c] = "closed"

OneByOne == LocksAreOwned /\ CloseHangsUp /\ GoneHasHungUp

LEMMA HandlerStep == TypeOK /\ HandlerInv /\ [Next]_vars => HandlerInv'
<1> SUFFICES ASSUME TypeOK, HandlerInv, [Next]_vars PROVE HandlerInv'
  OBVIOUS
<1>t. /\ pc = [c \in Sessions |-> pc[c]] /\ conn = [c \in Sessions |-> conn[c]]
      /\ closing = [c \in Sessions |-> closing[c]] /\ OneByOne
  BY DEF TypeOK, HandlerInv, HandlersAreBounded, GoneHasHungUp, OneByOne
<1>s. ASSUME OneByOne', InHandler' \in SUBSET InHandler PROVE HandlerInv'
  BY <1>s, NoHandlerStarts DEF OneByOne, GoneHasHungUp, HandlerInv, HandlersAreBounded
<1>1. ASSUME NEW c \in Sessions, Accept(c) PROVE HandlerInv'
  <2>1. /\ pc[c] = "dialing" /\ pc' = [pc EXCEPT ![c] = "handshake"]
        /\ Cardinality(InHandler) < MaxConnections
        /\ UNCHANGED <<conn, closing, portMu, clientsMu>>
    BY <1>1 DEF Accept, Goto, serverVars
  <2>2. OneByOne'
    BY <1>t, <2>1
    DEF OneByOne, LocksAreOwned, CloseHangsUp, GoneHasHungUp, Done
  <2>3. InHandler' = InHandler \cup {c} /\ c \notin InHandler
    BY <1>t, <2>1 DEF InHandler
  <2>4. IsFiniteSet(InHandler') /\ Cardinality(InHandler') = Cardinality(InHandler) + 1
    BY <2>3, FS_AddElement DEF HandlerInv
  <2>5. Cardinality(InHandler) \in Nat
    BY FS_CardinalityType DEF HandlerInv
  <2>6. Cardinality(InHandler') <= MaxConnections
    BY <2>1, <2>4, <2>5, MaxConnectionsAssumption
  <2>7. QED
    BY <2>2, <2>4, <2>6
    DEF OneByOne, GoneHasHungUp, HandlerInv, HandlersAreBounded
<1> USE NilAssumption
    DEF OneByOne, LocksAreOwned, CloseHangsUp, GoneHasHungUp, Done, InHandler, Goto,
        serverVars, sessionVars
<1>2. ASSUME NEW c \in Sessions, Reject(c) \/ HandshakeFails(c) \/ RateLimited(c)
      PROVE  OneByOne' /\ InHandler' \in SUBSET InHandler
  <2>1. /\ pc[c] \in {"dialing", "handshake"}
        /\ pc' = [pc EXCEPT ![c] = pc'[c]] /\ pc'[c] \in {"gone", "remove"}
        /\ pc'[c] = "remove" => pc[c] = "handshake"
        /\ conn' = [conn EXCEPT ![c] = "closed"]
        /\ UNCHANGED <<closing, portMu, clientsMu>>
    BY <1>t, <1>2 DEF Reject, HandshakeFails, RateLimited
  <2>2. QED
    BY <1>t, <2>1
<1>3. ASSUME NEW c \in Sessions, NEW m \in RegisterMessage, LookupReservation(c, m)
      PROVE  OneByOne' /\ InHandler' \in SUBSET InHandler
  BY <1>t, <1>3 DEF LookupReservation
<1>4. ASSUME NEW c \in Sessions, NEW p \in Ports, Allocate(c, p)
      PROVE  OneByOne' /\ InHandler' \in SUBSET InHandler
  BY <1>t, <1>4 DEF Allocate
<1>5. ASSUME NEW c \in Sessions, AddClient(c) \/ Reply(c)
      PROVE  OneByOne' /\ InHandler' \in SUBSET InHandler
  BY <1>t, <1>5 DEF AddClient, Reply
<1>6. ASSUME NEW c \in Sessions, NEW n \in Subdomains, RegisterHTTPClient(c, n)
      PROVE  OneByOne' /\ InHandler' \in SUBSET InHandler
  BY <1>t, <1>6 DEF RegisterHTTPClient
<1>7. ASSUME NEW c \in Sessions, RegisterHTTPFails(c) \/ ReplyFails(c) \/ ControlLoopFails(c)
      PROVE  OneByOne' /\ InHandler' \in SUBSET InHandler
  BY <1>t, <1>7 DEF RegisterHTTPFails, ReplyFails, ControlLoopFails
<1>8. ASSUME NEW c \in Sessions, PeerHangsUp(c) \/ PeerFallsSilent(c) \/ ControlLoopEnds(c)
      PROVE  OneByOne' /\ InHandler' \in SUBSET InHandler
  BY <1>t, <1>8 DEF PeerHangsUp, PeerFallsSilent, ControlLoopEnds
<1>9. ASSUME NEW c \in Sessions, IdleTimeout(c) \/ CloseSession(c)
      PROVE  OneByOne' /\ InHandler' \in SUBSET InHandler
  BY <1>t, <1>9 DEF IdleTimeout, CloseSession, BeginClose
<1>10. ASSUME NEW c \in Sessions, FinishClose(c) \/ PublicListener(c) \/ AcceptFails(c)
       PROVE  OneByOne' /\ InHandler' \in SUBSET InHandler
  <2>1. /\ UNCHANGED <<pc, conn, portMu, clientsMu>>
        /\ \A d \in Sessions : Done(d)' <=> Done(d)
    BY <1>t, <1>10
    DEF FinishClose, PublicListener, AcceptFails, Listen, ListenFails, CheckDone,
        StoreListener, DiscardListener, AcceptEnds, CloseListener
  <2>2. QED
    BY <1>t, <2>1
<1>11. ASSUME NEW c \in Sessions, RemoveEntry(c) \/ RemoveNothing(c)
       PROVE  OneByOne' /\ InHandler' \in SUBSET InHandler
  BY <1>t, <1>11 DEF RemoveEntry, RemoveNothing
<1>12. ASSUME NEW c \in Sessions, ReserveSessionPort(c) \/ ReleaseSessionPort(c)
       PROVE  OneByOne' /\ InHandler' \in SUBSET InHandler
  BY <1>t, <1>12 DEF ReserveSessionPort, ReleaseSessionPort
<1>13. ASSUME NEW c \in Sessions, UnregisterHTTPClient(c) \/ HandlerReturns(c)
       PROVE  OneByOne' /\ InHandler' \in SUBSET InHandler
  BY <1>t, <1>13 DEF UnregisterHTTPClient, HandlerReturns
<1>14. ASSUME UNCHANGED <<pc, conn, closing, portMu, clientsMu>>
       PROVE  OneByOne' /\ InHandler' \in SUBSET InHandler
  BY <1>t, <1>14
<1>15. ASSUME (\E k \in Keys : Expire(k)) \/ Cleanup \/ Terminated \/ UNCHANGED vars
       PROVE  OneByOne' /\ InHandler' \in SUBSET InHandler
  BY <1>14, <1>15 DEF Expire, Cleanup, Terminated, vars
<1>16. QED
  BY <1>s, <1>1, <1>2, <1>3, <1>4, <1>5, <1>6, <1>7, <1>8, <1>9, <1>10, <1>11, <1>12,
     <1>13, <1>15
  DEF Next, Handshake, HandleClient, RemoveClient

THEOREM HandlersAreSound == Spec => []HandlerInv
BY HandlerInitInv, HandlerStep, TypeCorrect, PTL DEF Spec

\* portMu and clientsMu are in the hands of the handler that is between taking and
\* releasing them, and of nobody else: no path of the code leaks one.
THEOREM LocksFollowHandlers == Spec => []LocksAreOwned
<1>1. HandlerInv => LocksAreOwned
  BY DEF HandlerInv
<1>2. QED
  BY <1>1, HandlersAreSound, PTL

\* connSemaphore bounds the handlers for any number of connections, and no handler
\* gives its slot back with its connection open.
THEOREM SlotsBoundHandlers == Spec => []HandlersAreBounded
<1>1. HandlerInv => HandlersAreBounded
  BY DEF HandlerInv
<1>2. QED
  BY <1>1, HandlersAreSound, PTL
=============================================================================
