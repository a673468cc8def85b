----------------------- MODULE ProxyRendezvousProofs ------------------------
(* Theorems about ProxyRendezvous for any number of public and data        *)
(* connections.                                                            *)
EXTENDS ProxyRendezvous, TLAPS

\* Every variable of the rendezvous keeps its type.
THEOREM TypeCorrect == Spec => []TypeOK
<1> USE DEF TypeOK, ConnStates, Step, waiterVars, dialVars
<1>1. Init => TypeOK
  BY DEF Init
<1>2. TypeOK /\ [Next]_vars => TypeOK'
  <2> SUFFICES ASSUME TypeOK, [Next]_vars PROVE TypeOK'
    OBVIOUS
  <2>1. ASSUME NEW p \in Proxies, Waiter(p) PROVE TypeOK'
    <3>1. ASSUME NEW d \in DataConns, TakeConn(p, d) PROVE TypeOK'
      BY <3>1 DEF TakeConn
    <3>2. QED
      BY <2>1, <3>1
      DEF Waiter, NoID, RegisterWaiter, AskClient, AskFails, TakeRefusal,
          TimeOut, StreamEnds, Leave
  <2>2. ASSUME NEW p \in Proxies, NEW way \in Directions, CopyStep(p, way)
        PROVE  TypeOK'
    <3>1. \/ copier' = [copier EXCEPT ![p][way] = "reading"]
          \/ copier' = [copier EXCEPT ![p][way] = "writing"]
          \/ copier' = [copier EXCEPT ![p][way] = "returned"]
      BY <2>2
      DEF CopyStep, CopyReads, CopyReadEnds, CopyWrites, CopyWriteFails, Copier
    <3>2. UNCHANGED <<waiter, proxyWaiting, waitCh, spliced, dial, names,
                      cancelling>>
      BY <2>2
      DEF CopyStep, CopyReads, CopyReadEnds, CopyWrites, CopyWriteFails, Copier
    <3>3. CloseBoth(p, way) \/ UNCHANGED <<publicConn, dataConn>>
      BY <2>2
      DEF CopyStep, CopyReads, CopyReadEnds, CopyWrites, CopyWriteFails
    <3>4. publicConn' \in [Proxies -> ConnStates]
      BY <3>3 DEF CloseBoth
    <3>5. dataConn' \in [DataConns -> ConnStates]
      BY <3>3 DEF CloseBoth
    <3>6. copier' \in [Proxies -> [Directions ->
                         {"idle", "reading", "writing", "returned"}]]
      <4>1. CASE copier' = [copier EXCEPT ![p][way] = "reading"]
        BY <4>1
      <4>2. CASE copier' = [copier EXCEPT ![p][way] = "writing"]
        BY <4>2
      <4>3. CASE copier' = [copier EXCEPT ![p][way] = "returned"]
        BY <4>3
      <4>4. QED
        BY <3>1, <4>1, <4>2, <4>3
    <3>7. QED
      BY <3>2, <3>4, <3>5, <3>6
  <2>3. ASSUME NEW p \in Proxies, CancelFinds(p) \/ CancelDelivers(p) \/ PublicPeerCloses(p)
        PROVE  TypeOK'
    BY <2>3 DEF CancelFinds, CancelDelivers, PublicPeerCloses
  <2>4. ASSUME NEW d \in DataConns, NEW p \in Proxies \cup {UnknownID},
               ClientDials(d, p)
        PROVE  TypeOK'
    BY <2>4 DEF ClientDials
  <2>5. ASSUME NEW d \in DataConns, DispatchFinds(d) \/ DispatchFindsNone(d)
        PROVE  TypeOK'
    BY <2>5 DEF DispatchFinds, DispatchFindsNone
  <2>6. ASSUME NEW d \in DataConns, Deliver(d) PROVE TypeOK'
    BY <2>6 DEF Deliver
  <2>7. ASSUME NEW d \in DataConns, ClientPeerCloses(d) PROVE TypeOK'
    BY <2>7 DEF ClientPeerCloses
  <2>8. CASE Terminated \/ UNCHANGED vars
    BY <2>8 DEF Terminated, vars
  <2>9. QED
    BY <2>1, <2>2, <2>3, <2>4, <2>5, <2>6, <2>7, <2>8
    DEF Next, Dispatch
<1>3. QED
  BY <1>1, <1>2, PTL DEF Spec

-----------------------------------------------------------------------------
(***************************************************************************)
(* The right to send passes from the map to whoever takes the waiter out,  *)
(* and is used up by sending. A waiter that is still in the map, or not    *)
(* yet, is vacant: nothing was sent to it and nobody is about to send.     *)
(***************************************************************************)
Vacant(p) ==
    /\ waitCh[p] = Empty
    /\ p \notin cancelling
    /\ \A d \in DataConns : ~HasTurn(d, p)

UnfoundIsVacant ==
    \A p \in Proxies :
        p \in proxyWaiting \/ waiter[p] = "new" => Vacant(p)

SplicedHasStream ==
    \A p \in Proxies :
        spliced[p] # NoConn => waiter[p] \in {"streaming", "leaving", "done"}

TurnFollowsLookup ==
    \A p \in Proxies : \A d \in DataConns :
        HasTurn(d, p) => dial[d] \in {"deliver", "done"}

RendezvousInv ==
    /\ SendersFindRoom
    /\ OneConnPerID
    /\ EntryHasWaiter
    /\ UnfoundIsVacant
    /\ SplicedHasStream
    /\ TurnFollowsLookup

\* One step of the rendezvous keeps the invariant.
LEMMA RendezvousStep ==
    ASSUME TypeOK, RendezvousInv, [Next]_vars PROVE RendezvousInv'
<1> USE NilAssumption
    DEF TypeOK, RendezvousInv, SendersFindRoom, OneConnPerID, EntryHasWaiter,
        UnfoundIsVacant, SplicedHasStream, TurnFollowsLookup, Vacant, HasTurn,
        Delivering, Step, waiterVars, dialVars
<1>1. ASSUME NEW p \in Proxies, NoID(p) \/ RegisterWaiter(p)
      PROVE  RendezvousInv'
  <2>1. CASE NoID(p)
    BY <2>1 DEF NoID
  <2>2. CASE RegisterWaiter(p)
    BY <2>2 DEF RegisterWaiter
  <2>3. QED
    BY <1>1, <2>1, <2>2
<1>2. ASSUME NEW p \in Proxies,
             AskClient(p) \/ AskFails(p) \/ TimeOut(p) \/ StreamEnds(p)
      PROVE  RendezvousInv'
  <2>1. CASE AskClient(p)
    BY <2>1 DEF AskClient
  <2>2. CASE AskFails(p)
    BY <2>2 DEF AskFails
  <2>3. CASE TimeOut(p)
    BY <2>3 DEF TimeOut
  <2>4. CASE StreamEnds(p)
    BY <2>4 DEF StreamEnds
  <2>5. QED
    BY <1>2, <2>1, <2>2, <2>3, <2>4
<1>3. ASSUME NEW p \in Proxies, NEW d \in DataConns, TakeConn(p, d)
      PROVE  RendezvousInv'
  BY <1>3 DEF TakeConn
<1>4. ASSUME NEW p \in Proxies, TakeRefusal(p) PROVE RendezvousInv'
  BY <1>4 DEF TakeRefusal
<1>5. ASSUME NEW p \in Proxies, Leave(p) PROVE RendezvousInv'
  BY <1>5 DEF Leave
<1>6. ASSUME NEW p \in Proxies, NEW way \in Directions, CopyStep(p, way)
      PROVE  RendezvousInv'
  <2>1. UNCHANGED <<waiter, proxyWaiting, waitCh, spliced, dial, names,
                    cancelling>>
    BY <1>6
    DEF CopyStep, CopyReads, CopyReadEnds, CopyWrites, CopyWriteFails, Copier
  <2>2. QED
    BY <2>1
<1>7. ASSUME NEW p \in Proxies, CancelFinds(p) PROVE RendezvousInv'
  BY <1>7 DEF CancelFinds
<1>8. ASSUME NEW p \in Proxies, PublicPeerCloses(p) PROVE RendezvousInv'
  BY <1>8 DEF PublicPeerCloses
<1>9. ASSUME NEW d \in DataConns, NEW p \in Proxies \cup {UnknownID},
             ClientDials(d, p)
      PROVE  RendezvousInv'
  BY <1>9 DEF ClientDials
<1>10. ASSUME NEW d \in DataConns, DispatchFinds(d) PROVE RendezvousInv'
  BY <1>10 DEF DispatchFinds
<1>11. ASSUME NEW d \in DataConns, DispatchFindsNone(d) \/ ClientPeerCloses(d)
       PROVE  RendezvousInv'
  BY <1>11 DEF DispatchFindsNone, ClientPeerCloses
<1>12. ASSUME NEW d \in DataConns, Deliver(d) PROVE RendezvousInv'
  BY <1>12 DEF Deliver
<1>13. ASSUME NEW p \in Proxies, CancelDelivers(p) PROVE RendezvousInv'
  BY <1>13 DEF CancelDelivers
<1>14. CASE Terminated \/ UNCHANGED vars
  BY <1>14 DEF Terminated, vars
<1>15. QED
  BY <1>1, <1>2, <1>3, <1>4, <1>5, <1>6, <1>7, <1>8, <1>9, <1>10, <1>11,
     <1>12, <1>13, <1>14
  DEF Next, Waiter, Dispatch

\* The invariant of the rendezvous holds in every reachable state.
THEOREM RendezvousIsSound == Spec => []RendezvousInv
<1>1. Init => RendezvousInv
  BY NilAssumption
  DEF Init, RendezvousInv, SendersFindRoom, OneConnPerID, EntryHasWaiter,
      UnfoundIsVacant, SplicedHasStream, TurnFollowsLookup, Vacant, HasTurn,
      Delivering
<1>2. TypeOK /\ RendezvousInv /\ [Next]_vars => RendezvousInv'
  BY RendezvousStep
<1>3. QED
  BY <1>1, <1>2, TypeCorrect, PTL DEF Spec

\* A sender never waits for room, and a refusal is never dropped.
THEOREM SendersNeverWait == Spec => []SendersFindRoom
BY RendezvousIsSound, PTL DEF RendezvousInv

\* A public connection gets at most one data connection, its own.
THEOREM ConnIsTheOnlyOne == Spec => []OneConnPerID
BY RendezvousIsSound, PTL DEF RendezvousInv

\* The map of waiters keeps nobody who is not waiting any more.
THEOREM NoStaleWaiter == Spec => []EntryHasWaiter
BY RendezvousIsSound, PTL DEF RendezvousInv

-----------------------------------------------------------------------------
(***************************************************************************)
(* The server implements ConnMatching. A match is made where a waiter is   *)
(* taken out of the map; after that the connection moves from the          *)
(* goroutine to the channel and from there to the stream, which the        *)
(* matching does not see. A stream is over when both its connections are   *)
(* closed since a copier that has returned has closed them.                *)
(***************************************************************************)
StreamHasConn ==
    \A p \in Proxies : waiter[p] = "streaming" => spliced[p] \in DataConns

BothClosed(p) ==
    /\ spliced[p] \in DataConns
    /\ publicConn[p] = "closed" /\ dataConn[spliced[p]] = "closed"

ReturnedHasClosed ==
    \A p \in Proxies : \A way \in Directions :
        copier[p][way] = "returned" => BothClosed(p)

OverIsClosed ==
    \A p \in Proxies :
        waiter[p] \in {"leaving", "done"} /\ spliced[p] # NoConn => BothClosed(p)

UntriedIsOpen ==
    \A d \in DataConns : dial[d] \in {"none", "lookup"} => dataConn[d] # "closed"

UndialledNamesNone == \A d \in DataConns : dial[d] = "none" => names[d] = UnknownID

StreamInv ==
    /\ StreamHasConn
    /\ ReturnedHasClosed
    /\ OverIsClosed
    /\ UntriedIsOpen
    /\ UndialledNamesNone

\* Both closing calls of a copier reach the connections of its own stream.
LEMMA CopyStepInv ==
    ASSUME TypeOK, RendezvousInv, StreamInv,
           NEW p \in Proxies, NEW way \in Directions, CopyStep(p, way)
    PROVE  StreamInv'
<1>1. /\ UNCHANGED <<waiter, proxyWaiting, waitCh, spliced, dial, names, cancelling>>
      /\ waiter[p] = "streaming"
  BY DEF CopyStep, CopyReads, CopyReadEnds, CopyWrites, CopyWriteFails, Copier
<1>2. spliced[p] \in DataConns /\ dial[spliced[p]] \notin {"none", "lookup"}
  BY <1>1
  DEF StreamInv, StreamHasConn, RendezvousInv, TurnFollowsLookup, HasTurn
<1>3. CASE /\ UNCHANGED <<publicConn, dataConn>>
           /\ \E to \in {"reading", "writing"} : copier' = [copier EXCEPT ![p][way] = to]
  <2>1. ASSUME NEW q \in Proxies, NEW v \in Directions, copier'[q][v] = "returned"
        PROVE  copier[q][v] = "returned"
    BY <1>3, <2>1 DEF TypeOK
  <2>2. QED
    BY <1>1, <1>3, <2>1
    DEF StreamInv, StreamHasConn, ReturnedHasClosed, OverIsClosed, UntriedIsOpen,
        UndialledNamesNone, BothClosed
<1>4. CASE CloseBoth(p, way) /\ copier' = [copier EXCEPT ![p][way] = "returned"]
  <2>1. /\ publicConn' = [publicConn EXCEPT ![p] = "closed"]
        /\ dataConn' = [dataConn EXCEPT ![spliced[p]] = "closed"]
    BY <1>4 DEF CloseBoth
  <2>2. BothClosed(p)' /\ \A q \in Proxies : BothClosed(q) => BothClosed(q)'
    BY <1>1, <1>2, <2>1 DEF BothClosed, TypeOK
  <2>3. ASSUME NEW q \in Proxies, NEW v \in Directions, copier'[q][v] = "returned"
        PROVE  q = p \/ copier[q][v] = "returned"
    BY <1>4, <2>3 DEF TypeOK
  <2>4. UntriedIsOpen'
    BY <1>1, <1>2, <2>1 DEF UntriedIsOpen, StreamInv, TypeOK
  <2>5. QED
    BY <1>1, <2>2, <2>3, <2>4
    DEF StreamInv, StreamHasConn, ReturnedHasClosed, OverIsClosed, UndialledNamesNone
<1>5. QED
  BY <1>3, <1>4 DEF CopyStep, CopyReads, CopyReadEnds, CopyWrites, CopyWriteFails, Copier

LEMMA StreamStep ==
    ASSUME TypeOK, RendezvousInv, StreamInv, [Next]_vars PROVE StreamInv'
<1> USE NilAssumption
    DEF TypeOK, StreamInv, StreamHasConn, ReturnedHasClosed, OverIsClosed, UntriedIsOpen,
        UndialledNamesNone, BothClosed, Step, waiterVars, dialVars
<1>1. ASSUME NEW p \in Proxies, NoID(p) \/ RegisterWaiter(p) \/ AskClient(p) \/ AskFails(p)
                                \/ TakeRefusal(p) \/ TimeOut(p)
      PROVE  StreamInv'
  <2>1. spliced[p] = NoConn
    BY <1>1 DEF NoID, RegisterWaiter, AskClient, AskFails, TakeRefusal, TimeOut,
                RendezvousInv, SplicedHasStream
  <2>2. QED
    BY <1>1, <2>1 DEF NoID, RegisterWaiter, AskClient, AskFails, TakeRefusal, TimeOut
<1>2. ASSUME NEW p \in Proxies, NEW d \in DataConns, TakeConn(p, d) PROVE StreamInv'
  BY <1>2 DEF TakeConn
<1>3. ASSUME NEW p \in Proxies, StreamEnds(p) PROVE StreamInv'
  <2>1. "up" \in Directions
    BY DEF Directions
  <2>2. QED
    BY <1>3, <2>1 DEF StreamEnds
<1>4. ASSUME NEW p \in Proxies, Leave(p) PROVE StreamInv'
  BY <1>4 DEF Leave
<1>5. ASSUME NEW p \in Proxies, NEW way \in Directions, CopyStep(p, way) PROVE StreamInv'
  BY <1>5, CopyStepInv
<1>6. ASSUME NEW p \in Proxies, CancelFinds(p) \/ PublicPeerCloses(p) PROVE StreamInv'
  BY <1>6 DEF CancelFinds, PublicPeerCloses
<1>7. ASSUME NEW d \in DataConns, NEW p \in Proxies \cup {UnknownID}, ClientDials(d, p)
      PROVE  StreamInv'
  BY <1>7 DEF ClientDials
<1>8. ASSUME NEW d \in DataConns, DispatchFinds(d) \/ DispatchFindsNone(d) \/ Deliver(d)
      PROVE  StreamInv'
  BY <1>8 DEF DispatchFinds, DispatchFindsNone, Deliver
<1>9. ASSUME NEW d \in DataConns, ClientPeerCloses(d) PROVE StreamInv'
  BY <1>9 DEF ClientPeerCloses
<1>10. ASSUME NEW p \in Proxies, CancelDelivers(p) PROVE StreamInv'
  BY <1>10 DEF CancelDelivers
<1>11. CASE Terminated \/ UNCHANGED vars
  BY <1>11 DEF Terminated, vars
<1>12. QED
  BY <1>1, <1>2, <1>3, <1>4, <1>5, <1>6, <1>7, <1>8, <1>9, <1>10, <1>11
  DEF Next, Waiter, Dispatch

LEMMA StreamInitInv == Init => StreamInv
BY NilAssumption
DEF Init, StreamInv, StreamHasConn, ReturnedHasClosed, OverIsClosed, UntriedIsOpen,
        UndialledNamesNone

MVars == <<[p \in Proxies |-> StateOf(p)], [p \in Proxies |-> MatchOf(p)], names,
           ShutPublic, ShutData>>

RefStep == [Matching!Next]_MVars

\* What the matching does not see.
LEMMA Unseen ==
    ASSUME \A p \in Proxies : StateOf(p)' = StateOf(p) /\ MatchOf(p)' = MatchOf(p),
           names' = names, ShutPublic' = ShutPublic, ShutData' = ShutData
    PROVE  RefStep
BY DEF RefStep, MVars

\* A step of handlePublicConnection that changes neither what it was matched with
\* nor what is closed moves its connection along the matching.
LEMMA WaiterStepIsMatching ==
    ASSUME TypeOK, RendezvousInv, StreamInv, NEW p \in Proxies, Waiter(p)
    PROVE  RefStep
<1> USE NilAssumption DEF TypeOK, Step, waiterVars, dialVars
<1>i. SendersFindRoom /\ OneConnPerID /\ EntryHasWaiter /\ UnfoundIsVacant /\ SplicedHasStream
  BY DEF RendezvousInv
<1>1. CASE NoID(p)
  <2>1. /\ \A q \in Proxies : MatchOf(q)' = MatchOf(q)
        /\ \A q \in Proxies \ {p} : StateOf(q)' = StateOf(q)
        /\ StateOf(p) = "new" /\ StateOf(p)' = "ended"
    BY <1>1 DEF NoID, MatchOf, HasTurn, Delivering, StateOf
  <2>2. ShutPublic' = ShutPublic \cup {p} /\ ShutData' = ShutData /\ names' = names
    BY <1>1 DEF NoID, ShutPublic, ShutData
  <2>3. Matching!End(p)
    BY <2>1, <2>2 DEF Matching!End, Matching!Becomes
  <2>4. QED
    BY <2>3 DEF RefStep, Matching!Next
<1>2. CASE RegisterWaiter(p)
  <2>1. /\ \A q \in Proxies : MatchOf(q)' = MatchOf(q)
        /\ \A q \in Proxies \ {p} : StateOf(q)' = StateOf(q)
        /\ StateOf(p) = "new" /\ StateOf(p)' = "open"
    BY <1>2 DEF RegisterWaiter, MatchOf, HasTurn, Delivering, StateOf
  <2>2. ShutPublic' = ShutPublic /\ ShutData' = ShutData /\ names' = names
    BY <1>2 DEF RegisterWaiter, ShutPublic, ShutData
  <2>3. Matching!Ask(p)
    BY <2>1, <2>2 DEF Matching!Ask, Matching!Becomes
  <2>4. QED
    BY <2>3 DEF RefStep, Matching!Next
<1>3. CASE AskClient(p) \/ AskFails(p) \/ TimeOut(p) \/ StreamEnds(p)
  <2>1. UNCHANGED <<proxyWaiting, waitCh, spliced, publicConn, dial, names, dataConn>>
    BY <1>3 DEF AskClient, AskFails, TimeOut, StreamEnds
  <2>2. \A q \in Proxies : StateOf(q)' = StateOf(q)
    BY <1>3, <2>1 DEF AskClient, AskFails, TimeOut, StreamEnds, StateOf
  <2>3. QED
    BY <2>1, <2>2, Unseen DEF MatchOf, HasTurn, Delivering, ShutPublic, ShutData
<1>4. ASSUME NEW d \in DataConns, TakeConn(p, d) PROVE RefStep
  <2>1. spliced[p] = NoConn /\ p \notin proxyWaiting
    BY <1>4, <1>i DEF TakeConn, SplicedHasStream, UnfoundIsVacant, Vacant
  <2>2. /\ waitCh[p] = d /\ waitCh' = [waitCh EXCEPT ![p] = Empty]
        /\ spliced' = [spliced EXCEPT ![p] = d]
        /\ UNCHANGED <<proxyWaiting, publicConn, dial, names, dataConn>>
    BY <1>4 DEF TakeConn
  <2>3. \A q \in Proxies : MatchOf(q)' = MatchOf(q)
    BY <2>1, <2>2 DEF MatchOf, HasTurn, Delivering
  <2>4. /\ \A q \in Proxies \ {p} : StateOf(q)' = StateOf(q)
        /\ StateOf(p) = "settled" /\ StateOf(p)' = "joined"
    BY <1>4, <2>1, <2>2 DEF TakeConn, StateOf
  <2>5. d \in MatchOf(p)
    BY <2>2 DEF MatchOf, HasTurn
  <2>6. ShutPublic' = ShutPublic /\ ShutData' = ShutData
    BY <2>2 DEF ShutPublic, ShutData
  <2>7. Matching!Join(p)
    BY <2>2, <2>3, <2>4, <2>5, <2>6 DEF Matching!Join, Matching!Becomes
  <2>8. QED
    BY <2>7 DEF RefStep, Matching!Next
<1>5. CASE TakeRefusal(p)
  <2>1. /\ waitCh[p] = Refused /\ waitCh' = [waitCh EXCEPT ![p] = Empty]
        /\ UNCHANGED <<proxyWaiting, spliced, publicConn, dial, names, dataConn>>
    BY <1>5 DEF TakeRefusal
  <2>2. \A q \in Proxies : StateOf(q)' = StateOf(q)
    BY <1>5, <2>1 DEF TakeRefusal, StateOf
  <2>3. \A q \in Proxies : MatchOf(q)' = MatchOf(q)
    BY <2>1 DEF MatchOf, HasTurn, Delivering
  <2>4. QED
    BY <2>1, <2>2, <2>3, Unseen DEF ShutPublic, ShutData
<1>6. CASE Leave(p)
  <2>1. /\ proxyWaiting' = proxyWaiting \ {p}
        /\ publicConn' = [publicConn EXCEPT ![p] = "closed"]
        /\ UNCHANGED <<waitCh, spliced, dial, names, dataConn>>
        /\ waiter[p] = "leaving" /\ waiter' = [waiter EXCEPT ![p] = "done"]
    BY <1>6 DEF Leave
  <2>2. /\ \A q \in Proxies : MatchOf(q)' = MatchOf(q)
        /\ ShutPublic' = ShutPublic \cup {p} /\ ShutData' = ShutData
    BY <2>1 DEF MatchOf, HasTurn, Delivering, ShutPublic, ShutData
  <2>3. /\ \A q \in Proxies \ {p} : StateOf(q)' = StateOf(q)
        /\ StateOf(p) \in {"open", "settled", "joined"} /\ StateOf(p)' = "ended"
    BY <2>1 DEF StateOf
  <2>4. ASSUME StateOf(p) = "joined" PROVE p \in ShutPublic /\ MatchOf(p) \subseteq ShutData
    <3>1. BothClosed(p)
      BY <2>1, <2>4 DEF StateOf, StreamInv, OverIsClosed
    <3>2. MatchOf(p) = {spliced[p]}
      BY <1>i, <3>1 DEF MatchOf, HasTurn, OneConnPerID, BothClosed
    <3>3. QED
      BY <3>1, <3>2 DEF BothClosed, ShutPublic, ShutData
  <2>5. Matching!End(p)
    BY <2>1, <2>2, <2>3, <2>4 DEF Matching!End, Matching!Becomes
  <2>6. QED
    BY <2>5 DEF RefStep, Matching!Next
<1>7. QED
  BY <1>1, <1>2, <1>3, <1>4, <1>5, <1>6 DEF Waiter

\* A copier closes the two connections of its stream together.
LEMMA CopyStepIsMatching ==
    ASSUME TypeOK, RendezvousInv, StreamInv, NEW p \in Proxies, NEW way \in Directions,
           CopyStep(p, way)
    PROVE  RefStep
<1>1. /\ UNCHANGED <<waiter, proxyWaiting, waitCh, spliced, dial, names>>
      /\ waiter[p] = "streaming"
      /\ CloseBoth(p, way) \/ UNCHANGED <<publicConn, dataConn>>
  BY DEF CopyStep, CopyReads, CopyReadEnds, CopyWrites, CopyWriteFails, Copier
<1>2. \A q \in Proxies : MatchOf(q)' = MatchOf(q) /\ StateOf(q)' = StateOf(q)
  BY <1>1 DEF MatchOf, HasTurn, Delivering, StateOf
<1>3. CASE UNCHANGED <<publicConn, dataConn>>
  BY <1>1, <1>2, <1>3, Unseen DEF ShutPublic, ShutData
<1>4. CASE CloseBoth(p, way)
  <2>1. spliced[p] \in DataConns /\ p \notin proxyWaiting
    BY <1>1 DEF StreamInv, StreamHasConn, RendezvousInv, EntryHasWaiter
  <2>2. StateOf(p) = "joined"
    BY <1>1, <2>1, NilAssumption DEF StateOf
  <2>3. MatchOf(p) = {spliced[p]}
    BY <2>1 DEF MatchOf, HasTurn, RendezvousInv, OneConnPerID
  <2>4. ShutPublic' = ShutPublic \cup {p} /\ ShutData' = ShutData \cup MatchOf(p)
    BY <1>4, <2>1, <2>3 DEF CloseBoth, ShutPublic, ShutData, TypeOK
  <2>5. Matching!Shut(p)
    BY <1>1, <1>2, <2>2, <2>4 DEF Matching!Shut
  <2>6. QED
    BY <2>5 DEF RefStep, Matching!Next
<1>5. QED
  BY <1>1, <1>3, <1>4

\* The goroutines of data connections: the one that finds the waiter makes the
\* match, and a connection that finds none is turned down.
LEMMA DispatchStepIsMatching ==
    ASSUME TypeOK, RendezvousInv, StreamInv, NEW d \in DataConns, Dispatch(d)
    PROVE  RefStep
<1> USE NilAssumption DEF TypeOK, waiterVars
<1>i. SendersFindRoom /\ OneConnPerID /\ EntryHasWaiter /\ UnfoundIsVacant /\ TurnFollowsLookup
  BY DEF RendezvousInv
<1>1. CASE DispatchFinds(d)
  <2> DEFINE p == names[d]
  <2>1. /\ dial[d] = "lookup" /\ p \in proxyWaiting /\ p \in Proxies
        /\ proxyWaiting' = proxyWaiting \ {p}
        /\ dial' = [dial EXCEPT ![d] = "deliver"]
        /\ UNCHANGED <<waiter, spliced, publicConn, waitCh, names, dataConn>>
    BY <1>1 DEF DispatchFinds
  <2>2. \A e \in DataConns : Delivering(e, p)' <=> Delivering(e, p) \/ e = d
    BY <2>1 DEF Delivering
  <2>3. ASSUME NEW q \in Proxies \ {p}, NEW e \in DataConns
        PROVE  Delivering(e, q)' <=> Delivering(e, q)
    BY <2>1 DEF Delivering
  <2>4. MatchOf(p) = {} /\ spliced[p] = NoConn
    BY <1>i, <2>1 DEF UnfoundIsVacant, Vacant, MatchOf, HasTurn
  <2>5. MatchOf(p)' = {d} /\ \A q \in Proxies \ {p} : MatchOf(q)' = MatchOf(q)
    BY <2>1, <2>2, <2>3, <2>4 DEF MatchOf, HasTurn
  <2>6. /\ \A q \in Proxies \ {p} : StateOf(q)' = StateOf(q)
        /\ StateOf(p) = "open" /\ StateOf(p)' = "settled"
    BY <1>i, <2>1, <2>4 DEF StateOf, EntryHasWaiter
  <2>7. ShutPublic' = ShutPublic /\ ShutData' = ShutData /\ d \notin ShutData
    BY <2>1 DEF ShutPublic, ShutData, StreamInv, UntriedIsOpen
  <2>8. Matching!Match(p, d)
    BY <2>1, <2>5, <2>6, <2>7 DEF Matching!Match, Matching!Becomes
  <2>9. QED
    BY <2>1, <2>8 DEF RefStep, Matching!Next
<1>2. CASE DispatchFindsNone(d)
  <2>1. /\ dial[d] = "lookup" /\ dial' = [dial EXCEPT ![d] = "done"]
        /\ dataConn' = [dataConn EXCEPT ![d] = "closed"]
        /\ UNCHANGED <<waiter, spliced, publicConn, proxyWaiting, waitCh, names>>
    BY <1>2 DEF DispatchFindsNone
  <2>2. \A q \in Proxies : MatchOf(q)' = MatchOf(q) /\ StateOf(q)' = StateOf(q)
    BY <2>1 DEF MatchOf, HasTurn, Delivering, StateOf
  <2>3. \A q \in Proxies : d \notin MatchOf(q)
    BY <1>i, <2>1 DEF TurnFollowsLookup, MatchOf
  <2>4. ShutPublic' = ShutPublic /\ ShutData' = ShutData \cup {d}
    BY <2>1 DEF ShutPublic, ShutData
  <2>5. Matching!TurnDown(d)
    BY <2>1, <2>2, <2>3, <2>4 DEF Matching!TurnDown
  <2>6. QED
    BY <2>5 DEF RefStep, Matching!Next
<1>3. CASE Deliver(d)
  <2> DEFINE p == names[d]
  <2>1. /\ dial[d] = "deliver" /\ dial' = [dial EXCEPT ![d] = "done"]
        /\ waitCh[p] = Empty /\ waitCh' = [waitCh EXCEPT ![p] = d]
        /\ UNCHANGED <<waiter, spliced, publicConn, proxyWaiting, names, dataConn>>
    BY <1>3 DEF Deliver
  <2>2. \A q \in Proxies : \A e \in DataConns : HasTurn(e, q)' <=> HasTurn(e, q)
    BY <2>1 DEF HasTurn, Delivering
  <2>3. \A q \in Proxies : MatchOf(q)' = MatchOf(q) /\ StateOf(q)' = StateOf(q)
    BY <2>1, <2>2 DEF MatchOf, StateOf
  <2>4. QED
    BY <2>1, <2>3, Unseen DEF ShutPublic, ShutData
<1>4. QED
  BY <1>1, <1>2, <1>3 DEF Dispatch

\* Every behaviour of the server is one of the matching, for any number of public
\* and data connections: who takes a waiter out of the map decides for good, and no
\* stream is over with one of its connections open.
THEOREM RendezvousImplementsMatching == Spec => ImplementsMatching
<1>1. Init => Matching!Init
  BY NilAssumption
  DEF Init, Matching!Init, StateOf, MatchOf, HasTurn, Delivering, ShutPublic, ShutData
<1>2. TypeOK /\ RendezvousInv /\ StreamInv /\ [Next]_vars => RefStep
  <2> SUFFICES ASSUME TypeOK, RendezvousInv, StreamInv, [Next]_vars PROVE RefStep
    OBVIOUS
  <2> USE NilAssumption DEF TypeOK, waiterVars, dialVars
  <2>1. ASSUME NEW p \in Proxies, Waiter(p) PROVE RefStep
    BY <2>1, WaiterStepIsMatching
  <2>2. ASSUME NEW p \in Proxies, NEW way \in Directions, CopyStep(p, way) PROVE RefStep
    BY <2>2, CopyStepIsMatching
  <2>3. ASSUME NEW p \in Proxies, CancelFinds(p) PROVE RefStep
    <3>1. /\ p \in proxyWaiting /\ proxyWaiting' = proxyWaiting \ {p}
          /\ UNCHANGED <<waiter, spliced, publicConn, waitCh, dial, names, dataConn>>
      BY <2>3 DEF CancelFinds
    <3>2. spliced[p] = NoConn /\ waiter[p] \notin {"new", "done"}
      BY <3>1 DEF RendezvousInv, UnfoundIsVacant, Vacant, HasTurn, EntryHasWaiter
    <3>3. /\ \A q \in Proxies : MatchOf(q)' = MatchOf(q)
          /\ ShutPublic' = ShutPublic /\ ShutData' = ShutData
      BY <3>1 DEF MatchOf, HasTurn, Delivering, ShutPublic, ShutData
    <3>4. /\ \A q \in Proxies \ {p} : StateOf(q)' = StateOf(q)
          /\ StateOf(p) = "open" /\ StateOf(p)' = "settled"
      BY <3>1, <3>2 DEF StateOf
    <3>5. Matching!Withdraw(p)
      BY <3>1, <3>3, <3>4 DEF Matching!Withdraw, Matching!Becomes
    <3>6. QED
      BY <3>5 DEF RefStep, Matching!Next
  <2>4. ASSUME NEW p \in Proxies, PublicPeerCloses(p) PROVE RefStep
    BY <2>4, Unseen
    DEF PublicPeerCloses, MatchOf, HasTurn, Delivering, StateOf, ShutPublic, ShutData
  <2>5. ASSUME NEW d \in DataConns, ClientPeerCloses(d) PROVE RefStep
    BY <2>5, Unseen
    DEF ClientPeerCloses, MatchOf, HasTurn, Delivering, StateOf, ShutPublic, ShutData
  <2>6. ASSUME NEW d \in DataConns, NEW p \in Proxies \cup {UnknownID}, ClientDials(d, p)
        PROVE  RefStep
    <3>1. /\ dial[d] = "none" /\ dial' = [dial EXCEPT ![d] = "lookup"]
          /\ names' = [names EXCEPT ![d] = p]
          /\ UNCHANGED <<waiter, spliced, publicConn, proxyWaiting, waitCh, dataConn>>
      BY <2>6 DEF ClientDials
    <3>2. \A q \in Proxies : \A e \in DataConns : HasTurn(e, q)' <=> HasTurn(e, q)
      BY <3>1 DEF HasTurn, Delivering
    <3>3. /\ \A q \in Proxies : MatchOf(q)' = MatchOf(q) /\ StateOf(q)' = StateOf(q)
          /\ ShutPublic' = ShutPublic /\ ShutData' = ShutData
      BY <3>1, <3>2 DEF MatchOf, StateOf, ShutPublic, ShutData
    <3>4. names[d] = UnknownID
      BY <3>1 DEF StreamInv, UndialledNamesNone
    <3>5. CASE p \in Proxies
      <4>1. Matching!Dial(d, p)
        BY <3>1, <3>3, <3>4 DEF Matching!Dial
      <4>2. QED
        BY <3>5, <4>1 DEF RefStep, Matching!Next
    <3>6. CASE p = UnknownID
      BY <3>1, <3>3, <3>4, <3>6, Unseen
    <3>7. QED
      BY <3>5, <3>6
  <2>7. ASSUME NEW d \in DataConns, Dispatch(d) PROVE RefStep
    BY <2>7, DispatchStepIsMatching
  <2>8. ASSUME NEW p \in Proxies, CancelDelivers(p) PROVE RefStep
    <3>1. \A q \in Proxies : \A e \in DataConns : waitCh'[q] = e <=> waitCh[q] = e
      BY <2>8 DEF CancelDelivers
    <3>2. QED
      BY <2>8, <3>1, Unseen
      DEF CancelDelivers, MatchOf, HasTurn, Delivering, StateOf, ShutPublic, ShutData
  <2>9. CASE Terminated \/ UNCHANGED vars
    BY <2>9, Unseen
    DEF Terminated, vars, MatchOf, HasTurn, Delivering, StateOf, ShutPublic, ShutData
  <2>10. QED
    BY <2>1, <2>2, <2>3, <2>4, <2>5, <2>6, <2>7, <2>8, <2>9 DEF Next
<1>3. TypeOK /\ RendezvousInv /\ StreamInv /\ [Next]_vars => StreamInv'
  BY StreamStep
<1>4. QED
  BY <1>1, <1>2, <1>3, StreamInitInv, TypeCorrect, RendezvousIsSound, PTL
  DEF Spec, ImplementsMatching, Matching!Spec, RefStep, MVars, Matching!vars
=============================================================================
