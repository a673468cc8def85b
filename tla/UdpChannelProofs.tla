-------------------------- MODULE UdpChannelProofs --------------------------
(* Theorems about UdpChannel for any number of connections, of attempts and *)
(* of ping loops.                                                           *)
EXTENDS UdpChannel, TLAPS

\* The numbers of connections and of ping loops.
LEMMA Numbers ==
    /\ 0..MaxConns = Conns \cup {Nil} /\ Nil \notin Conns
    /\ 0..MaxLoops = Loops \cup {Nil} /\ Nil \notin Loops
    /\ \A i \in 0..MaxConns : i < MaxConns => i + 1 \in Conns
    /\ 0 \in 0..MaxRetries
    /\ \A i \in 0..MaxRetries : i < MaxRetries => i + 1 \in 0..MaxRetries
BY ChannelAssumption DEF Conns, Loops, Nil

\* What the retry goroutine of a channel and a ping loop can be at.
LEMMA Records ==
    /\ \A at \in {"none", "top", "select", "ended"}, of \in 0..MaxConns,
          tries \in 0..MaxRetries : Trying(at, of, tries) \in RetryStages
    /\ \A at \in {"free", "wait"}, of \in 0..MaxConns : Stage(at, of) \in LoopStages
    /\ \A s \in RetryStages : s.tries \in 0..MaxRetries
BY DEF Trying, RetryStages, Stage, LoopStages

\* stopUDPPing and closing the socket keep the types of what they change.
LEMMA StopPingType ==
    ASSUME TypeOK, StopPing
    PROVE  ping' \in 0..MaxLoops /\ stopped' \subseteq Loops
BY Numbers DEF TypeOK, StopPing

LEMMA CloseSockType ==
    ASSUME TypeOK, CloseSock
    PROVE  sock' \in 0..MaxConns /\ open' \subseteq Conns
BY Numbers DEF TypeOK, CloseSock

LEMMA WriteHandshakeType ==
    ASSUME TypeOK, WriteHandshake
    PROVE  toServer' \subseteq Conns
BY Numbers DEF TypeOK, WriteHandshake

\* Every variable of the channel keeps its type.
THEOREM TypeCorrect == Spec => []TypeOK
<1> USE DEF sockVars, pingVars, packets
<1>1. Init => TypeOK
  <2>1. /\ Trying("none", Nil, 0) \in RetryStages
        /\ Stage("free", Nil) \in LoopStages
    BY Numbers, Records
  <2>2. Init => /\ retry \in [Conns -> RetryStages]
                /\ loop \in [Loops -> LoopStages]
                /\ reader \in [Conns -> ReaderPlaces]
    BY <2>1 DEF Init, ReaderPlaces
  <2>3. QED
    BY <2>2, Numbers DEF Init, TypeOK, RunPlaces, Nil
<1>2. TypeOK /\ [Next]_vars => TypeOK'
  <2> SUFFICES ASSUME TypeOK, [Next]_vars PROVE TypeOK'
    OBVIOUS
  <2>1. CASE Connect
    BY <2>1, Numbers, StopPingType DEF Connect, TypeOK, RunPlaces, Nil
  <2>2. CASE CloseDone
    BY <2>2, Numbers DEF CloseDone, TypeOK, RunPlaces, Nil
  <2>3. CASE Registered \/ SetupFails \/ ClosePing
    BY <2>3, StopPingType DEF Registered, SetupFails, ClosePing, TypeOK, RunPlaces
  <2>4. CASE RegisterFails
    <3>1. /\ sock' \in 0..MaxConns /\ open' \subseteq Conns
          /\ ping' \in 0..MaxLoops /\ stopped' \subseteq Loops
      BY <2>4, StopPingType, CloseSockType DEF RegisterFails
    <3>2. QED
      BY <2>4, <3>1 DEF RegisterFails, TypeOK, RunPlaces
  <2>5. CASE SetupUDPChannel
    BY <2>5, Numbers DEF SetupUDPChannel, TypeOK, RunPlaces, Nil
  <2>6. CASE StartReader
    BY <2>6, StopPingType DEF StartReader, TypeOK, RunPlaces, ReaderPlaces
  <2>7. CASE HandshakeBurst
    <3>1. Trying("top", Nil, 0) \in RetryStages /\ toServer' \subseteq Conns
      BY <2>7, Numbers, Records, WriteHandshakeType DEF HandshakeBurst
    <3>2. QED
      BY <2>7, <3>1 DEF HandshakeBurst, TypeOK, RunPlaces
  <2>8. CASE DropSocket
    BY <2>8, CloseSockType DEF DropSocket, TypeOK, RunPlaces
  <2>9. CASE ServerAnswersHandshake
    BY <2>9 DEF ServerAnswersHandshake, TypeOK
  <2>10. ASSUME NEW n \in Conns, Reader(n) PROVE TypeOK'
    <3>1. CASE ReadPacket(n)
      BY <3>1 DEF ReadPacket, TypeOK, ReaderPlaces
    <3>2. CASE HandshakeDone(n)
      BY <3>2 DEF HandshakeDone, TypeOK, ReaderPlaces
    <3>3. CASE PingIsThere(n)
      BY <3>3 DEF PingIsThere, TypeOK, ReaderPlaces
    <3>4. CASE StartPing(n)
      <4>1. PICK l \in Loops :
              /\ ping' = l
              /\ stopped' = stopped \ {l}
              /\ loop' = [loop EXCEPT ![l] = Stage("wait", conn)]
        BY <3>4 DEF StartPing
      <4>2. Stage("wait", conn) \in LoopStages
        BY Records DEF TypeOK
      <4>3. QED
        BY <3>4, <4>1, <4>2, Numbers DEF StartPing, TypeOK, ReaderPlaces
    <3>5. CASE ReadFails(n)
      BY <3>5, StopPingType DEF ReadFails, TypeOK, ReaderPlaces
    <3>6. QED
      BY <2>10, <3>1, <3>2, <3>3, <3>4, <3>5 DEF Reader
  <2>11. ASSUME NEW n \in Conns, Retry(n) PROVE TypeOK'
    <3> DEFINE tries == retry[n].tries
    <3>1. tries \in 0..MaxRetries
      BY Records DEF TypeOK
    <3>2. /\ Trying("ended", Nil, tries) \in RetryStages
          /\ Trying("select", conn, tries) \in RetryStages
      BY <3>1, Numbers, Records DEF TypeOK
    <3>3. CASE RetryChecks(n)
      BY <3>2, <3>3 DEF RetryChecks, TypeOK
    <3>4. CASE RetrySends(n)
      <4>1. Trying("top", Nil, tries + 1) \in RetryStages
        BY <3>1, <3>4, Numbers, Records DEF RetrySends
      <4>2. toServer' \subseteq Conns
        BY <3>4, WriteHandshakeType DEF RetrySends
      <4>3. QED
        BY <3>4, <4>1, <4>2 DEF RetrySends, TypeOK
    <3>5. CASE RetryGivesUp(n)
      BY <3>2, <3>5, CloseSockType DEF RetryGivesUp, TypeOK
    <3>6. CASE RetrySeesDone(n)
      BY <3>2, <3>6 DEF RetrySeesDone, TypeOK
    <3>7. QED
      BY <2>11, <3>3, <3>4, <3>5, <3>6 DEF Retry
  <2>12. ASSUME NEW l \in Loops, PingLoop(l) PROVE TypeOK'
    <3>1. /\ Stage("wait", conn) \in LoopStages
          /\ Stage("free", Nil) \in LoopStages
      BY Numbers, Records DEF TypeOK
    <3>2. QED
      BY <2>12, <3>1 DEF PingLoop, SendPing, PingLoopEnds, TypeOK
  <2>13. CASE UNCHANGED vars
    BY <2>13 DEF vars, TypeOK
  <2>14. QED
    BY <2>1, <2>2, <2>3, <2>4, <2>5, <2>6, <2>7, <2>8, <2>9, <2>10, <2>11, <2>12, <2>13
    DEF Next, RunSteps
<1>3. QED
  BY <1>1, <1>2, PTL DEF Spec

-----------------------------------------------------------------------------

\* Every ping loop but the one in the fields has been told to stop, so that
\* stopUDPPing, called by whichever reader or connection, ends the last one.
THEOREM OneLoopAtATime == Spec => []OnePingLoop
<1> USE DEF sockVars, pingVars, packets, Nil
<1>1. Init => OnePingLoop
  BY DEF Init, OnePingLoop, Stage
<1>2. TypeOK /\ OnePingLoop /\ [Next]_vars => OnePingLoop'
  <2> SUFFICES ASSUME TypeOK, OnePingLoop, [Next]_vars PROVE OnePingLoop'
    OBVIOUS
  <2>1. ASSUME StopPing, UNCHANGED loop PROVE OnePingLoop'
    BY <2>1, Numbers DEF StopPing, OnePingLoop
  <2>2. ASSUME UNCHANGED <<loop, ping, stopped>> PROVE OnePingLoop'
    BY <2>2 DEF OnePingLoop
  <2>3. CASE Connect \/ CloseDone \/ RunSteps \/ ServerAnswersHandshake
    BY <2>1, <2>2, <2>3
    DEF Connect, CloseDone, RunSteps, Registered, RegisterFails, SetupFails,
        SetupUDPChannel, StartReader, HandshakeBurst, ClosePing, DropSocket,
        ServerAnswersHandshake
  <2>4. ASSUME NEW n \in Conns, StartPing(n) PROVE OnePingLoop'
    <3>1. PICK l \in Loops :
            /\ ping' = l
            /\ stopped' = stopped \ {l}
            /\ loop' = [loop EXCEPT ![l] = Stage("wait", conn)]
      BY <2>4 DEF StartPing
    <3>2. \A k \in Loops : loop[k].at # "free" => k \in stopped
      BY <2>4, Numbers DEF StartPing, OnePingLoop
    <3>3. \A k \in Loops \ {l} : loop'[k] = loop[k]
      BY <3>1 DEF TypeOK
    <3>4. QED
      BY <3>1, <3>2, <3>3 DEF OnePingLoop
  <2>5. ASSUME NEW n \in Conns, Reader(n), ~StartPing(n) PROVE OnePingLoop'
    BY <2>1, <2>2, <2>5
    DEF Reader, ReadPacket, HandshakeDone, PingIsThere, ReadFails
  <2>6. ASSUME NEW n \in Conns, Retry(n) PROVE OnePingLoop'
    BY <2>2, <2>6 DEF Retry, RetryChecks, RetrySends, RetryGivesUp, RetrySeesDone
  <2>7. ASSUME NEW l \in Loops, PingLoop(l) PROVE OnePingLoop'
    <3>1. /\ UNCHANGED <<ping, stopped>>
          /\ \A k \in Loops : loop'[k].at # "free" => loop[k].at # "free"
      BY <2>7 DEF PingLoop, SendPing, PingLoopEnds, TypeOK, LoopStages, Stage
    <3>2. QED
      BY <3>1 DEF OnePingLoop
  <2>8. CASE UNCHANGED vars
    BY <2>2, <2>8 DEF vars
  <2>9. QED
    BY <2>3, <2>4, <2>5, <2>6, <2>7, <2>8 DEF Next
<1>3. QED
  BY <1>1, <1>2, TypeCorrect, PTL DEF Spec

\* No socket is open but the one in the field, so that none is leaked
\* whoever of run and the retry goroutines takes it out.
THEOREM OneSocketAtATime == Spec => []OneSocket
<1> USE DEF sockVars, pingVars, packets, Nil
<1>1. Init => OneSocket
  BY DEF Init, OneSocket
<1>2. TypeOK /\ OneSocket /\ [Next]_vars => OneSocket'
  <2> SUFFICES ASSUME TypeOK, OneSocket, [Next]_vars PROVE OneSocket'
    OBVIOUS
  <2>1. ASSUME CloseSock PROVE OneSocket'
    BY <2>1 DEF CloseSock, OneSocket
  <2>2. ASSUME UNCHANGED <<sock, open>> PROVE OneSocket'
    BY <2>2 DEF OneSocket
  <2>3. CASE SetupUDPChannel
    BY <2>3, Numbers DEF SetupUDPChannel, OneSocket, TypeOK
  <2>4. CASE Connect \/ CloseDone \/ ServerAnswersHandshake
    BY <2>2, <2>4 DEF Connect, CloseDone, ServerAnswersHandshake
  <2>5. CASE RunSteps /\ ~SetupUDPChannel
    BY <2>1, <2>2, <2>5
    DEF RunSteps, Registered, RegisterFails, SetupFails, StartReader, HandshakeBurst,
        ClosePing, DropSocket
  <2>6. ASSUME NEW n \in Conns, Reader(n) PROVE OneSocket'
    BY <2>2, <2>6 DEF Reader, ReadPacket, HandshakeDone, PingIsThere, StartPing, ReadFails
  <2>7. ASSUME NEW n \in Conns, Retry(n) PROVE OneSocket'
    BY <2>1, <2>2, <2>7 DEF Retry, RetryChecks, RetrySends, RetryGivesUp, RetrySeesDone
  <2>8. ASSUME NEW l \in Loops, PingLoop(l) PROVE OneSocket'
    BY <2>2, <2>8 DEF PingLoop, SendPing, PingLoopEnds
  <2>9. CASE UNCHANGED vars
    BY <2>2, <2>9 DEF vars
  <2>10. QED
    BY <2>3, <2>4, <2>5, <2>6, <2>7, <2>8, <2>9 DEF Next
<1>3. QED
  BY <1>1, <1>2, TypeCorrect, PTL DEF Spec

=============================================================================
