------------------------ MODULE ClientControlProofs -------------------------
(* Theorems about ClientControl for any number of connections and of       *)
(* goroutines that request the exit.                                       *)
EXTENDS ClientControl, TLAPS

\* The fields a goroutine can be at in closeControl.
LEMMA FieldsAreClosed ==
    /\ Closed \in [1..4 -> {"control", "trafficQuit", "statusCh", "pingCh"}]
    /\ \A i \in 1..4 : Closed[i] = "control" <=> i = 1
BY DEF Closed

\* A goroutine that is at a field in closeControl.
LEMMA AtField ==
    ASSUME closer \in [Closers -> Stages], NEW t \in Closers,
           closer[t].op \in {"test", "close", "clear"}
    PROVE  /\ closer[t].of \in 1..4
           /\ FieldOf(t) \in {"control", "trafficQuit", "statusCh", "pingCh"}
           /\ FieldOf(t) = "control" <=> closer[t].of = 1
<1>1. closer[t].of \in 1..4
  BY DEF Stages
<1>2. QED
  BY <1>1, FieldsAreClosed DEF FieldOf

\* Going on to the next field keeps the type of closer.
LEMMA AdvanceType ==
    ASSUME closer \in [Closers -> Stages], NEW t \in Closers,
           closer[t].op \in {"test", "close", "clear"}, Advance(t)
    PROVE  closer' \in [Closers -> Stages]
<1>1. closer[t].of \in 1..4
  BY AtField
<1>2. PICK last \in {2, 4} :
        closer' = [closer EXCEPT ![t] =
                      IF @.of < last THEN Stage("test", @.of + 1)
                                     ELSE Stage("done", 0)]
  BY DEF Advance
<1>3. Stage("done", 0) \in Stages
  BY DEF Stage, Stages
<1>4. closer[t].of < last => Stage("test", closer[t].of + 1) \in Stages
  BY <1>1 DEF Stage, Stages
<1>5. QED
  BY <1>2, <1>3, <1>4

\* The numbers of connections.
LEMMA ConnNumbers ==
    /\ Nil \in 0..MaxConns
    /\ 0..MaxConns = Conns \cup {Nil}
    /\ Nil \notin Conns
    /\ \A i \in 0..MaxConns : i < MaxConns => i + 1 \in Conns
BY ConnsAssumption DEF Conns, Nil

\* Every variable of the client keeps its type.
THEOREM TypeCorrect == Spec => []TypeOK
<1> USE DEF Fields
<1>1. Init => TypeOK
  <2>1. /\ Stage("idle", 0) \in Stages
        /\ [at |-> "none", done |-> Nil] \in Heartbeats
        /\ [at |-> "none", done |-> Nil, quit |-> Nil, status |-> Nil] \in Traffics
    BY DEF Stage, Stages, Heartbeats, Traffics
  <2>2. ASSUME Init
        PROVE  /\ closer \in [Closers -> Stages]
               /\ heartbeat \in [Conns -> Heartbeats]
               /\ traffic \in [Conns -> Traffics]
    BY <2>1, <2>2 DEF Init
  <2>3. Init => dialled \in 0..MaxConns
    BY ConnNumbers DEF Init, Nil
  <2>4. QED
    BY <2>2, <2>3 DEF Init, TypeOK
<1>2. TypeOK /\ [Next]_vars => TypeOK'
  <2> SUFFICES ASSUME TypeOK, [Next]_vars PROVE TypeOK'
    OBVIOUS
  <2>1. /\ Stage("once", 0) \in Stages
        /\ Stage("test", 1) \in Stages
        /\ "run" \in Closers
    BY DEF Stage, Stages, Closers
  <2>2. CASE Panic
    BY <2>2 DEF Panic, TypeOK, fieldVars, loopVars
  <2>3. CASE Run
    <3>1. CASE \/ Top \/ BackOff \/ AfterClose \/ AfterUndo \/ DialFails
               \/ SendRegister \/ AwaitReply \/ Receive \/ RecordPingReply
      BY <3>1
      DEF Top, BackOff, AfterClose, AfterUndo, DialFails, SendRegister,
          AwaitReply, Receive, RecordPingReply, Goto, Alive, TypeOK, fieldVars,
          loopVars
    <3>2. CASE Dial
      <4>1. dialled + 1 \in Conns
        BY <3>2, ConnNumbers DEF Dial, TypeOK
      <4>2. dialled' \in 0..MaxConns
        BY <3>2, <4>1, ConnNumbers DEF Dial
      <4>3. conn' \in [Conns -> {"none", "open", "lost", "closed"}]
        BY <3>2, <4>1 DEF Dial, TypeOK
      <4>4. QED
        BY <3>2, <4>2, <4>3 DEF Dial, Goto, Alive, TypeOK, fieldVars, loopVars
    <3>3. CASE ResetOnce
      BY <3>3 DEF ResetOnce, Goto, Alive, TypeOK, loopVars
    <3>4. CASE MakeFields
      BY <3>4, ConnNumbers DEF MakeFields, Goto, Alive, TypeOK, loopVars
    <3>5. CASE RegisterFails \/ ReplyFails
      BY <3>5, <2>1
      DEF RegisterFails, ReplyFails, Undo, Alive, TypeOK, fieldVars, loopVars
    <3>6. CASE ReceiveFails
      BY <3>6, <2>1 DEF ReceiveFails, Goto, Alive, TypeOK, fieldVars, loopVars
    <3>7. QED
      BY <2>2, <2>3, <3>1, <3>2, <3>3, <3>4, <3>5, <3>6 DEF Run, RunPanics
  <2>4. CASE ServerSends
    <3>1. CASE Registered
      <4>1. heartbeat' \in [Conns -> Heartbeats]
        <5>1. [at |-> "select", done |-> field["done"]] \in Heartbeats
          BY DEF Heartbeats, TypeOK
        <5>2. QED
          BY <3>1, <5>1 DEF Registered, TypeOK
      <4>2. traffic' \in [Conns -> Traffics]
        <5>1. \A n \in Conns : [traffic[n] EXCEPT !.at = "first"] \in Traffics
          BY DEF Traffics, TypeOK
        <5>2. QED
          BY <3>1, <5>1 DEF Registered, TypeOK
      <4>3. QED
        BY <3>1, <4>1, <4>2 DEF Registered, Goto, Alive, TypeOK, fieldVars
    <3>2. CASE ReplyRefuses
      BY <3>2, <2>1 DEF ReplyRefuses, Undo, Alive, TypeOK, fieldVars, loopVars
    <3>3. CASE HTTPRequestArrives
      BY <3>3, ConnNumbers DEF HTTPRequestArrives, Alive, TypeOK, fieldVars
    <3>4. CASE PongArrives
      BY <3>4 DEF PongArrives, Goto, Alive, TypeOK, fieldVars, loopVars
    <3>5. QED
      BY <2>4, <3>1, <3>2, <3>3, <3>4 DEF ServerSends
  <2>5. ASSUME NEW t \in Closers, CloseControl(t) PROVE TypeOK'
    <3>1. closer \in [Closers -> Stages]
      BY DEF TypeOK
    <3>2. CASE CloseDone(t)
      <4>1. ~doneOnce => field["done"] \in Conns
        BY <3>2 DEF CloseDone, CannotClose, TypeOK
      <4>2. closedChans' \subseteq Chans \X Conns
        BY <3>2, <4>1 DEF CloseDone, TypeOK, Chans
      <4>3. closer' \in [Closers -> Stages]
        BY <3>1, <3>2, <2>1 DEF CloseDone
      <4>4. QED
        BY <3>2, <4>2, <4>3 DEF CloseDone, Alive, TypeOK, loopVars
    <3>3. CASE TestField(t)
      <4>1. [closer EXCEPT ![t].op = "close"] \in [Closers -> Stages]
        BY <3>1, <3>3, AtField DEF TestField, Stages
      <4>2. [closer EXCEPT ![t].op = "clear"] \in [Closers -> Stages]
        BY <3>1, <3>3, AtField DEF TestField, Stages
      <4>3. closer' \in [Closers -> Stages]
        BY <3>1, <3>3, <4>1, <4>2, AdvanceType DEF TestField
      <4>4. QED
        BY <3>3, <4>3 DEF TestField, Alive, TypeOK, fieldVars, loopVars
    <3>4. CASE HangUp(t)
      <4>1. closer' \in [Closers -> Stages]
        BY <3>1, <3>4 DEF HangUp, Stage, Stages
      <4>2. QED
        BY <3>4, <4>1 DEF HangUp, Alive, TypeOK, fieldVars, loopVars
    <3>5. CASE CloseChan(t)
      <4>1. closer' \in [Closers -> Stages]
        BY <3>1, <3>5, AtField DEF CloseChan, Stages
      <4>2. <<FieldOf(t), field[FieldOf(t)]>> \in Chans \X Conns
        BY <3>1, <3>5, AtField DEF CloseChan, CannotClose, TypeOK, Chans
      <4>3. QED
        BY <3>5, <4>1, <4>2 DEF CloseChan, Alive, TypeOK, loopVars
    <3>6. CASE ClearField(t)
      <4>1. closer' \in [Closers -> Stages]
        BY <3>1, <3>6, AdvanceType DEF ClearField
      <4>2. field' \in [Fields -> Conns \cup {Nil}]
        BY <3>6 DEF ClearField, TypeOK
      <4>3. QED
        BY <3>6, <4>1, <4>2 DEF ClearField, Alive, TypeOK, loopVars
    <3>7. QED
      BY <2>2, <2>5, <3>2, <3>3, <3>4, <3>5, <3>6 DEF CloseControl, CloserPanics
  <2>6. ASSUME NEW t \in Exiters, RequestExit(t) PROVE TypeOK'
    BY <2>1, <2>6 DEF RequestExit, Alive, Closers, TypeOK, fieldVars, loopVars
  <2>7. ASSUME NEW n \in Conns, HeartbeatTick(n) \/ Heartbeat(n) PROVE TypeOK'
    <3>1. heartbeat' \in [Conns -> Heartbeats]
      <4>1. [at |-> "select", done |-> field["done"]] \in Heartbeats
        BY DEF Heartbeats, TypeOK
      <4>2. \A at \in {"tick", "ended"} :
              [heartbeat[n] EXCEPT !.at = at] \in Heartbeats
        BY DEF Heartbeats, TypeOK
      <4>3. QED
        BY <2>7, <4>1, <4>2
        DEF HeartbeatTick, Heartbeat, HeartbeatSends, HeartbeatEnds,
            HeartbeatPanics, Panic, loopVars, TypeOK
    <3>2. QED
      BY <2>2, <2>7, <3>1
      DEF HeartbeatTick, Heartbeat, HeartbeatSends, HeartbeatEnds,
          HeartbeatPanics, Alive, fieldVars, TypeOK
  <2>8. ASSUME NEW n \in Conns, TrafficTick(n) \/ Traffic(n) PROVE TypeOK'
    <3>1. traffic' \in [Conns -> Traffics]
      <4>1. [at |-> "select", done |-> field["done"],
             quit |-> field["trafficQuit"], status |-> Nil] \in Traffics
        BY DEF Traffics, TypeOK
      <4>2. /\ \A at \in {"send", "drained", "ended"} :
                 [traffic[n] EXCEPT !.at = at] \in Traffics
            /\ [traffic[n] EXCEPT !.at = "resend", !.status = field["statusCh"]]
                 \in Traffics
        BY DEF Traffics, TypeOK
      <4>3. QED
        BY <2>8, <4>1, <4>2
        DEF TrafficTick, Traffic, TrafficFirst, TrafficSends, TrafficDrains,
            TrafficWaits, TrafficResends,
            TrafficEnds, TrafficPanics, TrafficSelect, Panic, loopVars, TypeOK
    <3>2. QED
      BY <2>2, <2>8, <3>1
      DEF TrafficTick, Traffic, TrafficFirst, TrafficSends, TrafficDrains,
          TrafficWaits, TrafficResends,
          TrafficEnds, TrafficPanics, Alive, fieldVars, TypeOK
  <2>9. ASSUME NEW n \in Conns,
               ForwardingEnds(n) \/ ForwardingPanics(n) \/ ConnLost(n)
        PROVE  TypeOK'
    BY <2>2, <2>9
    DEF ForwardingEnds, ForwardingPanics, ConnLost, Alive, TypeOK, fieldVars,
        loopVars
  <2>10. CASE Terminated \/ UNCHANGED vars
    BY <2>10 DEF Terminated, vars, TypeOK
  <2>11. QED
    BY <2>3, <2>4, <2>5, <2>6, <2>7, <2>8, <2>9, <2>10 DEF Next
<1>3. QED
  BY <1>1, <1>2, PTL DEF Spec

-----------------------------------------------------------------------------
(***************************************************************************)
(* Until the exit is requested nobody but run's own goroutine touches the  *)
(* fields, so the control connection it closes is the one it has. From     *)
(* then on it never gets to dial again.                                    *)
(***************************************************************************)
Live(n) == conn[n] \in {"open", "lost"}

NoneLive == \A n \in Conns : ~Live(n)

OnlyLatestIsLive == \A n \in Conns : Live(n) => n = dialled

DialsWithoutConn ==
    /\ run = "dial" => NoneLive
    /\ run \in {"top", "backoff"} /\ ~exitFlag => NoneLive

ExitersWait == ~exitFlag => \A t \in Exiters : closer[t].op = "idle"

Serving == {"register", "await", "awaiting", "receive", "reading", "pong"}

\* closeControl, or the deferred function, has not closed the connection yet.
BeforeHangUp ==
    closer["run"] \in {Stage("once", 0), Stage("test", 1), Stage("close", 1)}

HoldsLatest ==
    ~exitFlag =>
        /\ run \in Serving => field["control"] = dialled
        /\ run \in {"closing", "undo"} =>
             IF BeforeHangUp THEN field["control"] = dialled ELSE NoneLive

ClosesOnlyInTurn ==
    run \notin {"closing", "undo"} => closer["run"].op \in {"idle", "done"}

NothingBeforeDial ==
    /\ field["control"] <= dialled
    /\ \A n \in Conns : n > dialled => conn[n] = "none"
    /\ run \in Serving \cup {"resetOnce", "makeFields", "closing", "undo"}
         => dialled > 0

ControlInv ==
    /\ OnlyLatestIsLive
    /\ DialsWithoutConn
    /\ ExitersWait
    /\ HoldsLatest
    /\ ClosesOnlyInTurn
    /\ NothingBeforeDial

\* One step of the client keeps the invariant.
LEMMA ControlStep ==
    ASSUME TypeOK, ControlInv, [Next]_vars PROVE ControlInv'
<1> USE ExitersAssumption
    DEF ControlInv, OnlyLatestIsLive, DialsWithoutConn, ExitersWait,
        HoldsLatest, ClosesOnlyInTurn, NothingBeforeDial, BeforeHangUp, NoneLive, Live,
        Serving, Stage, Goto, fieldVars, loopVars
<1>1. /\ dialled \in 0..MaxConns
      /\ closer \in [Closers -> Stages]
      /\ field \in [Fields -> Conns \cup {Nil}]
      /\ conn \in [Conns -> {"none", "open", "lost", "closed"}]
      /\ "run" \in Closers
      /\ "control" \in Fields
  BY DEF TypeOK, Closers, Fields
<1>2. CASE Panic
  BY <1>2 DEF Panic
<1>3. CASE Run
  <2>1. CASE Top \/ BackOff
    BY <2>1 DEF Top, BackOff
  <2>2. CASE AfterClose \/ AfterUndo
    BY <2>2 DEF AfterClose, AfterUndo
  <2>3. CASE DialFails
    BY <2>3 DEF DialFails
  <2>4. CASE Dial
    BY <2>4, <1>1, ConnNumbers DEF Dial
  <2>5. CASE ResetOnce
    BY <2>5 DEF ResetOnce
  <2>6. CASE MakeFields
    BY <2>6, <1>1 DEF MakeFields
  <2>7. CASE SendRegister \/ AwaitReply \/ Receive \/ RecordPingReply
    BY <2>7 DEF SendRegister, AwaitReply, Receive, RecordPingReply
  <2>8. CASE RegisterFails \/ ReplyFails
    BY <2>8, <1>1 DEF RegisterFails, ReplyFails, Undo, Closers
  <2>9. CASE ReceiveFails
    BY <2>9, <1>1 DEF ReceiveFails, Closers
  <2>10. QED
    BY <1>2, <1>3, <2>1, <2>2, <2>3, <2>4, <2>5, <2>6, <2>7, <2>8, <2>9
    DEF Run, RunPanics
<1>4. CASE ServerSends
  <2>1. CASE Registered \/ HTTPRequestArrives \/ PongArrives
    BY <2>1 DEF Registered, HTTPRequestArrives, PongArrives
  <2>2. CASE ReplyRefuses
    BY <2>2, <1>1 DEF ReplyRefuses, Undo, Closers
  <2>3. QED
    BY <1>4, <2>1, <2>2 DEF ServerSends
<1>5. ASSUME NEW t \in Exiters, CloseControl(t) PROVE ControlInv'
  <2>1. t # "run" /\ t \in Closers
    BY DEF Closers
  <2>2. exitFlag
    BY <1>5, <2>1
    DEF CloseControl, CloseDone, TestField, HangUp, CloseChan, ClearField,
        CloserPanics
  <2>3. /\ UNCHANGED <<run, exitFlag, dialled>>
        /\ closer'["run"] = closer["run"]
    BY <1>1, <1>5, <2>1
    DEF CloseControl, CloseDone, TestField, HangUp, CloseChan, ClearField,
        CloserPanics, Panic, Advance
  <2>4. field'["control"] <= dialled
    BY <1>1, <1>5
    DEF CloseControl, CloseDone, TestField, HangUp, CloseChan, ClearField,
        CloserPanics, Panic, Nil
  <2>5. \A n \in Conns :
          conn'[n] = conn[n] \/ (conn'[n] = "closed" /\ n <= dialled)
    <3>1. CASE HangUp(t)
      BY <1>1, <3>1 DEF HangUp
    <3>2. CASE UNCHANGED conn
      BY <3>2
    <3>3. QED
      BY <1>5, <3>1, <3>2
      DEF CloseControl, CloseDone, TestField, CloseChan, ClearField,
          CloserPanics, Panic
  <2>6. QED
    BY <1>1, <2>2, <2>3, <2>4, <2>5 DEF Conns
<1>6. CASE CloseControl("run")
  <2>1. run \in {"closing", "undo"} /\ dialled \in Conns
    BY <1>1, <1>6, ConnNumbers
    DEF CloseControl, CloseDone, TestField, HangUp, CloseChan, ClearField,
        CloserPanics, Nil
  <2>2. closer["run"] = [op |-> closer["run"].op, of |-> closer["run"].of]
    BY <1>1 DEF Stages
  <2>3. closer["run"].op = "once" => closer["run"].of = 0
    BY <1>1 DEF Stages
  <2>4. CASE CloseDone("run")
    <3>1. BeforeHangUp /\ BeforeHangUp'
      BY <1>1, <2>2, <2>3, <2>4 DEF CloseDone
    <3>2. /\ UNCHANGED <<run, exitFlag, dialled, conn, field>>
          /\ \A t \in Exiters : closer'[t] = closer[t]
      BY <1>1, <2>4 DEF CloseDone, Closers
    <3>3. QED
      BY <2>1, <3>1, <3>2
  <2>5. CASE HangUp("run")
    <3>1. closer'["run"].op = "clear"
      BY <1>1, <2>5 DEF HangUp
    <3>2. /\ UNCHANGED <<run, exitFlag, dialled, field>>
          /\ \A t \in Exiters : closer'[t] = closer[t]
          /\ \A n \in Conns :
               conn'[n] = IF n = field["control"] THEN "closed" ELSE conn[n]
      BY <1>1, <2>5 DEF HangUp, Closers
    <3>3. ~exitFlag => field["control"] = dialled
      BY <2>1, <2>5 DEF HangUp
    <3>4. ~exitFlag => NoneLive'
      BY <3>2, <3>3
    <3>5. \A n \in Conns : n > dialled => conn'[n] = "none"
      BY <1>1, <3>2 DEF Conns
    <3>6. QED
      BY <2>1, <3>1, <3>2, <3>4, <3>5
  <2>6. CASE TestField("run")
    <3>1. /\ UNCHANGED <<run, exitFlag, dialled, conn, field>>
          /\ \A t \in Exiters : closer'[t] = closer[t]
      BY <1>1, <2>6 DEF TestField, Advance, Closers
    <3>2. /\ closer["run"].of \in 1..4
          /\ FieldOf("run") = "control" <=> closer["run"].of = 1
      BY <1>1, <2>6, AtField DEF TestField
    <3>3. CASE closer["run"].of = 1
      <4>1. BeforeHangUp
        BY <2>2, <2>6, <3>3 DEF TestField
      <4>2. ~exitFlag => closer'["run"] = Stage("close", 1)
        BY <1>1, <2>1, <2>2, <2>6, <3>2, <3>3, <4>1, ConnNumbers DEF TestField
      <4>3. QED
        BY <2>1, <3>1, <4>1, <4>2
    <3>4. CASE closer["run"].of > 1
      <4>1. ~BeforeHangUp
        BY <3>4
      <4>2. closer'["run"].of # 1 /\ closer'["run"].op # "once"
        <5>1. CASE closer' = [closer EXCEPT !["run"].op = "close"]
          BY <1>1, <3>4, <5>1
        <5>2. CASE Advance("run")
          BY <1>1, <3>2, <3>4, <5>2 DEF Advance
        <5>3. QED
          BY <2>6, <3>2, <3>4, <5>1, <5>2 DEF TestField
      <4>3. QED
        BY <2>1, <3>1, <4>1, <4>2
    <3>5. QED
      BY <3>2, <3>3, <3>4
  <2>7. CASE CloseChan("run")
    BY <1>1, <2>1, <2>7, AtField DEF CloseChan
  <2>8. CASE ClearField("run")
    <3>1. /\ UNCHANGED <<run, exitFlag, dialled, conn>>
          /\ \A t \in Exiters : closer'[t] = closer[t]
      BY <1>1, <2>8 DEF ClearField, Advance, Closers
    <3>2. field'["control"] <= dialled
      BY <1>1, <2>8 DEF ClearField, Nil
    <3>3. closer["run"].of \in 1..4 /\ ~BeforeHangUp
      BY <1>1, <2>8, AtField DEF ClearField
    <3>4. closer'["run"].of # 1 /\ closer'["run"].op # "once"
      BY <1>1, <2>8, <3>3 DEF ClearField, Advance
    <3>5. QED
      BY <2>1, <3>1, <3>2, <3>3, <3>4
  <2>9. CASE CloserPanics("run")
    BY <1>2, <2>9 DEF CloserPanics
  <2>10. QED
    BY <1>6, <2>4, <2>5, <2>6, <2>7, <2>8, <2>9 DEF CloseControl
<1>7. ASSUME NEW t \in Exiters, RequestExit(t) PROVE ControlInv'
  BY <1>7, <1>1 DEF RequestExit, Closers
<1>8. ASSUME NEW n \in Conns,
             \/ HeartbeatTick(n)
             \/ Heartbeat(n)
             \/ TrafficTick(n)
             \/ Traffic(n)
             \/ ForwardingEnds(n)
             \/ ForwardingPanics(n)
      PROVE  ControlInv'
  <2>1. UNCHANGED <<run, exitFlag, dialled, conn, field, closer>>
    BY <1>8
    DEF HeartbeatTick, Heartbeat, HeartbeatSends, HeartbeatEnds,
        HeartbeatPanics, TrafficTick, Traffic, TrafficFirst, TrafficSends,
        TrafficDrains,
        TrafficWaits, TrafficResends, TrafficEnds, TrafficPanics, ForwardingEnds,
        ForwardingPanics, Panic
  <2>2. QED
    BY <2>1
<1>9. ASSUME NEW n \in Conns, ConnLost(n) PROVE ControlInv'
  BY <1>9, <1>1 DEF ConnLost
<1>10. CASE Terminated \/ UNCHANGED vars
  BY <1>10 DEF Terminated, vars
<1>11. QED
  BY <1>3, <1>4, <1>5, <1>6, <1>7, <1>8, <1>9, <1>10 DEF Next, Closers

\* The invariant of the control connection holds in every reachable state.
THEOREM ControlIsSound == Spec => []ControlInv
<1>1. Init => ControlInv
  BY ConnNumbers
  DEF Init, ControlInv, OnlyLatestIsLive, DialsWithoutConn, ExitersWait,
      HoldsLatest, ClosesOnlyInTurn, NothingBeforeDial, NoneLive, Live, Serving,
      Stage, Closers, Fields, Nil
<1>2. TypeOK /\ ControlInv /\ [Next]_vars => ControlInv'
  BY ControlStep
<1>3. QED
  BY <1>1, <1>2, TypeCorrect, PTL DEF Spec

\* The client keeps at most one control connection open, however often it
\* reconnects and whenever its exit is requested.
THEOREM OneConnAtATime == Spec => []OneControlConn
<1>1. ControlInv => OneControlConn
  BY DEF ControlInv, OnlyLatestIsLive, Live, OneControlConn
<1>2. QED
  BY <1>1, ControlIsSound, PTL

-----------------------------------------------------------------------------
(***************************************************************************)
(* Until the exit is requested, only run's goroutine closes the channels   *)
(* and clears the fields of its connection, each once and in the order of  *)
(* closeControl: what it has yet to close is as it was made.               *)
(***************************************************************************)
Intact(f) == field[f] = dialled /\ <<f, dialled>> \notin closedChans

ClosingFields == {"test", "close", "clear"}

\* closeControl has not dealt with the j-th field yet.
YetToClose(j) ==
    \/ j > closer["run"].of
    \/ j = closer["run"].of /\ closer["run"].op # "clear"

NumberedByDials ==
    /\ \A f \in Fields : field[f] <= dialled
    /\ \A f \in Fields, n \in Conns : <<f, n>> \in closedChans => n <= dialled

OpenWhenMade ==
    run \in {"resetOnce", "makeFields"} =>
        \A f \in Fields : <<f, dialled>> \notin closedChans

IntactWhileServing == run \in Serving => \A f \in Fields : Intact(f)

IntactUntilClosed ==
    run \in {"closing", "undo"} =>
        /\ closer["run"].op = "once" => \A f \in Fields : Intact(f)
        /\ closer["run"].op \in ClosingFields =>
             \A j \in 1..4 : YetToClose(j) => Intact(Closed[j])

PanicInv ==
    /\ NumberedByDials
    /\ ~exitFlag => OpenWhenMade /\ IntactWhileServing /\ IntactUntilClosed

\* A goroutine in closeControl is run's until the exit is requested.
LEMMA CloserIsRun ==
    ASSUME TypeOK, ControlInv, ~exitFlag,
           NEW t \in Closers, closer[t].op \notin {"idle", "done"}
    PROVE  t = "run" /\ run \in {"closing", "undo"}
BY DEF ControlInv, ExitersWait, ClosesOnlyInTurn, Closers

\* What closeControl closes are fields.
LEMMA ClosedAreFields == \A i \in 1..4 : Closed[i] \in Fields \ {"done", "enc", "dec"}
BY FieldsAreClosed DEF Fields

\* The fields closeControl closes are four different ones.
LEMMA ClosedOnce == \A i, j \in 1..4 : Closed[i] = Closed[j] => i = j
BY DEF Closed

\* Advancing keeps or raises the field the goroutine of run is at.
LEMMA AdvanceGoesOn ==
    ASSUME closer \in [Closers -> Stages], "run" \in Closers,
           closer["run"].op \in ClosingFields, Advance("run")
    PROVE  \/ closer'["run"].op = "done"
           \/ /\ closer'["run"].op = "test"
              /\ closer'["run"].of = closer["run"].of + 1
<1>1. closer["run"].of \in 1..4
  BY AtField DEF ClosingFields
<1>2. PICK last \in {2, 4} :
        closer' = [closer EXCEPT !["run"] =
                      IF @.of < last THEN Stage("test", @.of + 1)
                                     ELSE Stage("done", 0)]
  BY DEF Advance
<1>3. QED
  BY <1>1, <1>2 DEF Stage

\* Nobody closes or clears a field of a connection that was never made.
LEMMA NumberedStep ==
    ASSUME TypeOK, ControlInv, NumberedByDials, [Next]_vars
    PROVE  NumberedByDials'
<1>1. /\ dialled \in 0..MaxConns
      /\ closer \in [Closers -> Stages]
      /\ field \in [Fields -> Conns \cup {Nil}]
  BY DEF TypeOK
<1>2. CASE UNCHANGED <<field, closedChans, dialled>>
  BY <1>2 DEF NumberedByDials
<1>3. CASE Dial
  BY <1>1, <1>3 DEF Dial, NumberedByDials, fieldVars, Conns, Nil
<1>4. CASE MakeFields
  BY <1>1, <1>4 DEF MakeFields, NumberedByDials, Goto
<1>5. ASSUME NEW t \in Closers, CloseDone(t) PROVE NumberedByDials'
  BY <1>1, <1>5 DEF CloseDone, NumberedByDials, Fields
<1>6. ASSUME NEW t \in Closers, CloseChan(t) PROVE NumberedByDials'
  <2>1. FieldOf(t) \in Fields
    BY <1>1, <1>6, AtField DEF CloseChan, Fields
  <2>2. QED
    BY <1>1, <1>6, <2>1 DEF CloseChan, NumberedByDials
<1>7. ASSUME NEW t \in Closers, ClearField(t) PROVE NumberedByDials'
  <2>1. \A f \in Fields : field'[f] = Nil \/ field'[f] = field[f]
    BY <1>7 DEF ClearField
  <2>2. \A f \in Fields : field'[f] <= dialled
    BY <1>1, <2>1 DEF NumberedByDials, Nil
  <2>3. QED
    BY <1>7, <2>2 DEF ClearField, NumberedByDials
<1>8. ASSUME NEW t \in Closers, CloseControl(t) PROVE NumberedByDials'
  BY <1>2, <1>5, <1>6, <1>7, <1>8
  DEF CloseControl, TestField, HangUp, CloserPanics, Panic, fieldVars
<1>9. CASE Run
  BY <1>2, <1>3, <1>4, <1>9
  DEF Run, Top, BackOff, AfterClose, AfterUndo, DialFails, ResetOnce,
      SendRegister, RegisterFails, AwaitReply, ReplyFails, Receive,
      ReceiveFails, RecordPingReply, RunPanics, Undo, Panic, fieldVars
<1>10. CASE ServerSends
  BY <1>2, <1>10
  DEF ServerSends, Registered, ReplyRefuses, HTTPRequestArrives, PongArrives,
      Undo, fieldVars
<1>11. ASSUME NEW t \in Exiters, RequestExit(t) PROVE NumberedByDials'
  BY <1>2, <1>11 DEF RequestExit, fieldVars
<1>12. ASSUME NEW n \in Conns,
              \/ HeartbeatTick(n) \/ Heartbeat(n) \/ TrafficTick(n) \/ Traffic(n)
              \/ ForwardingEnds(n) \/ ForwardingPanics(n) \/ ConnLost(n)
       PROVE  NumberedByDials'
  BY <1>2, <1>12
  DEF HeartbeatTick, Heartbeat, HeartbeatSends, HeartbeatEnds, HeartbeatPanics,
      TrafficTick, Traffic, TrafficFirst, TrafficSends, TrafficDrains,
      TrafficWaits, TrafficResends,
      TrafficEnds, TrafficPanics, ForwardingEnds, ForwardingPanics, ConnLost,
      Panic, fieldVars
<1>13. CASE Terminated \/ UNCHANGED vars
  BY <1>2, <1>13 DEF Terminated, vars
<1>14. QED
  BY <1>8, <1>9, <1>10, <1>11, <1>12, <1>13 DEF Next

\* What run's closeControl has yet to close stays as it was made, step by step.
LEMMA IntactStep ==
    ASSUME TypeOK, ControlInv, PanicInv, [Next]_vars, ~exitFlag'
    PROVE  (OpenWhenMade /\ IntactWhileServing /\ IntactUntilClosed)'
<1>1. /\ dialled \in 0..MaxConns
      /\ closer \in [Closers -> Stages]
      /\ field \in [Fields -> Conns \cup {Nil}]
      /\ "run" \in Closers
  BY DEF TypeOK, Closers
<1>2. ~exitFlag /\ UNCHANGED exitFlag
  <2>1. CASE UNCHANGED exitFlag
    BY <2>1
  <2>2. CASE \E t \in Exiters : RequestExit(t)
    BY <2>2 DEF RequestExit
  <2>3. QED
    BY <2>1, <2>2
    DEF Next, Run, Top, BackOff, AfterClose, AfterUndo, DialFails, Dial,
        ResetOnce, MakeFields, SendRegister, RegisterFails, AwaitReply,
        ReplyFails, Receive, ReceiveFails, RecordPingReply, RunPanics, Undo,
        Panic, ServerSends, Registered, ReplyRefuses, HTTPRequestArrives,
        PongArrives, CloseControl, CloseDone, TestField, HangUp, CloseChan,
        ClearField, CloserPanics, HeartbeatTick, Heartbeat, HeartbeatSends,
        HeartbeatEnds, HeartbeatPanics, TrafficTick, Traffic, TrafficFirst,
        TrafficSends, TrafficDrains,
        TrafficWaits, TrafficResends, TrafficEnds, TrafficPanics, ForwardingEnds,
        ForwardingPanics, ConnLost, Terminated, vars
<1>3. OpenWhenMade /\ IntactWhileServing /\ IntactUntilClosed
  BY <1>2 DEF PanicInv
<1> USE DEF OpenWhenMade, IntactWhileServing, IntactUntilClosed, Intact,
            Serving, Goto, fieldVars, loopVars
<1>4. CASE UNCHANGED <<run, dialled, field, closedChans, closer>>
  BY <1>3, <1>4 DEF YetToClose
<1>5. CASE Panic
  BY <1>4, <1>5 DEF Panic
<1>6. CASE Run
  <2>1. CASE \/ Top \/ BackOff \/ AfterClose \/ AfterUndo \/ DialFails
    BY <2>1 DEF Top, BackOff, AfterClose, AfterUndo, DialFails
  <2>2. CASE Dial
    <3>1. \A f \in Fields : <<f, dialled + 1>> \notin closedChans
      BY <1>1, ConnNumbers, <2>2 DEF PanicInv, NumberedByDials, Dial
    <3>2. QED
      BY <2>2, <3>1 DEF Dial
  <2>3. CASE ResetOnce
    BY <1>3, <2>3 DEF ResetOnce
  <2>4. CASE MakeFields
    BY <1>3, <2>4 DEF MakeFields
  <2>5. CASE SendRegister \/ AwaitReply \/ Receive \/ RecordPingReply
    BY <1>3, <2>5 DEF SendRegister, AwaitReply, Receive, RecordPingReply
  <2>6. CASE RegisterFails \/ ReplyFails
    <3>1. run \in Serving
      BY <2>6 DEF RegisterFails, ReplyFails
    <3>2. Undo
      BY <2>6 DEF RegisterFails, ReplyFails
    <3>3. \A j \in 1..4 : Intact(Closed[j])
      BY <1>3, <3>1, ClosedAreFields
    <3>4. closer'["run"].op = "test"
      BY <1>1, <3>2 DEF Undo, Stage
    <3>5. QED
      BY <3>2, <3>3, <3>4 DEF Undo
  <2>7. CASE ReceiveFails
    <3>1. closer'["run"].op = "once"
      BY <1>1, <2>7 DEF ReceiveFails, Stage
    <3>2. QED
      BY <1>3, <2>7, <3>1 DEF ReceiveFails, ClosingFields
  <2>8. QED
    BY <1>5, <1>6, <2>1, <2>2, <2>3, <2>4, <2>5, <2>6, <2>7 DEF Run, RunPanics
<1>7. CASE ServerSends
  <2>1. CASE Registered \/ HTTPRequestArrives \/ PongArrives
    BY <1>3, <2>1 DEF Registered, HTTPRequestArrives, PongArrives
  <2>2. CASE ReplyRefuses
    <3>1. \A j \in 1..4 : Intact(Closed[j])
      BY <1>3, <2>2, ClosedAreFields DEF ReplyRefuses
    <3>2. closer'["run"].op = "test"
      BY <1>1, <2>2 DEF ReplyRefuses, Undo, Stage
    <3>3. QED
      BY <2>2, <3>1, <3>2 DEF ReplyRefuses, Undo
  <2>3. QED
    BY <1>7, <2>1, <2>2 DEF ServerSends
<1>8. ASSUME NEW t \in Closers, CloseControl(t)
      PROVE  (OpenWhenMade /\ IntactWhileServing /\ IntactUntilClosed)'
  <2>1. CASE CloserPanics(t)
    BY <1>5, <2>1 DEF CloserPanics
  <2>2. CASE ~CloserPanics(t)
    <3>1. closer[t].op \in ClosingFields \cup {"once"}
      BY <1>8, <2>2
      DEF CloseControl, CloseDone, TestField, HangUp, CloseChan, ClearField,
          ClosingFields, Stage
    <3>2. t = "run" /\ run \in {"closing", "undo"}
      BY <1>2, <3>1, CloserIsRun DEF ClosingFields
    <3>3. /\ UNCHANGED <<run, dialled>>
          /\ closer[t].op \in ClosingFields => closer[t].of \in 1..4
      BY <1>1, <1>8, <2>2, AtField
      DEF CloseControl, CloseDone, TestField, HangUp, CloseChan, ClearField,
          ClosingFields
    <3>4. SUFFICES IntactUntilClosed'
      BY <3>2, <3>3
    <3>5. CASE CloseDone(t)
      <4>1. closer'["run"] = Stage("test", 1)
        BY <1>1, <3>2, <3>5 DEF CloseDone
      <4>2. \A j \in 1..4 : Intact(Closed[j])
        BY <1>3, <3>2, <3>5, ClosedAreFields DEF CloseDone
      <4>3. \A j \in 1..4 : (Intact(Closed[j]))'
        BY <3>5, <4>2, ClosedAreFields DEF CloseDone
      <4>4. QED
        BY <4>1, <4>3 DEF Stage
    <3>6. ASSUME UNCHANGED <<field, closedChans>>,
                 closer[t].op \in ClosingFields,
                 closer'["run"].op # "once",
                 closer'["run"].op \in ClosingFields =>
                     \A j \in 1..4 : YetToClose(j)' => YetToClose(j)
          PROVE  IntactUntilClosed'
      BY <1>3, <3>2, <3>3, <3>6
    <3>7. CASE TestField(t)
      <4>1. closer[t].op = "test" /\ closer[t].of \in 1..4
        BY <3>3, <3>7 DEF TestField, ClosingFields
      <4>2. CASE Advance(t)
        BY <1>1, <3>2, <3>6, <3>7, <4>1, <4>2, AdvanceGoesOn
        DEF TestField, YetToClose, ClosingFields
      <4>3. CASE ~Advance(t)
        <5>1. PICK op \in {"close", "clear"} : closer' = [closer EXCEPT ![t].op = op]
          BY <3>7, <4>3 DEF TestField
        <5>2. closer'["run"].op = op /\ closer'["run"].of = closer["run"].of
          BY <1>1, <3>2, <5>1 DEF Stages
        <5>3. QED
          BY <3>2, <3>6, <3>7, <4>1, <5>2 DEF TestField, YetToClose, ClosingFields
      <4>4. QED
        BY <4>2, <4>3
    <3>8. CASE HangUp(t)
      <4>1. closer'["run"].op = "clear" /\ closer'["run"].of = closer["run"].of
        BY <1>1, <3>2, <3>8 DEF HangUp, Stages
      <4>2. QED
        BY <3>2, <3>6, <3>8, <4>1 DEF HangUp, Stage, YetToClose, ClosingFields
    <3>9. CASE CloseChan(t)
      <4>1. closer'["run"].op = "clear" /\ closer'["run"].of = closer["run"].of
        BY <1>1, <3>2, <3>9 DEF CloseChan, Stages
      <4>2. closer["run"].op = "close" /\ closer["run"].of \in 1..4
        BY <3>2, <3>3, <3>9 DEF CloseChan, ClosingFields
      <4>3. ASSUME NEW j \in 1..4, j > closer["run"].of PROVE (Intact(Closed[j]))'
        <5>1. Intact(Closed[j])
          BY <1>3, <3>2, <4>2, <4>3 DEF YetToClose, ClosingFields
        <5>2. Closed[j] # FieldOf(t)
          BY <3>2, <4>2, <4>3, ClosedOnce DEF FieldOf
        <5>3. QED
          BY <3>9, <5>1, <5>2 DEF CloseChan
      <4>4. QED
        BY <4>1, <4>3 DEF YetToClose
    <3>10. CASE ClearField(t)
      <4>1. closer["run"].op = "clear" /\ closer["run"].of \in 1..4
        BY <3>2, <3>3, <3>10 DEF ClearField, ClosingFields
      <4>2. ASSUME NEW j \in 1..4, j > closer["run"].of PROVE (Intact(Closed[j]))'
        <5>1. Intact(Closed[j])
          BY <1>3, <3>2, <4>1, <4>2 DEF YetToClose, ClosingFields
        <5>2. Closed[j] # FieldOf(t) /\ Closed[j] \in Fields \ {"control", "enc", "dec"}
          BY <3>2, <4>1, <4>2, ClosedOnce, ClosedAreFields, FieldsAreClosed
          DEF FieldOf
        <5>3. field'[Closed[j]] = field[Closed[j]]
          BY <3>10, <5>2 DEF ClearField
        <5>4. QED
          BY <3>10, <5>1, <5>3 DEF ClearField
      <4>3. \/ closer'["run"].op = "done"
            \/ closer'["run"].op = "test" /\ closer'["run"].of = closer["run"].of + 1
        BY <1>1, <3>2, <3>10, <4>1, AdvanceGoesOn DEF ClearField, ClosingFields
      <4>4. QED
        BY <4>1, <4>2, <4>3 DEF YetToClose, ClosingFields
    <3>11. QED
      BY <1>8, <2>2, <3>5, <3>7, <3>8, <3>9, <3>10 DEF CloseControl
  <2>3. QED
    BY <2>1, <2>2
<1>9. ASSUME NEW t \in Exiters, RequestExit(t) PROVE FALSE
  BY <1>2, <1>9 DEF RequestExit
<1>10. ASSUME NEW n \in Conns,
              \/ HeartbeatTick(n) \/ Heartbeat(n) \/ TrafficTick(n) \/ Traffic(n)
              \/ ForwardingEnds(n) \/ ForwardingPanics(n) \/ ConnLost(n)
       PROVE  (OpenWhenMade /\ IntactWhileServing /\ IntactUntilClosed)'
  BY <1>4, <1>10
  DEF HeartbeatTick, Heartbeat, HeartbeatSends, HeartbeatEnds, HeartbeatPanics,
      TrafficTick, Traffic, TrafficFirst, TrafficSends, TrafficDrains,
      TrafficWaits, TrafficResends,
      TrafficEnds, TrafficPanics, ForwardingEnds, ForwardingPanics, ConnLost,
      Panic
<1>11. CASE Terminated \/ UNCHANGED vars
  BY <1>4, <1>11 DEF Terminated, vars
<1>12. QED
  BY <1>6, <1>7, <1>8, <1>9, <1>10, <1>11 DEF Next

\* The channels and fields of the connection are intact, in every reachable
\* state, until closeControl comes to them or the exit is requested.
THEOREM FieldsAreIntact == Spec => []PanicInv
<1>1. Init => PanicInv
  BY DEF Init, PanicInv, NumberedByDials, OpenWhenMade, IntactWhileServing,
         IntactUntilClosed, Serving, Nil
<1>2. TypeOK /\ ControlInv /\ PanicInv /\ [Next]_vars => PanicInv'
  BY NumberedStep, IntactStep DEF PanicInv
<1>3. QED
  BY <1>1, <1>2, TypeCorrect, ControlIsSound, PTL DEF Spec

\* Losing connections and making new ones never makes run or closeControl panic:
\* only after the exit has been requested can one of them.
THEOREM ReconnectingIsSafe == Spec => ReconnectionNeverPanics
<1>1. ASSUME TypeOK, ControlInv, PanicInv, ~exitFlag
      PROVE  ~RunPanics /\ \A t \in Closers : ~CloserPanics(t)
  <2>1. /\ closer \in [Closers -> Stages]
        /\ dialled \in 0..MaxConns
        /\ run \in Serving \cup {"closing", "undo"} => dialled # Nil
    BY <1>1 DEF TypeOK, ControlInv, NothingBeforeDial, Nil
  <2>2. /\ run \in Serving => \A f \in Fields : Intact(f)
        /\ run \in {"closing", "undo"} =>
             /\ closer["run"].op = "once" => \A f \in Fields : Intact(f)
             /\ closer["run"].op = "close" => Intact(FieldOf("run"))
    <3>1. closer["run"].op = "close" => closer["run"].of \in 1..4
      BY <2>1, AtField DEF Closers
    <3>2. QED
      BY <1>1, <3>1
      DEF PanicInv, IntactWhileServing, IntactUntilClosed, YetToClose,
          ClosingFields, FieldOf
  <2>3. ~RunPanics
    BY <2>1, <2>2
    DEF RunPanics, Serving, Intact, CannotSend, IsClosed, Fields
  <2>4. ASSUME NEW t \in Closers, CloserPanics(t) PROVE FALSE
    <3>1. closer[t].op \in {"once", "close"}
      BY <2>4 DEF CloserPanics
    <3>2. t = "run" /\ run \in {"closing", "undo"}
      BY <1>1, <3>1, CloserIsRun
    <3>3. CASE closer["run"].op = "once"
      BY <2>1, <2>2, <2>4, <3>2, <3>3
      DEF CloserPanics, CannotClose, IsClosed, Intact, Fields
    <3>4. CASE closer["run"].op = "close"
      BY <2>1, <2>2, <2>4, <3>2, <3>4
      DEF CloserPanics, CannotClose, IsClosed, Intact
    <3>5. QED
      BY <3>1, <3>2, <3>3, <3>4
  <2>5. QED
    BY <2>3, <2>4
<1>2. TypeOK /\ ControlInv /\ PanicInv =>
          [RunPanics \/ (\E t \in Closers : CloserPanics(t)) => exitFlag]_vars
  BY <1>1
<1>3. QED
  BY <1>2, TypeCorrect, ControlIsSound, FieldsAreIntact, PTL
  DEF ReconnectionNeverPanics

\* A request to exit is never taken back, and run never starts connecting after
\* one.
THEOREM ExitStaysRequested == Spec => ExitIsKept
<1>1. ASSUME Next, exitFlag
      PROVE  exitFlag' /\ (run \notin Connecting => run' \notin Connecting)
  <2> USE DEF Connecting, Goto
  <2>1. CASE Panic
    BY <1>1, <2>1 DEF Panic
  <2>2. CASE Run
    BY <1>1, <2>1, <2>2
    DEF Run, Top, BackOff, AfterClose, AfterUndo, DialFails, Dial, ResetOnce,
        MakeFields, SendRegister, RegisterFails, AwaitReply, ReplyFails,
        Receive, ReceiveFails, RecordPingReply, RunPanics, Undo
  <2>3. CASE ServerSends
    BY <1>1, <2>3
    DEF ServerSends, Registered, ReplyRefuses, HTTPRequestArrives, PongArrives,
        Undo
  <2>4. ASSUME NEW t \in Closers, CloseControl(t)
        PROVE  exitFlag' /\ (run \notin Connecting => run' \notin Connecting)
    BY <1>1, <2>1, <2>4
    DEF CloseControl, CloseDone, TestField, HangUp, CloseChan, ClearField,
        CloserPanics
  <2>5. ASSUME NEW t \in Exiters, RequestExit(t)
        PROVE  exitFlag' /\ (run \notin Connecting => run' \notin Connecting)
    BY <2>5 DEF RequestExit
  <2>6. ASSUME NEW n \in Conns,
               \/ HeartbeatTick(n) \/ Heartbeat(n) \/ TrafficTick(n) \/ Traffic(n)
               \/ ForwardingEnds(n) \/ ForwardingPanics(n) \/ ConnLost(n)
        PROVE  exitFlag' /\ (run \notin Connecting => run' \notin Connecting)
    BY <1>1, <2>1, <2>6
    DEF HeartbeatTick, Heartbeat, HeartbeatSends, HeartbeatEnds,
        HeartbeatPanics, TrafficTick, Traffic, TrafficFirst, TrafficSends,
        TrafficDrains,
        TrafficWaits, TrafficResends, TrafficEnds, TrafficPanics, ForwardingEnds,
        ForwardingPanics, ConnLost
  <2>7. QED
    BY <1>1, <2>2, <2>3, <2>4, <2>5, <2>6 DEF Next, Terminated, vars
<1>2. [Next]_vars =>
          [exitFlag => exitFlag' /\ (run \notin Connecting => run' \notin Connecting)]_vars
  BY <1>1
<1>3. QED
  BY <1>2, PTL DEF Spec, ExitIsKept
=============================================================================
