--------------------------- MODULE ClientControl ----------------------------
(***************************************************************************)
(* One tunnel of the client: the goroutine of run, which connects,         *)
(* registers, receives and reconnects, the loops connectControl starts for *)
(* each connection, the handlers of HTTP requests, and the goroutines that *)
(* request the exit. They share the fields of the client without a lock,   *)
(* so every use of a field is a step of its own. Using a field that is nil *)
(* and closing or sending on a closed channel panic, which ends the        *)
(* process.                                                                *)
(*                                                                         *)
(* The objects connectControl makes for the n-th connection are all called *)
(* n, and 0 is nil. Backing off takes any time. What closeControl does     *)
(* about UDP is left out, and so is the display.                           *)
(***************************************************************************)
EXTENDS Integers, FiniteSets

CONSTANTS
    MaxConns,  \* bound: how often the client gets through to the server
    Exiters,   \* the goroutines that call requestExit: Ctrl+C, the q key
    LoopSets   \* the goroutines of a connection that run: they read the fields
               \* and write none of them, so a behaviour may leave some out

ASSUME ConnsAssumption == MaxConns \in Nat \ {0}
ASSUME ExitersAssumption == "run" \notin Exiters
ASSUME LoopsAssumption == LoopSets \subseteq SUBSET {"heartbeat", "traffic", "http"}

VARIABLES
    loops,       \* the goroutines of a connection that run in the behaviour
    run,         \* where the goroutine of run is
    exitFlag,    \* client.exitFlag
    dialled,     \* how many connections the client has had
    conn,        \* the state of each connection
    field,       \* the fields of the client that name a connection's objects
    doneOnce,    \* closeOnce has been used
    closedChans, \* <<field, n>> of the channels that are closed
    closer,      \* where each goroutine is in closeControl
    heartbeat,   \* the heartbeatLoop of each connection
    traffic,     \* the trafficLoop of each connection
    forwarding,  \* the connections with a handleHTTPRequest under way
    crashed      \* a goroutine has panicked

vars == <<loops, run, exitFlag, dialled, conn, field, doneOnce, closedChans, closer,
          heartbeat, traffic, forwarding, crashed>>

loopVars == <<loops, heartbeat, traffic, forwarding>>
fieldVars == <<field, doneOnce, closedChans>>

Conns == 1..MaxConns
Nil == 0
Closers == Exiters \cup {"run"}

\* What closeControl closes after done, in its order.
Closed == <<"control", "trafficQuit", "statusCh", "pingCh">>

Fields == {"done", "trafficQuit", "statusCh", "pingCh", "control", "enc", "dec"}

Stage(op, i) == [op |-> op, of |-> i]

Init ==
    /\ loops \in LoopSets
    /\ run = "top"
    /\ exitFlag = FALSE
    /\ dialled = 0
    /\ conn = [n \in Conns |-> "none"]
    /\ field = [f \in Fields |-> Nil]
    /\ doneOnce = FALSE
    /\ closedChans = {}
    /\ closer = [t \in Closers |-> Stage("idle", 0)]
    /\ heartbeat = [n \in Conns |-> [at |-> "none", done |-> Nil]]
    /\ traffic = [n \in Conns |-> [at |-> "none", done |-> Nil, quit |-> Nil, status |-> Nil]]
    /\ forwarding = {}
    /\ crashed = FALSE

IsClosed(f) == <<f, field[f]>> \in closedChans

\* Closing the channel in a field panics if it is nil or closed.
CannotClose(f) == field[f] = Nil \/ IsClosed(f)

\* Sending to it panics if it is closed; to nil it blocks for ever.
CannotSend(f) == field[f] # Nil /\ IsClosed(f)

Alive == ~crashed /\ crashed' = FALSE

Panic ==
    /\ ~crashed
    /\ crashed' = TRUE
    /\ UNCHANGED <<run, exitFlag, dialled, conn, fieldVars, closer, loopVars>>

Goto(from, to) == run = from /\ run' = to

-----------------------------------------------------------------------------
(* run.                                                                    *)

Top ==
    /\ Alive
    /\ Goto("top", IF exitFlag THEN "returned" ELSE "dial")
    /\ UNCHANGED <<exitFlag, dialled, conn, fieldVars, closer, loopVars>>

\* The pause before the next attempt, cut short by the exit flag.
BackOff ==
    /\ Alive
    /\ Goto("backoff", IF exitFlag THEN "returned" ELSE "top")
    /\ UNCHANGED <<exitFlag, dialled, conn, fieldVars, closer, loopVars>>

\* Mutant of AfterClose: the exit flag is not looked at.
AfterCloseRetry ==
    /\ Alive
    /\ Goto("closing", "dial")
    /\ closer["run"].op = "done"
    /\ UNCHANGED <<exitFlag, dialled, conn, fieldVars, closer, loopVars>>

\* closeControl has returned.
AfterClose ==
    /\ Alive
    /\ Goto("closing", IF exitFlag THEN "returned" ELSE "backoff")
    /\ closer["run"].op = "done"
    /\ UNCHANGED <<exitFlag, dialled, conn, fieldVars, closer, loopVars>>

-----------------------------------------------------------------------------
(* connectControl.                                                         *)

DialFails ==
    /\ Alive
    /\ Goto("dial", "backoff")
    /\ UNCHANGED <<exitFlag, dialled, conn, fieldVars, closer, loopVars>>

Dial ==
    /\ Alive
    /\ Goto("dial", "resetOnce")
    /\ dialled < MaxConns
    /\ dialled' = dialled + 1
    /\ conn' = [conn EXCEPT ![dialled + 1] = "open"]
    /\ UNCHANGED <<exitFlag, fieldVars, closer, loopVars>>

ResetOnce ==
    /\ Alive
    /\ Goto("resetOnce", "makeFields")
    /\ doneOnce' = FALSE
    /\ UNCHANGED <<exitFlag, dialled, conn, field, closedChans, closer, loopVars>>

\* Mutant of MakeFields: done is only made when there is none.
KeepDone ==
    /\ Alive
    /\ Goto("makeFields", "register")
    /\ field' = [f \in Fields |->
                    IF f = "done" /\ field[f] # Nil THEN field[f] ELSE dialled]
    /\ UNCHANGED <<exitFlag, dialled, conn, doneOnce, closedChans, closer,
                   loopVars>>

MakeFields ==
    /\ Alive
    /\ Goto("makeFields", "register")
    /\ field' = [f \in Fields |-> dialled]
    /\ UNCHANGED <<exitFlag, dialled, conn, doneOnce, closedChans, closer,
                   loopVars>>

SendRegister ==
    /\ Alive
    /\ Goto("register", "await")
    /\ field["enc"] # Nil
    /\ conn[field["enc"]] # "closed"
    /\ UNCHANGED <<exitFlag, dialled, conn, fieldVars, closer, loopVars>>

AwaitReply ==
    /\ Alive
    /\ Goto("await", "awaiting")
    /\ field["dec"] # Nil
    /\ UNCHANGED <<exitFlag, dialled, conn, fieldVars, closer, loopVars>>

\* The server has registered the client; the loops start.
Registered ==
    /\ Alive
    /\ Goto("awaiting", "receive")
    /\ conn[dialled] = "open"
    /\ heartbeat' = IF "heartbeat" \in loops
                      THEN [heartbeat EXCEPT ![dialled] =
                               [at |-> "select", done |-> field["done"]]]
                      ELSE heartbeat
    /\ traffic' = IF "traffic" \in loops
                    THEN [traffic EXCEPT ![dialled].at = "first"]
                    ELSE traffic
    /\ UNCHANGED <<loops, exitFlag, dialled, conn, fieldVars, closer, forwarding>>

\* Mutant of Undo: what was set up stays.
UndoNothing ==
    /\ Alive
    /\ run' = "backoff"
    /\ UNCHANGED <<exitFlag, dialled, conn, fieldVars, closer, loopVars>>

\* The deferred function closes the connection and trafficQuit: the same
\* steps as those of closeControl.
Undo ==
    /\ Alive
    /\ run' = "undo"
    /\ closer' = [closer EXCEPT !["run"] = Stage("test", 1)]
    /\ UNCHANGED <<exitFlag, dialled, conn, fieldVars, loopVars>>

RegisterFails ==
    /\ run = "register" /\ field["enc"] # Nil
    /\ conn[field["enc"]] # "open"
    /\ Undo

\* The reply is a refusal.
ReplyRefuses ==
    /\ run = "awaiting" /\ conn[dialled] = "open"
    /\ Undo

\* The connection is lost or closed before a reply has come.
ReplyFails ==
    /\ run = "awaiting" /\ conn[dialled] # "open"
    /\ Undo

AfterUndo ==
    /\ Alive
    /\ Goto("undo", "backoff")
    /\ closer["run"].op = "done"
    /\ UNCHANGED <<exitFlag, dialled, conn, fieldVars, closer, loopVars>>

-----------------------------------------------------------------------------
(* receiveLoop.                                                            *)

Receive ==
    /\ Alive
    /\ Goto("receive", "reading")
    /\ field["dec"] # Nil
    /\ UNCHANGED <<exitFlag, dialled, conn, fieldVars, closer, loopVars>>

\* A request is handled in a goroutine of its own; of the handlers that run at
\* a time on one connection the model keeps one.
HTTPRequestArrives ==
    /\ Alive
    /\ run = "reading" /\ conn[dialled] = "open" /\ "http" \in loops
    /\ run' = "receive"
    /\ forwarding' = forwarding \cup {dialled}
    /\ UNCHANGED <<loops, exitFlag, dialled, conn, fieldVars, closer, heartbeat,
                   traffic>>

PongArrives ==
    /\ Alive
    /\ Goto("reading", "pong")
    /\ conn[dialled] = "open"
    /\ UNCHANGED <<exitFlag, dialled, conn, fieldVars, closer, loopVars>>

RecordPingReply ==
    /\ Alive
    /\ Goto("pong", "receive")
    /\ ~CannotSend("pingCh")
    /\ UNCHANGED <<exitFlag, dialled, conn, fieldVars, closer, loopVars>>

\* Mutant of ReceiveFails: the loop goes on.
ReceiveRetries ==
    /\ Alive
    /\ Goto("reading", "receive")
    /\ conn[dialled] # "open"
    /\ UNCHANGED <<exitFlag, dialled, conn, fieldVars, closer, loopVars>>

\* The connection has been lost or closed: receiveLoop returns, closeControl
\* is called.
ReceiveFails ==
    /\ Alive
    /\ Goto("reading", "closing")
    /\ conn[dialled] # "open"
    /\ closer' = [closer EXCEPT !["run"] = Stage("once", 0)]
    /\ UNCHANGED <<exitFlag, dialled, conn, fieldVars, loopVars>>

RunPanics ==
    /\ \/ run = "register" /\ field["enc"] = Nil
       \/ run \in {"await", "receive"} /\ field["dec"] = Nil
       \/ run = "pong" /\ CannotSend("pingCh")
    /\ Panic

-----------------------------------------------------------------------------
(* requestExit and closeControl.                                           *)

RequestExit(t) ==
    /\ Alive
    /\ closer[t].op = "idle"
    /\ exitFlag' = TRUE
    /\ closer' = [closer EXCEPT ![t] = Stage("once", 0)]
    /\ UNCHANGED <<run, dialled, conn, fieldVars, loopVars>>

\* Mutant of CloseDone: done is not closed.
SkipDone(t) ==
    /\ Alive
    /\ closer[t].op = "once"
    /\ doneOnce' = TRUE
    /\ closer' = [closer EXCEPT ![t] = Stage("test", 1)]
    /\ UNCHANGED <<run, exitFlag, dialled, conn, field, closedChans, loopVars>>

\* closeOnce.Do: close(c.done).
CloseDone(t) ==
    /\ Alive
    /\ closer[t].op = "once"
    /\ doneOnce \/ ~CannotClose("done")
    /\ doneOnce' = TRUE
    /\ closedChans' = IF doneOnce THEN closedChans
                        ELSE closedChans \cup {<<"done", field["done"]>>}
    /\ closer' = [closer EXCEPT ![t] = Stage("test", 1)]
    /\ UNCHANGED <<run, exitFlag, dialled, conn, field, loopVars>>

\* The field the goroutine is at.
FieldOf(t) == Closed[closer[t].of]

\* On to the next field. The deferred function ends after trafficQuit.
Advance(t) ==
    LET last == IF t = "run" /\ run = "undo" THEN 2 ELSE 4
    IN  closer' = [closer EXCEPT ![t] =
                      IF @.of < last THEN Stage("test", @.of + 1) ELSE Stage("done", 0)]

\* if c.f != nil. The connection's fields are cleared in either case.
TestField(t) ==
    /\ Alive
    /\ closer[t].op = "test"
    /\ \/ /\ field[FieldOf(t)] # Nil
          /\ closer' = [closer EXCEPT ![t].op = "close"]
       \/ /\ field[FieldOf(t)] = Nil /\ FieldOf(t) = "control"
          /\ closer' = [closer EXCEPT ![t].op = "clear"]
       \/ /\ field[FieldOf(t)] = Nil /\ FieldOf(t) # "control"
          /\ Advance(t)
    /\ UNCHANGED <<run, exitFlag, dialled, conn, fieldVars, loopVars>>

HangUp(t) ==
    /\ Alive
    /\ closer[t] = Stage("close", 1)
    /\ field["control"] # Nil
    /\ conn' = [conn EXCEPT ![field["control"]] = "closed"]
    /\ closer' = [closer EXCEPT ![t].op = "clear"]
    /\ UNCHANGED <<run, exitFlag, dialled, fieldVars, loopVars>>

CloseChan(t) ==
    /\ Alive
    /\ closer[t].op = "close" /\ FieldOf(t) # "control"
    /\ ~CannotClose(FieldOf(t))
    /\ closedChans' = closedChans \cup {<<FieldOf(t), field[FieldOf(t)]>>}
    /\ closer' = [closer EXCEPT ![t].op = "clear"]
    /\ UNCHANGED <<run, exitFlag, dialled, conn, field, doneOnce, loopVars>>

\* c.f = nil; enc and dec go with the connection.
ClearField(t) ==
    LET cleared == IF FieldOf(t) = "control" THEN {"control", "enc", "dec"}
                                             ELSE {FieldOf(t)}
    IN  /\ Alive
        /\ closer[t].op = "clear"
        /\ field' = [f \in Fields |-> IF f \in cleared THEN Nil ELSE field[f]]
        /\ Advance(t)
        /\ UNCHANGED <<run, exitFlag, dialled, conn, doneOnce, closedChans,
                       loopVars>>

CloserPanics(t) ==
    /\ \/ closer[t].op = "once" /\ ~doneOnce /\ CannotClose("done")
       \/ /\ closer[t].op = "close"
          /\ IF FieldOf(t) = "control" THEN field["control"] = Nil
                                       ELSE CannotClose(FieldOf(t))
    /\ Panic

CloseControl(t) ==
    \/ CloseDone(t)
    \/ TestField(t)
    \/ HangUp(t)
    \/ CloseChan(t)
    \/ ClearField(t)
    \/ CloserPanics(t)

-----------------------------------------------------------------------------
(* heartbeatLoop of the n-th connection. The select looks at c.done when it  *)
(* is entered; a tick may win against a done that is closed.                 *)

HeartbeatTick(n) ==
    /\ Alive
    /\ heartbeat[n].at = "select"
    /\ heartbeat' = [heartbeat EXCEPT ![n].at = "tick"]
    /\ UNCHANGED <<loops, run, exitFlag, dialled, conn, fieldVars, closer,
                   traffic, forwarding>>

HeartbeatSends(n) ==
    /\ Alive
    /\ heartbeat[n].at = "tick" /\ field["enc"] # Nil
    /\ conn[field["enc"]] # "closed"
    /\ heartbeat' = [heartbeat EXCEPT ![n] =
                         [at |-> "select", done |-> field["done"]]]
    /\ UNCHANGED <<loops, run, exitFlag, dialled, conn, fieldVars, closer,
                   traffic, forwarding>>

HeartbeatEnds(n) ==
    /\ Alive
    /\ \/ /\ heartbeat[n].at = "tick" /\ field["enc"] # Nil
          /\ conn[field["enc"]] # "open"
       \/ /\ heartbeat[n].at = "select"
          /\ <<"done", heartbeat[n].done>> \in closedChans
    /\ heartbeat' = [heartbeat EXCEPT ![n].at = "ended"]
    /\ UNCHANGED <<loops, run, exitFlag, dialled, conn, fieldVars, closer,
                   traffic, forwarding>>

HeartbeatPanics(n) ==
    /\ heartbeat[n].at = "tick" /\ field["enc"] = Nil
    /\ Panic

-----------------------------------------------------------------------------
(* trafficLoop of the n-th connection.                                     *)

TrafficSelect(n) ==
    traffic' = [traffic EXCEPT ![n] =
                   [at |-> "select", done |-> field["done"],
                    quit |-> field["trafficQuit"], status |-> Nil]]

\* The first statistics, dropped if there is no room or no channel.
TrafficFirst(n) ==
    /\ Alive
    /\ traffic[n].at = "first" /\ ~CannotSend("statusCh")
    /\ TrafficSelect(n)
    /\ UNCHANGED <<loops, run, exitFlag, dialled, conn, fieldVars, closer,
                   heartbeat, forwarding>>

TrafficTick(n) ==
    /\ Alive
    /\ traffic[n].at = "select"
    /\ traffic' = [traffic EXCEPT ![n].at = "send"]
    /\ UNCHANGED <<loops, run, exitFlag, dialled, conn, fieldVars, closer,
                   heartbeat, forwarding>>

TrafficSends(n) ==
    /\ Alive
    /\ traffic[n].at = "send"
    /\ field["statusCh"] # Nil /\ ~IsClosed("statusCh")
    /\ TrafficSelect(n)
    /\ UNCHANGED <<loops, run, exitFlag, dialled, conn, fieldVars, closer,
                   heartbeat, forwarding>>

\* The channel is full or nil: the default drains it.
TrafficDrains(n) ==
    /\ Alive
    /\ traffic[n].at = "send" /\ ~CannotSend("statusCh")
    /\ traffic' = [traffic EXCEPT ![n].at = "drained"]
    /\ UNCHANGED <<loops, run, exitFlag, dialled, conn, fieldVars, closer,
                   heartbeat, forwarding>>

\* The second send has no default: it waits on the channel that is there now, for
\* ever if that is nil.
TrafficWaits(n) ==
    /\ Alive
    /\ traffic[n].at = "drained"
    /\ traffic' = [traffic EXCEPT ![n].at = "resend", ![n].status = field["statusCh"]]
    /\ UNCHANGED <<loops, run, exitFlag, dialled, conn, fieldVars, closer,
                   heartbeat, forwarding>>

TrafficResends(n) ==
    /\ Alive
    /\ traffic[n].at = "resend"
    /\ traffic[n].status # Nil /\ <<"statusCh", traffic[n].status>> \notin closedChans
    /\ TrafficSelect(n)
    /\ UNCHANGED <<loops, run, exitFlag, dialled, conn, fieldVars, closer,
                   heartbeat, forwarding>>

TrafficEnds(n) ==
    /\ Alive
    /\ traffic[n].at = "select"
    /\ \/ <<"done", traffic[n].done>> \in closedChans
       \/ <<"trafficQuit", traffic[n].quit>> \in closedChans
    /\ traffic' = [traffic EXCEPT ![n].at = "ended"]
    /\ UNCHANGED <<loops, run, exitFlag, dialled, conn, fieldVars, closer,
                   heartbeat, forwarding>>

TrafficPanics(n) ==
    /\ \/ traffic[n].at \in {"first", "send"} /\ CannotSend("statusCh")
       \/ traffic[n].at = "resend" /\ <<"statusCh", traffic[n].status>> \in closedChans
    /\ Panic

-----------------------------------------------------------------------------
(* handleHTTPRequest, for a request that came on the n-th connection.      *)

\* The backend fails and nothing is sent, or the response is sent on whatever
\* connection there is by now.
ForwardingEnds(n) ==
    /\ Alive
    /\ n \in forwarding
    /\ forwarding' = forwarding \ {n}
    /\ UNCHANGED <<loops, run, exitFlag, dialled, conn, fieldVars, closer,
                   heartbeat, traffic>>

\* There is a response and c.enc is nil.
ForwardingPanics(n) ==
    /\ n \in forwarding /\ field["enc"] = Nil
    /\ Panic

ConnLost(n) ==
    /\ Alive
    /\ conn[n] = "open"
    /\ conn' = [conn EXCEPT ![n] = "lost"]
    /\ UNCHANGED <<run, exitFlag, dialled, fieldVars, closer, loopVars>>

-----------------------------------------------------------------------------
\* The goroutine of run on its own account; what it waits for of the server is
\* not in here.
Run ==
    \/ Top \/ BackOff \/ AfterClose \/ AfterUndo
    \/ DialFails \/ Dial \/ ResetOnce \/ MakeFields
    \/ SendRegister \/ RegisterFails \/ AwaitReply \/ ReplyFails
    \/ Receive \/ ReceiveFails \/ RecordPingReply
    \/ RunPanics

ServerSends ==
    \/ Registered
    \/ ReplyRefuses
    \/ HTTPRequestArrives
    \/ PongArrives

Heartbeat(n) == HeartbeatSends(n) \/ HeartbeatEnds(n) \/ HeartbeatPanics(n)

Traffic(n) ==
    \/ TrafficFirst(n)
    \/ TrafficSends(n)
    \/ TrafficDrains(n)
    \/ TrafficWaits(n)
    \/ TrafficResends(n)
    \/ TrafficEnds(n)
    \/ TrafficPanics(n)

\* The tunnel is over; the process is, after a panic.
Terminated ==
    /\ crashed \/ run = "returned"
    /\ UNCHANGED vars

Next ==
    \/ Run
    \/ ServerSends
    \/ \E t \in Closers : CloseControl(t)
    \/ \E t \in Exiters : RequestExit(t)
    \/ \E n \in Conns :
         \/ HeartbeatTick(n)
         \/ Heartbeat(n)
         \/ TrafficTick(n)
         \/ Traffic(n)
         \/ ForwardingEnds(n)
         \/ ForwardingPanics(n)
         \/ ConnLost(n)
    \/ Terminated

Spec == Init /\ [][Next]_vars

\* Goroutines are scheduled, dialling and writing return, and a read returns
\* when its connection is gone: TCP keep-alive finds that out. The server need
\* not send anything, nobody need ask the client to exit, and the traffic loop,
\* which may wait for good, need not go on.
Fairness ==
    /\ WF_vars(Run)
    /\ \A t \in Closers : WF_vars(CloseControl(t))
    /\ \A n \in Conns : WF_vars(Heartbeat(n))

FairSpec == Spec /\ Fairness

-----------------------------------------------------------------------------
Stages == [op : {"idle", "done", "once"}, of : {0}]
          \cup [op : {"test", "close", "clear"}, of : 1..4]

Heartbeats == [at : {"none", "select", "tick", "ended"}, done : Conns \cup {Nil}]

Traffics == [at : {"none", "first", "select", "send", "drained", "resend", "ended"},
             done : Conns \cup {Nil}, quit : Conns \cup {Nil},
             status : Conns \cup {Nil}]

Chans == {"done", "trafficQuit", "statusCh", "pingCh"}

\* Every variable has its type.
TypeOK ==
    /\ loops \in LoopSets
    /\ run \in {"top", "dial", "resetOnce", "makeFields", "register", "await",
               "awaiting", "undo", "receive", "reading", "pong", "closing",
               "backoff", "returned"}
    /\ exitFlag \in BOOLEAN
    /\ dialled \in 0..MaxConns
    /\ conn \in [Conns -> {"none", "open", "lost", "closed"}]
    /\ field \in [Fields -> Conns \cup {Nil}]
    /\ doneOnce \in BOOLEAN
    /\ closedChans \subseteq Chans \X Conns
    /\ closer \in [Closers -> Stages]
    /\ heartbeat \in [Conns -> Heartbeats]
    /\ traffic \in [Conns -> Traffics]
    /\ forwarding \subseteq Conns \cup {Nil}
    /\ crashed \in BOOLEAN

\* The client has at most one control connection it has not closed, however
\* often it reconnects and whenever the exit is requested: two would replace
\* each other under its client ID on the server.
OneControlConn ==
    \A m, n \in Conns :
        conn[m] \in {"open", "lost"} /\ conn[n] \in {"open", "lost"} => m = n

\* When the connection is lost, receiveLoop or the registration ends and the
\* client dials again, unless it is to exit.
LossLeadsToRedial ==
    run \in {"register", "await", "awaiting", "receive", "reading"}
        /\ conn[dialled] = "lost"
        ~> run = "dial" \/ exitFlag \/ crashed

\* Where run is while connectControl makes a connection.
Connecting == {"dial", "resetOnce", "makeFields", "register", "await", "awaiting"}

\* An exit requested while the client is served or backs off ends run. One
\* requested while it connects can be lost: connectControl does not look at
\* exitFlag, and run only when receiveLoop has returned.
ExitEndsService ==
    \A t \in Exiters :
        closer[t].op = "once" /\ run \notin Connecting
            ~> run = "returned" \/ crashed

\* Nobody takes a request to exit back, and once run is not connecting it does not
\* connect again.
ExitIsKept ==
    [][exitFlag => exitFlag' /\ (run \notin Connecting => run' \notin Connecting)]_vars

\* Losing connections and making new ones never panics by itself, however often: until
\* the exit is requested the only panics are those of the loops and handlers that
\* were left behind, and none is of run or of closeControl.
ReconnectionNeverPanics ==
    [][RunPanics \/ (\E t \in Closers : CloserPanics(t)) => exitFlag]_vars

\* Until run returns, no heartbeat loop goes on waiting for a connection that is
\* closed: somebody closes the done it waits for.
HeartbeatEndsWithConn ==
    \A n \in Conns :
        heartbeat[n] = [at |-> "select", done |-> n] /\ conn[n] = "closed"
            ~> \/ heartbeat[n].at = "ended"
               \/ heartbeat[n].done # n
               \/ run = "returned" \/ crashed

-----------------------------------------------------------------------------
\* "Auto-reconnect khi mất mạng" (reconnects when the network is lost): unless
\* asked to exit the client does not die.
SurvivesLoss == crashed => exitFlag
=============================================================================
