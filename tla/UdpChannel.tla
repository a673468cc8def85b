----------------------------- MODULE UdpChannel ------------------------------
(***************************************************************************)
(* The UDP channel of a client in UDP mode: the socket connectControl opens *)
(* beside each control connection, the handshake that is repeated until the *)
(* server answers, and the pings that watch the channel afterwards. The     *)
(* goroutine of run, the reader of each socket, the retry goroutine of each *)
(* channel and the ping loops share the fields under udpMu and udpCtrlMu,   *)
(* one hold of a lock being one step. The server answers each packet where  *)
(* it came from and keeps nothing.                                          *)
(*                                                                          *)
(* The n-th control connection, its done channel and its socket are all     *)
(* called n, and 0 is nil. Packets that were sent stay in a set: they may   *)
(* arrive late, repeatedly, in any order or never. Timers take any time.    *)
(***************************************************************************)
EXTENDS Integers, FiniteSets

CONSTANTS
    MaxConns,   \* bound: how many control connections the client makes
    MaxRetries, \* maxRetries of udpHandshakeRetry
    MaxLoops    \* bound: how many ping loops run at a time

ASSUME ChannelAssumption ==
    MaxConns \in Nat \ {0} /\ MaxRetries \in Nat /\ MaxLoops \in Nat \ {0}

VARIABLES
    run,        \* where the goroutine of run is
    conn,       \* the control connection c.done belongs to
    doneClosed, \* the connections whose done channel is closed
    sock,       \* c.udpConn
    open,       \* the sockets that are open
    ready,      \* c.udpReady
    ping,       \* c.udpPingTicker and c.udpPingStop: the loop they belong to
    stopped,    \* the loops whose stop channel is closed
    reader,     \* the readUDPControl of each socket
    retry,      \* the udpHandshakeRetry of each channel
    loop,       \* the ping loops
    toServer, toClient \* the packets sent, with the socket they belong to

vars == <<run, conn, doneClosed, sock, open, ready, ping, stopped, reader, retry,
          loop, toServer, toClient>>

pingVars == <<ping, stopped>>
sockVars == <<sock, open, ready>>
packets == <<toServer, toClient>>

Conns == 1..MaxConns
Loops == 1..MaxLoops
Nil == 0

Stage(at, of) == [at |-> at, of |-> of]
Trying(at, of, tries) == [at |-> at, of |-> of, tries |-> tries]

Init ==
    /\ run = "down" /\ conn = Nil /\ doneClosed = {}
    /\ sock = Nil /\ open = {} /\ ready = FALSE
    /\ ping = Nil /\ stopped = {}
    /\ reader = [n \in Conns |-> "none"]
    /\ retry = [n \in Conns |-> Trying("none", Nil, 0)]
    /\ loop = [l \in Loops |-> Stage("free", Nil)]
    /\ toServer = {} /\ toClient = {}

-----------------------------------------------------------------------------

StopPing ==
    /\ ping' = Nil
    /\ stopped' = stopped \cup ({ping} \ {Nil})

CloseSock == open' = open \ {sock} /\ sock' = Nil

\* writeUDP uses whatever socket is there at the moment.
WriteHandshake == toServer' = toServer \cup ({sock} \ {Nil})

Connect ==
    /\ run = "down" /\ conn < MaxConns
    /\ conn' = conn + 1
    /\ run' = "register"
    /\ StopPing
    /\ UNCHANGED <<doneClosed, sockVars, reader, retry, loop, packets>>

Registered ==
    /\ run = "register"
    /\ run' = "setup"
    /\ UNCHANGED <<conn, doneClosed, sockVars, pingVars, reader, retry, loop, packets>>

\* The deferred function of connectControl; done is left open.
RegisterFails ==
    /\ run = "register"
    /\ run' = "down"
    /\ StopPing
    /\ CloseSock
    /\ UNCHANGED <<conn, doneClosed, ready, reader, retry, loop, packets>>

SetupFails ==
    /\ run = "setup"
    /\ run' = "serve"
    /\ UNCHANGED <<conn, doneClosed, sockVars, pingVars, reader, retry, loop,
                   packets>>

SetupUDPChannel ==
    /\ run = "setup"
    /\ run' = "listen"
    /\ open' = (open \ {sock}) \cup {conn}
    /\ sock' = conn
    /\ ready' = FALSE
    /\ UNCHANGED <<conn, doneClosed, pingVars, reader, retry, loop, packets>>

StartReader ==
    /\ run = "listen"
    /\ run' = "burst"
    /\ StopPing
    /\ reader' = [reader EXCEPT ![conn] = "read"]
    /\ UNCHANGED <<conn, doneClosed, sockVars, retry, loop, packets>>

HandshakeBurst ==
    /\ run = "burst"
    /\ run' = "serve"
    /\ WriteHandshake
    /\ retry' = [retry EXCEPT ![conn] = Trying("top", Nil, 0)]
    /\ UNCHANGED <<conn, doneClosed, sockVars, pingVars, reader, loop, toClient>>

\* The control connection is lost: closeControl.
CloseDone ==
    /\ run = "serve"
    /\ run' = "quiet"
    /\ doneClosed' = doneClosed \cup {conn}
    /\ UNCHANGED <<conn, sockVars, pingVars, reader, retry, loop, packets>>

ClosePing ==
    /\ run = "quiet"
    /\ run' = "drop"
    /\ StopPing
    /\ UNCHANGED <<conn, doneClosed, sockVars, reader, retry, loop, packets>>

\* Mutant: closeControl leaves the socket of the channel alone.
KeepSocket ==
    /\ run = "drop"
    /\ run' = "down"
    /\ UNCHANGED <<conn, doneClosed, sockVars, pingVars, reader, retry, loop, packets>>

DropSocket ==
    /\ run = "drop"
    /\ run' = "down"
    /\ CloseSock
    /\ ready' = FALSE
    /\ UNCHANGED <<conn, doneClosed, pingVars, reader, retry, loop, packets>>

-----------------------------------------------------------------------------
(* The server.                                                             *)

ServerAnswersHandshake ==
    \E n \in toServer :
        /\ toClient' = toClient \cup {n}
        /\ UNCHANGED <<run, conn, doneClosed, sockVars, pingVars, reader, retry,
                       loop, toServer>>

-----------------------------------------------------------------------------
(* The reader of the n-th socket: a packet is read and then acted upon.    *)

ReadPacket(n) ==
    /\ reader[n] = "read" /\ n \in open /\ n \in toClient
    /\ reader' = [reader EXCEPT ![n] = "handshake"]
    /\ UNCHANGED <<run, conn, doneClosed, sockVars, pingVars, retry, loop, packets>>

HandshakeDone(n) ==
    /\ reader[n] = "handshake"
    /\ reader' = [reader EXCEPT ![n] = "start"]
    /\ ready' = TRUE
    /\ UNCHANGED <<run, conn, doneClosed, sock, open, pingVars, retry, loop, packets>>

\* startUDPPing leaves a loop that is there alone.
PingIsThere(n) ==
    /\ reader[n] = "start" /\ ping # Nil
    /\ reader' = [reader EXCEPT ![n] = "read"]
    /\ UNCHANGED <<run, conn, doneClosed, sockVars, pingVars, retry, loop, packets>>

\* Mutant: a loop is started whether or not there is one.
StartPingAgain(n) ==
    /\ reader[n] = "start"
    /\ \E l \in Loops :
        /\ loop[l].at = "free"
        /\ ping' = l
        /\ stopped' = stopped \ {l}
        /\ loop' = [loop EXCEPT ![l] = Stage("wait", conn)]
    /\ reader' = [reader EXCEPT ![n] = "read"]
    /\ UNCHANGED <<run, conn, doneClosed, sockVars, retry, packets>>

\* The number of a ping loop is only its name: the lowest free one is taken.
StartPing(n) ==
    /\ reader[n] = "start" /\ ping = Nil
    /\ \E l \in Loops :
        /\ loop[l].at = "free"
        /\ \A k \in Loops : k < l => loop[k].at # "free"
        /\ ping' = l
        /\ stopped' = stopped \ {l}
        /\ loop' = [loop EXCEPT ![l] = Stage("wait", conn)]
    /\ reader' = [reader EXCEPT ![n] = "read"]
    /\ UNCHANGED <<run, conn, doneClosed, sockVars, retry, packets>>

\* The socket is closed, or the network reports an error on it.
ReadFails(n) ==
    /\ reader[n] = "read"
    /\ reader' = [reader EXCEPT ![n] = "ended"]
    /\ StopPing
    /\ UNCHANGED <<run, conn, doneClosed, sockVars, retry, loop, packets>>

-----------------------------------------------------------------------------
(* The retry goroutine of the n-th channel.                                *)

\* The select waits on the done channel that c.done holds at this moment.
RetryChecks(n) ==
    /\ retry[n].at = "top"
    /\ retry' = [retry EXCEPT ![n] = IF ready \/ sock = Nil
                                        THEN Trying("ended", Nil, @.tries)
                                        ELSE Trying("select", conn, @.tries)]
    /\ UNCHANGED <<run, conn, doneClosed, sockVars, pingVars, reader, loop, packets>>

RetrySends(n) ==
    /\ retry[n].at = "select" /\ retry[n].tries < MaxRetries
    /\ retry' = [retry EXCEPT ![n] = Trying("top", Nil, @.tries + 1)]
    /\ WriteHandshake
    /\ UNCHANGED <<run, conn, doneClosed, sockVars, pingVars, reader, loop, toClient>>

\* Mutant: the retry goroutine ends and leaves the socket.
RetryLeaves(n) ==
    /\ retry[n].at = "select"
    /\ retry' = [retry EXCEPT ![n] = Trying("ended", Nil, @.tries)]
    /\ UNCHANGED <<run, conn, doneClosed, sockVars, pingVars, reader, loop, packets>>

\* The attempts are used up, or the timer of ten seconds has fired: the
\* socket that is there now is closed.
RetryGivesUp(n) ==
    /\ retry[n].at = "select"
    /\ retry' = [retry EXCEPT ![n] = Trying("ended", Nil, @.tries)]
    /\ CloseSock
    /\ UNCHANGED <<run, conn, doneClosed, ready, pingVars, reader, loop, packets>>

RetrySeesDone(n) ==
    /\ retry[n].at = "select" /\ retry[n].of \in doneClosed
    /\ retry' = [retry EXCEPT ![n] = Trying("ended", Nil, @.tries)]
    /\ UNCHANGED <<run, conn, doneClosed, sockVars, pingVars, reader, loop, packets>>

-----------------------------------------------------------------------------
(* A ping loop. A tick may still be buffered when its ticker is stopped.   *)

SendPing(l) ==
    /\ loop[l].at = "wait"
    /\ loop' = [loop EXCEPT ![l] = Stage("wait", conn)]
    /\ UNCHANGED <<run, conn, doneClosed, sockVars, pingVars, reader, retry, packets>>

PingLoopEnds(l) ==
    /\ loop[l].at = "wait" /\ (l \in stopped \/ loop[l].of \in doneClosed)
    /\ loop' = [loop EXCEPT ![l] = Stage("free", Nil)]
    /\ UNCHANGED <<run, conn, doneClosed, sockVars, pingVars, reader, retry, packets>>

-----------------------------------------------------------------------------

RunSteps ==
    \/ Registered \/ RegisterFails \/ SetupFails \/ SetupUDPChannel \/ StartReader
    \/ HandshakeBurst \/ ClosePing \/ DropSocket

Reader(n) ==
    \/ ReadPacket(n) \/ HandshakeDone(n) \/ PingIsThere(n) \/ StartPing(n)
    \/ ReadFails(n)

Retry(n) ==
    \/ RetryChecks(n) \/ RetrySends(n) \/ RetryGivesUp(n) \/ RetrySeesDone(n)

PingLoop(l) ==
    SendPing(l) \/ PingLoopEnds(l)

Next ==
    \/ Connect \/ CloseDone \/ RunSteps
    \/ ServerAnswersHandshake
    \/ \E n \in Conns : Reader(n) \/ Retry(n)
    \/ \E l \in Loops : PingLoop(l)

Spec == Init /\ [][Next]_vars

\* What the code does by itself: the goroutine of run goes on within
\* connectControl and closeControl, the timers of the retry goroutine fire,
\* a reader returns from a closed socket and carries on with what it has
\* begun, and a ping loop that was stopped returns. Nothing is assumed of the network.
Fairness ==
    /\ WF_vars(RunSteps)
    /\ \A n \in Conns :
        /\ WF_vars(Retry(n))
        /\ WF_vars(Reader(n) /\ (reader[n] = "read" => n \notin open))
    /\ WF_vars(\E l \in Loops : PingLoopEnds(l))

FairSpec == Spec /\ Fairness

-----------------------------------------------------------------------------

RunPlaces == {"down", "register", "setup", "listen", "burst", "serve", "quiet", "drop"}
ReaderPlaces == {"none", "read", "handshake", "start", "ended"}
RetryStages ==
    [at : {"none", "top", "select", "ended"}, of : 0..MaxConns,
     tries : 0..MaxRetries]
LoopStages == [at : {"free", "wait"}, of : 0..MaxConns]

\* Every variable has its type.
TypeOK ==
    /\ run \in RunPlaces
    /\ conn \in 0..MaxConns
    /\ run # "down" => conn # Nil
    /\ doneClosed \subseteq Conns
    /\ sock \in 0..MaxConns
    /\ open \subseteq Conns
    /\ ready \in BOOLEAN
    /\ ping \in 0..MaxLoops
    /\ stopped \subseteq Loops
    /\ reader \in [Conns -> ReaderPlaces]
    /\ retry \in [Conns -> RetryStages]
    /\ loop \in [Loops -> LoopStages]
    /\ toServer \subseteq Conns /\ toClient \subseteq Conns

\* At most one ping loop has not been told to stop, and it is the one that
\* stopUDPPing will stop: no loop is left pinging after its channel, although
\* readers of old and new sockets and the goroutine of run start and stop
\* loops in any order.
OnePingLoop ==
    \A l \in Loops : loop[l].at # "free" => l \in stopped \/ l = ping

\* The socket in c.udpConn is the only one that is open: whoever takes a
\* socket out of the field has closed it.
OneSocket == open \subseteq {sock} \ {Nil}

\* The handshake comes to an end: the channel is ready or it is given up,
\* whatever packets are lost.
HandshakeEnds == (run = "serve" /\ sock # Nil /\ ~ready) ~> (ready \/ sock = Nil)

\* When the control connection has ended, the reader and the retry goroutine
\* of its channel end too, also when they are late and find the fields of the
\* next connection.
ChannelGoroutinesEnd ==
    \A n \in Conns :
        n \in doneClosed ~> /\ reader[n] \in {"none", "ended"}
                            /\ retry[n].at \in {"none", "ended"}

=============================================================================
