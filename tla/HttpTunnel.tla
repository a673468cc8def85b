----------------------------- MODULE HttpTunnel -----------------------------
(***************************************************************************)
(* HTTP tunnelling from one end to the other. The HTTPS proxy of the       *)
(* server (handleRequest) sends a request over the control connection of a *)
(* session (SendHTTPRequest) and waits on a channel that httpRequests      *)
(* leads to; the client asks its backend (handleHTTPRequest) and answers   *)
(* over the connection it has by then, which may be that of a later        *)
(* session; the server finds the channel by the request's ID               *)
(* (handleHTTPResponse, in a goroutine of its own).                        *)
(*                                                                         *)
(* A message is the ID of its request: IDs are random and taken to be      *)
(* unique. The sessions are those of one client, one after the other; the  *)
(* server may not have noticed yet that the client has left one.           *)
(***************************************************************************)
EXTENDS Integers

CONSTANTS
    Requests,     \* requests of public peers
    MaxSessions   \* bound: how often the client gets registered

ASSUME SessionsAssumption == MaxSessions \in Nat \ {0}

VARIABLES
    asker,        \* where handleRequest is for each request
    via,          \* the session it goes to
    httpRequests, \* the requests in server.httpRequests
    ready,        \* the requests whose channel has a response in it
    outcome,      \* how SendHTTPRequest ended
    written,      \* what the public peer was sent
    late,         \* the requests whose WriteTimeout is over
    delivering,   \* the requests a goroutine of handleHTTPResponse has found
    link,         \* the control connection of each session
    registered,   \* how many sessions the client has had
    enc,          \* the session c.enc belongs to
    toClient,     \* <<session, request>> on the way to the client
    forwarding,   \* the requests the client is asking its backend about
    toServer,     \* <<session, request>>: responses on the way to the server
    unanswered    \* the requests the client has dropped without an answer

askerVars == <<asker, via, outcome, written>>
serverVars == <<httpRequests, ready, late, delivering>>
linkVars == <<link, registered>>
clientVars == <<enc, forwarding, unanswered>>
netVars == <<toClient, toServer>>
vars == <<askerVars, serverVars, linkVars, clientVars, netVars>>

Sessions == 1..MaxSessions
NoSession == 0

Init ==
    /\ asker = [r \in Requests |-> "new"]
    /\ via = [r \in Requests |-> NoSession]
    /\ httpRequests = {}
    /\ ready = {}
    /\ outcome = [r \in Requests |-> "none"]
    /\ written = [r \in Requests |-> "nothing"]
    /\ late = {}
    /\ delivering = {}
    /\ link = [s \in Sessions |-> "none"]
    /\ registered = 0
    /\ enc = NoSession
    /\ toClient = {}
    /\ forwarding = {}
    /\ toServer = {}
    /\ unanswered = {}

Goto(r, from, to) ==
    /\ asker[r] = from
    /\ asker' = [asker EXCEPT ![r] = to]

-----------------------------------------------------------------------------
(* handleRequest and SendHTTPRequest.                                      *)

\* The answer is written unless the deadline of the connection is over.
Answer(r, what) ==
    written' = [written EXCEPT ![r] = IF r \in late THEN @ ELSE what]

\* No session has the subdomain, or the body cannot be read.
Refuse(r) ==
    /\ Goto(r, "new", "done")
    /\ Answer(r, "error")
    /\ UNCHANGED <<via, outcome, serverVars, linkVars, clientVars, netVars>>

\* The subdomain leads to a session, which may be over by now.
FindSession(r, s) ==
    /\ Goto(r, "new", "found")
    /\ link[s] # "none"
    /\ via' = [via EXCEPT ![r] = s]
    /\ UNCHANGED <<outcome, written, serverVars, linkVars, clientVars, netVars>>

\* Mutant of RegisterChannel: the request is sent before its channel is there.
RegisterLater(r) ==
    /\ Goto(r, "found", "sending")
    /\ UNCHANGED <<via, outcome, written, serverVars, linkVars, clientVars,
                   netVars>>

RegisterChannel(r) ==
    /\ Goto(r, "found", "sending")
    /\ httpRequests' = httpRequests \cup {r}
    /\ UNCHANGED <<via, outcome, written, ready, late, delivering, linkVars,
                   clientVars, netVars>>

\* Encode succeeds; what is sent on a connection that is down is lost. Waiting
\* includes the return of Encode, which an answer may come before.
SendRequest(r) ==
    /\ Goto(r, "sending", "waiting")
    /\ link[via[r]] # "done"
    /\ toClient' = IF link[via[r]] = "up" THEN toClient \cup {<<via[r], r>>}
                                          ELSE toClient
    /\ UNCHANGED <<via, outcome, written, serverVars, linkVars, clientVars,
                   toServer>>

Fail(r, how) ==
    /\ outcome' = [outcome EXCEPT ![r] = how]
    /\ UNCHANGED <<via, written, serverVars, linkVars, clientVars, netVars>>

\* The connection is down or was closed: Encode fails.
SendFails(r) ==
    /\ Goto(r, "sending", "leaving")
    /\ link[via[r]] # "up"
    /\ Fail(r, "unsent")

TakeResponse(r) ==
    /\ Goto(r, "waiting", "leaving")
    /\ r \in ready
    /\ ready' = ready \ {r}
    /\ outcome' = [outcome EXCEPT ![r] = "response"]
    /\ UNCHANGED <<via, written, httpRequests, late, delivering, linkVars,
                   clientVars, netVars>>

\* Mutant of TimeOut: the timer is not looked at while the session is there.
TimeOutWithSession(r) ==
    /\ Goto(r, "waiting", "leaving")
    /\ r \in late /\ link[via[r]] = "done"
    /\ Fail(r, "timeout")

\* 30 seconds are over, as long as WriteTimeout and begun later.
TimeOut(r) ==
    /\ Goto(r, "waiting", "leaving")
    /\ r \in late
    /\ Fail(r, "timeout")

\* Mutant of Disconnected: done is looked at before the wait only.
DisconnectedBefore(r) ==
    /\ Goto(r, "sending", "leaving")
    /\ link[via[r]] = "done"
    /\ Fail(r, "disconnected")

\* session.done is closed.
Disconnected(r) ==
    /\ Goto(r, "waiting", "leaving")
    /\ link[via[r]] = "done"
    /\ Fail(r, "disconnected")

\* Mutant of Leave: nothing is deferred.
LeaveEntry(r) ==
    /\ Goto(r, "leaving", "done")
    /\ Answer(r, IF outcome[r] = "response" THEN "page" ELSE "error")
    /\ UNCHANGED <<via, outcome, serverVars, linkVars, clientVars, netVars>>

\* The deferred function of SendHTTPRequest, and the end of handleRequest.
Leave(r) ==
    /\ Goto(r, "leaving", "done")
    /\ httpRequests' = httpRequests \ {r}
    /\ Answer(r, IF outcome[r] = "response" THEN "page" ELSE "error")
    /\ UNCHANGED <<via, outcome, ready, late, delivering, linkVars, clientVars,
                   netVars>>

\* WriteTimeout, from the moment the request's header was read.
DeadlinePasses(r) ==
    /\ asker[r] # "done" /\ r \notin late
    /\ late' = late \cup {r}
    /\ UNCHANGED <<askerVars, httpRequests, ready, delivering, linkVars,
                   clientVars, netVars>>

-----------------------------------------------------------------------------
(* controlLoop and handleHTTPResponse.                                     *)

\* A response is read and its goroutine takes the channel out of the map.
FindChannel(s, r) ==
    /\ <<s, r>> \in toServer /\ link[s] = "up"
    /\ r \in httpRequests
    /\ httpRequests' = httpRequests \ {r}
    /\ delivering' = delivering \cup {r}
    /\ toServer' = toServer \ {<<s, r>>}
    /\ UNCHANGED <<askerVars, ready, late, linkVars, clientVars, toClient>>

\* Nobody waits for it any more.
FindNoChannel(s, r) ==
    /\ <<s, r>> \in toServer /\ link[s] = "up"
    /\ r \notin httpRequests
    /\ toServer' = toServer \ {<<s, r>>}
    /\ UNCHANGED <<askerVars, serverVars, linkVars, clientVars, toClient>>

\* The channel has room for one, and nothing else is sent to it: the default
\* of this select is never taken (OneAnswer).
SendResponse(r) ==
    /\ r \in delivering
    /\ delivering' = delivering \ {r}
    /\ ready' = ready \cup {r}
    /\ UNCHANGED <<askerVars, httpRequests, late, linkVars, clientVars, netVars>>

-----------------------------------------------------------------------------
(* The client: its control connection as ClientControl has it in detail.   *)

Register ==
    /\ enc = NoSession /\ registered < MaxSessions
    /\ registered' = registered + 1
    /\ link' = [link EXCEPT ![registered + 1] = "up"]
    /\ enc' = registered + 1
    /\ UNCHANGED <<askerVars, serverVars, forwarding, unanswered, netVars>>

\* receiveLoop has ended and closeControl has cleared the fields.
CloseControl ==
    /\ enc # NoSession
    /\ enc' = NoSession
    /\ UNCHANGED <<askerVars, serverVars, linkVars, forwarding, unanswered,
                   netVars>>

ReceiveRequest(s, r) ==
    /\ <<s, r>> \in toClient
    /\ enc = s /\ link[s] = "up"
    /\ toClient' = toClient \ {<<s, r>>}
    /\ forwarding' = forwarding \cup {r}
    /\ UNCHANGED <<askerVars, serverVars, linkVars, enc, unanswered, toServer>>

\* Mutant of BackendAnswers: the handler answers again on the next connection.
AnswerAgain(r) ==
    /\ r \in forwarding /\ enc # NoSession /\ link[enc] = "up"
    /\ toServer' = toServer \cup {<<enc, r>>}
    /\ UNCHANGED <<askerVars, serverVars, linkVars, clientVars, toClient>>

\* The backend's response, or the error when no request to it can be made, is
\* sent on whatever connection the client has. http.Client follows redirects, so
\* the backend may have been asked more than once by then; it has no state here.
BackendAnswers(r) ==
    /\ r \in forwarding /\ enc # NoSession
    /\ forwarding' = forwarding \ {r}
    /\ toServer' = IF link[enc] = "up" THEN toServer \cup {<<enc, r>>}
                                       ELSE toServer
    /\ UNCHANGED <<askerVars, serverVars, linkVars, enc, unanswered, toClient>>

\* The backend cannot be reached, is silent or breaks off, or the client is not
\* in HTTP mode: the handler returns.
BackendFails(r) ==
    /\ r \in forwarding
    /\ forwarding' = forwarding \ {r}
    /\ unanswered' = unanswered \cup {r}
    /\ UNCHANGED <<askerVars, serverVars, linkVars, enc, netVars>>

\* The backend has answered and c.enc is nil: the process dies, and with it
\* every handler. It may be started again.
ClientPanics(r) ==
    /\ r \in forwarding /\ enc = NoSession
    /\ forwarding' = {}
    /\ UNCHANGED <<askerVars, serverVars, linkVars, enc, unanswered, netVars>>

-----------------------------------------------------------------------------
(* The control connection between them.                                    *)

\* It breaks, or the client has closed it: what is on the way is lost.
LinkBreaks(s) ==
    /\ link[s] = "up"
    /\ link' = [link EXCEPT ![s] = "down"]
    /\ toClient' = {m \in toClient : m[1] # s}
    /\ toServer' = {m \in toServer : m[1] # s}
    /\ UNCHANGED <<askerVars, serverVars, registered, clientVars>>

\* The server closes the session: it reads the end of the connection, or has
\* heard nothing for too long, from a client that may still be there.
SessionEnds(s) ==
    /\ link[s] \in {"up", "down"}
    /\ link' = [link EXCEPT ![s] = "done"]
    /\ toClient' = {m \in toClient : m[1] # s}
    /\ toServer' = {m \in toServer : m[1] # s}
    /\ UNCHANGED <<askerVars, serverVars, registered, clientVars>>

-----------------------------------------------------------------------------
Terminated ==
    /\ \A r \in Requests : asker[r] = "done"
    /\ UNCHANGED vars

Ask(r) ==
    \/ RegisterChannel(r)
    \/ SendRequest(r)
    \/ SendFails(r)
    \/ TakeResponse(r)
    \/ TimeOut(r)
    \/ Disconnected(r)
    \/ Leave(r)

HandleHTTPResponse(s, r) == FindChannel(s, r) \/ FindNoChannel(s, r)

HandleHTTPRequest(r) == BackendAnswers(r) \/ BackendFails(r) \/ ClientPanics(r)

Next ==
    \/ \E r \in Requests :
         \/ Refuse(r)
         \/ \E s \in Sessions : FindSession(r, s)
         \/ Ask(r)
         \/ DeadlinePasses(r)
         \/ SendResponse(r)
         \/ HandleHTTPRequest(r)
    \/ \E s \in Sessions :
         \/ \E r \in Requests : ReceiveRequest(s, r) \/ HandleHTTPResponse(s, r)
         \/ LinkBreaks(s)
         \/ SessionEnds(s)
    \/ Register
    \/ CloseControl
    \/ Terminated

Spec == Init /\ [][Next]_vars

\* Goroutines of both sides are scheduled and a connection that is up carries
\* its messages; the backend is given up after 30 seconds. A connection that
\* the client has left breaks, and the server notices one that is broken. No
\* clock of the server and no reconnection is assumed.
Fairness ==
    /\ \A r \in Requests :
         /\ WF_vars(Ask(r))
         /\ WF_vars(SendResponse(r))
         /\ WF_vars(HandleHTTPRequest(r))
    /\ \A s \in Sessions :
         /\ \A r \in Requests : WF_vars(ReceiveRequest(s, r))
         /\ \A r \in Requests : WF_vars(HandleHTTPResponse(s, r))
         /\ WF_vars(enc # s /\ LinkBreaks(s))
         /\ WF_vars(link[s] = "down" /\ SessionEnds(s))

FairSpec == Spec /\ Fairness

-----------------------------------------------------------------------------
\* Every variable has its type.
TypeOK ==
    /\ asker \in [Requests -> {"new", "found", "sending", "waiting", "leaving",
                               "done"}]
    /\ via \in [Requests -> Sessions \cup {NoSession}]
    /\ httpRequests \subseteq Requests
    /\ ready \subseteq Requests
    /\ outcome \in [Requests -> {"none", "response", "unsent", "timeout",
                                 "disconnected"}]
    /\ written \in [Requests -> {"nothing", "page", "error"}]
    /\ late \subseteq Requests
    /\ delivering \subseteq Requests
    /\ link \in [Sessions -> {"none", "up", "down", "done"}]
    /\ registered \in 0..MaxSessions
    /\ enc \in Sessions \cup {NoSession}
    /\ toClient \subseteq Sessions \X Requests
    /\ forwarding \subseteq Requests
    /\ toServer \subseteq Sessions \X Requests
    /\ unanswered \subseteq Requests

\* Where a request, or its answer, can be.
Asking(r) == \E s \in Sessions : <<s, r>> \in toClient
Answering(r) == \E s \in Sessions : <<s, r>> \in toServer

\* The answer to a request is in one place at a time, over whichever sessions
\* it travels: the one channel of the request gets one response and has room
\* for it, and the client's backend is not asked again.
OneAnswer ==
    \A r \in Requests :
        /\ Answering(r) => r \notin forwarding \cup delivering \cup ready
        /\ r \in delivering => r \notin ready
        /\ r \in forwarding => r \notin delivering \cup ready
        /\ Asking(r) => /\ ~Answering(r)
                        /\ r \notin forwarding \cup delivering \cup ready
        /\ \A s, t \in Sessions :
             <<s, r>> \in toServer /\ <<t, r>> \in toServer => s = t

\* The places of a request and its answer, in the order they come in.
Place(r, name) ==
    CASE name = "asker" -> asker[r] \in {"new", "found", "sending"}
      [] name = "request" -> Asking(r)
      [] name = "backend" -> r \in forwarding
      [] name = "response" -> Answering(r)
      [] name = "handler" -> r \in delivering
      [] name = "channel" -> r \in ready
      [] name = "taken" -> outcome[r] = "response"

Places == {"asker", "request", "backend", "response", "handler", "channel", "taken"}
WhereIs(r) == {name \in Places : Place(r, name)}

Shot == INSTANCE OneShot WITH
    where <- [r \in Requests |-> WhereIs(r)], reply <- written

\* Over whichever sessions of the client they travel, a request and its answer are
\* one thing that makes each hop once: no backend is asked twice, no peer gets two
\* replies, and none gets a page but the one its own backend has sent.
ImplementsOneShot == Shot!Spec

\* An answer that is on its way finds the channel of its request as long as
\* SendHTTPRequest waits, however fast it is.
AnswerFindsChannel ==
    \A r \in Requests :
        asker[r] \in {"sending", "waiting"}
            => \/ r \in httpRequests
               \/ r \in delivering \cup ready

\* httpRequests keeps no request whose handler has returned.
EntryHasAsker ==
    \A r \in httpRequests : asker[r] \in {"sending", "waiting", "leaving"}

\* A public peer is answered, through losses and reconnections of the client,
\* unless its time is over or the client has dropped the request.
PublicIsAnswered ==
    \A r \in Requests :
        asker[r] = "found"
            ~> written[r] # "nothing" \/ r \in late \/ r \in unanswered

\* A request whose time is over ends, whatever has become of its session and
\* its answer.
LateRequestEnds ==
    \A r \in Requests :
        asker[r] = "waiting" /\ r \in late ~> asker[r] = "done"
=============================================================================
