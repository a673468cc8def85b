-------------------------- MODULE HttpTunnelProofs --------------------------
(* Theorems about HttpTunnel for any number of requests and sessions.      *)
EXTENDS HttpTunnel, TLAPS

\* A request that is asked is asked over a session.
GoesToSession ==
    \A r \in Requests :
        asker[r] \in {"found", "sending", "waiting"} => via[r] \in Sessions

TypeInv == TypeOK /\ GoesToSession

\* Every variable of the tunnel keeps its type, and a request that is asked has
\* a session.
THEOREM TypeInvariant == Spec => []TypeInv
<1> USE SessionsAssumption
    DEF TypeInv, TypeOK, GoesToSession, Sessions, NoSession, Goto, Fail, Answer,
        askerVars, serverVars, linkVars, clientVars, netVars
<1>1. Init => TypeInv
  BY DEF Init
<1>2. TypeInv /\ [Next]_vars => TypeInv'
  <2> SUFFICES ASSUME TypeInv, [Next]_vars PROVE TypeInv'
    OBVIOUS
  <2>1. ASSUME NEW r \in Requests, Ask(r) PROVE TypeInv'
    <3>1. CASE RegisterChannel(r)
      BY <3>1 DEF RegisterChannel
    <3>2. CASE SendRequest(r)
      BY <3>2 DEF SendRequest
    <3>3. CASE SendFails(r)
      BY <3>3 DEF SendFails
    <3>4. CASE TakeResponse(r)
      BY <3>4 DEF TakeResponse
    <3>5. CASE TimeOut(r) \/ Disconnected(r)
      BY <3>5 DEF TimeOut, Disconnected
    <3>6. CASE Leave(r)
      BY <3>6 DEF Leave
    <3>7. QED
      BY <2>1, <3>1, <3>2, <3>3, <3>4, <3>5, <3>6 DEF Ask
  <2>2. ASSUME NEW r \in Requests,
               Refuse(r) \/ (\E s \in Sessions : FindSession(r, s))
        PROVE  TypeInv'
    BY <2>2 DEF Refuse, FindSession
  <2>3. ASSUME NEW r \in Requests, DeadlinePasses(r) \/ SendResponse(r)
        PROVE  TypeInv'
    BY <2>3 DEF DeadlinePasses, SendResponse
  <2>4. ASSUME NEW r \in Requests, HandleHTTPRequest(r) PROVE TypeInv'
    BY <2>4 DEF HandleHTTPRequest, BackendAnswers, BackendFails, ClientPanics
  <2>5. ASSUME NEW s \in Sessions, NEW r \in Requests,
               ReceiveRequest(s, r) \/ HandleHTTPResponse(s, r)
        PROVE  TypeInv'
    BY <2>5 DEF ReceiveRequest, HandleHTTPResponse, FindChannel, FindNoChannel
  <2>6. ASSUME NEW s \in Sessions, LinkBreaks(s) \/ SessionEnds(s)
        PROVE  TypeInv'
    BY <2>6 DEF LinkBreaks, SessionEnds
  <2>7. CASE Register \/ CloseControl
    BY <2>7 DEF Register, CloseControl
  <2>8. CASE Terminated \/ UNCHANGED vars
    BY <2>8 DEF Terminated, vars
  <2>9. QED
    BY <2>1, <2>2, <2>3, <2>4, <2>5, <2>6, <2>7, <2>8 DEF Next
<1>3. QED
  BY <1>1, <1>2, PTL DEF Spec

\* Every variable of the tunnel keeps its type.
THEOREM TypeCorrect == Spec => []TypeOK
BY TypeInvariant, PTL DEF TypeInv

-----------------------------------------------------------------------------
(***************************************************************************)
(* A request is nowhere before it is sent, and the message that asks for   *)
(* it travels over its own session. So there is one thing, the request or  *)
(* its answer, that moves from place to place, and it leaves httpRequests  *)
(* only for the goroutine that answers or with the asker.                  *)
(***************************************************************************)
NowhereBeforeSent ==
    \A r \in Requests :
        asker[r] \in {"new", "found", "sending"}
            => /\ ~Asking(r) /\ ~Answering(r)
               /\ r \notin forwarding \cup delivering \cup ready

AsksOverItsSession ==
    \A s \in Sessions : \A r \in Requests :
        <<s, r>> \in toClient => s = via[r]

SendingIsListed ==
    \A r \in Requests : asker[r] = "sending" => r \in httpRequests

TunnelInv ==
    /\ OneAnswer
    /\ AnswerFindsChannel
    /\ EntryHasAsker
    /\ NowhereBeforeSent
    /\ AsksOverItsSession
    /\ SendingIsListed

\* One step of the tunnel keeps the invariant.
LEMMA TunnelStep ==
    ASSUME TypeInv, TunnelInv, [Next]_vars PROVE TunnelInv'
<1> USE DEF TypeInv, TypeOK, GoesToSession, TunnelInv, OneAnswer,
            AnswerFindsChannel, EntryHasAsker, NowhereBeforeSent,
            AsksOverItsSession, SendingIsListed, Asking, Answering, Goto, Fail,
            askerVars, serverVars, linkVars, clientVars, netVars
<1>1. ASSUME NEW r \in Requests, Ask(r) PROVE TunnelInv'
  <2>1. CASE RegisterChannel(r)
    BY <2>1 DEF RegisterChannel
  <2>2. CASE SendRequest(r)
    BY <2>2 DEF SendRequest
  <2>3. CASE SendFails(r)
    BY <2>3 DEF SendFails
  <2>4. CASE TakeResponse(r)
    BY <2>4 DEF TakeResponse
  <2>5. CASE TimeOut(r) \/ Disconnected(r)
    <3>1. UNCHANGED <<via, httpRequests, ready, delivering, toClient,
                      forwarding, toServer>>
      BY <2>5 DEF TimeOut, Disconnected
    <3>2. asker[r] = "waiting" /\ asker' = [asker EXCEPT ![r] = "leaving"]
      BY <2>5 DEF TimeOut, Disconnected
    <3>3. QED
      BY <3>1, <3>2
  <2>6. CASE Leave(r)
    <3>1. UNCHANGED <<via, ready, delivering, toClient, forwarding, toServer>>
      BY <2>6 DEF Leave
    <3>2. /\ asker' = [asker EXCEPT ![r] = "done"]
          /\ httpRequests' = httpRequests \ {r}
      BY <2>6 DEF Leave
    <3>3. OneAnswer' /\ AsksOverItsSession'
      BY <3>1
    <3>4. NowhereBeforeSent' /\ SendingIsListed'
      BY <3>1, <3>2
    <3>5. AnswerFindsChannel' /\ EntryHasAsker'
      BY <3>1, <3>2
    <3>6. QED
      BY <3>3, <3>4, <3>5
  <2>7. QED
    BY <1>1, <2>1, <2>2, <2>3, <2>4, <2>5, <2>6 DEF Ask
<1>2. ASSUME NEW r \in Requests,
             Refuse(r) \/ (\E s \in Sessions : FindSession(r, s))
      PROVE  TunnelInv'
  <2>1. CASE Refuse(r)
    BY <2>1 DEF Refuse
  <2>2. ASSUME NEW s \in Sessions, FindSession(r, s) PROVE TunnelInv'
    <3>1. UNCHANGED <<httpRequests, ready, delivering, toClient, forwarding,
                      toServer>>
      BY <2>2 DEF FindSession
    <3>2. asker' = [asker EXCEPT ![r] = "found"] /\ asker[r] = "new"
      BY <2>2 DEF FindSession
    <3>3. AsksOverItsSession'
      BY <2>2, <3>1 DEF FindSession
    <3>4. QED
      BY <3>1, <3>2, <3>3
  <2>3. QED
    BY <1>2, <2>1, <2>2
<1>3. ASSUME NEW r \in Requests, DeadlinePasses(r) \/ SendResponse(r)
      PROVE  TunnelInv'
  BY <1>3 DEF DeadlinePasses, SendResponse
<1>4. ASSUME NEW r \in Requests, HandleHTTPRequest(r) PROVE TunnelInv'
  <2>1. CASE BackendAnswers(r)
    BY <2>1 DEF BackendAnswers
  <2>2. CASE BackendFails(r) \/ ClientPanics(r)
    BY <2>2 DEF BackendFails, ClientPanics
  <2>3. QED
    BY <1>4, <2>1, <2>2 DEF HandleHTTPRequest
<1>5. ASSUME NEW s \in Sessions, NEW r \in Requests, ReceiveRequest(s, r)
      PROVE  TunnelInv'
  BY <1>5 DEF ReceiveRequest
<1>6. ASSUME NEW s \in Sessions, NEW r \in Requests, HandleHTTPResponse(s, r)
      PROVE  TunnelInv'
  <2>1. CASE FindChannel(s, r)
    BY <2>1 DEF FindChannel
  <2>2. CASE FindNoChannel(s, r)
    BY <2>2 DEF FindNoChannel
  <2>3. QED
    BY <1>6, <2>1, <2>2 DEF HandleHTTPResponse
<1>7. ASSUME NEW s \in Sessions, LinkBreaks(s) \/ SessionEnds(s)
      PROVE  TunnelInv'
  BY <1>7 DEF LinkBreaks, SessionEnds
<1>8. CASE Register \/ CloseControl
  BY <1>8 DEF Register, CloseControl
<1>9. CASE Terminated \/ UNCHANGED vars
  BY <1>9 DEF Terminated, vars
<1>10. QED
  BY <1>1, <1>2, <1>3, <1>4, <1>5, <1>6, <1>7, <1>8, <1>9 DEF Next

\* The invariant of the tunnel: a request and its answer are one thing that
\* moves from place to place.
THEOREM TunnelIsSound == Spec => []TunnelInv
<1>1. Init => TunnelInv
  BY DEF Init, TunnelInv, OneAnswer, AnswerFindsChannel, EntryHasAsker,
         NowhereBeforeSent, AsksOverItsSession, SendingIsListed, Asking,
         Answering
<1>2. TypeInv /\ TunnelInv /\ [Next]_vars => TunnelInv'
  BY TunnelStep
<1>3. QED
  BY <1>1, <1>2, TypeInvariant, PTL DEF Spec

\* The channel of a request gets one response, and has room for it.
THEOREM AnswerIsTheOnlyOne == Spec => []OneAnswer
BY TunnelIsSound, PTL DEF TunnelInv

\* No answer comes too early for its channel.
THEOREM AnswerIsFound == Spec => []AnswerFindsChannel
BY TunnelIsSound, PTL DEF TunnelInv

\* httpRequests keeps nobody who has returned.
THEOREM NoStaleRequest == Spec => []EntryHasAsker
BY TunnelIsSound, PTL DEF TunnelInv

-----------------------------------------------------------------------------
(***************************************************************************)
(* The tunnel implements OneShot. What was taken from a channel is nowhere *)
(* else, and the peer is written to by nobody but the asker when it is     *)
(* done. With TunnelInv every request is in one place or none, so that the *)
(* steps of goroutines, wires and backend are hops of it or lose it.       *)
(***************************************************************************)
TakenIsElsewhere ==
    \A r \in Requests :
        outcome[r] = "response"
            => /\ ~Asking(r) /\ ~Answering(r)
               /\ r \notin forwarding \cup delivering \cup ready

OutcomeEndsWait ==
    \A r \in Requests : outcome[r] # "none" => asker[r] \in {"leaving", "done"}

WrittenWhenDone ==
    \A r \in Requests : written[r] # "nothing" => asker[r] = "done"

ReplyInv == TakenIsElsewhere /\ OutcomeEndsWait /\ WrittenWhenDone

LEMMA ReplyInitInv == Init => ReplyInv
BY DEF Init, ReplyInv, TakenIsElsewhere, OutcomeEndsWait, WrittenWhenDone, Asking, Answering

LEMMA ReplyStep ==
    ASSUME TypeInv, TunnelInv, ReplyInv, [Next]_vars PROVE ReplyInv'
<1> USE DEF TypeInv, TypeOK, GoesToSession, ReplyInv, TakenIsElsewhere, OutcomeEndsWait,
            WrittenWhenDone, Asking, Answering, Goto, Fail, Answer, askerVars, serverVars,
            linkVars, clientVars, netVars
<1>1. ASSUME NEW r \in Requests, Ask(r) PROVE ReplyInv'
  <2>1. CASE RegisterChannel(r)
    BY <2>1 DEF RegisterChannel
  <2>2. CASE SendRequest(r)
    BY <2>2 DEF SendRequest
  <2>3. CASE SendFails(r)
    BY <2>3 DEF SendFails
  <2>4. CASE TakeResponse(r)
    BY <2>4 DEF TakeResponse, TunnelInv, OneAnswer
  <2>5. CASE TimeOut(r) \/ Disconnected(r)
    BY <2>5 DEF TimeOut, Disconnected
  <2>6. CASE Leave(r)
    BY <2>6 DEF Leave
  <2>7. QED
    BY <1>1, <2>1, <2>2, <2>3, <2>4, <2>5, <2>6 DEF Ask
<1>2. ASSUME NEW r \in Requests, Refuse(r) \/ (\E s \in Sessions : FindSession(r, s))
      PROVE  ReplyInv'
  BY <1>2 DEF Refuse, FindSession
<1>3. ASSUME NEW r \in Requests, DeadlinePasses(r) \/ SendResponse(r) PROVE ReplyInv'
  BY <1>3 DEF DeadlinePasses, SendResponse
<1>4. ASSUME NEW r \in Requests, HandleHTTPRequest(r) PROVE ReplyInv'
  BY <1>4 DEF HandleHTTPRequest, BackendAnswers, BackendFails, ClientPanics
<1>5. ASSUME NEW s \in Sessions, NEW r \in Requests,
             ReceiveRequest(s, r) \/ HandleHTTPResponse(s, r)
      PROVE  ReplyInv'
  BY <1>5 DEF ReceiveRequest, HandleHTTPResponse, FindChannel, FindNoChannel
<1>6. ASSUME NEW s \in Sessions, LinkBreaks(s) \/ SessionEnds(s) PROVE ReplyInv'
  BY <1>6 DEF LinkBreaks, SessionEnds
<1>7. CASE Register \/ CloseControl
  BY <1>7 DEF Register, CloseControl
<1>8. CASE Terminated \/ UNCHANGED vars
  BY <1>8 DEF Terminated, vars
<1>9. QED
  BY <1>1, <1>2, <1>3, <1>4, <1>5, <1>6, <1>7, <1>8 DEF Next

SVars == <<[r \in Requests |-> WhereIs(r)], written>>
ShotStep == [Shot!Next]_SVars

\* The places one by one, before and after a step.
InPlaces(r, names) ==
    /\ ("asker" \in names <=> asker[r] \in {"new", "found", "sending"})
    /\ ("request" \in names <=> Asking(r))
    /\ ("backend" \in names <=> r \in forwarding)
    /\ ("response" \in names <=> Answering(r))
    /\ ("handler" \in names <=> r \in delivering)
    /\ ("channel" \in names <=> r \in ready)
    /\ ("taken" \in names <=> outcome[r] = "response")
    /\ names \subseteq Places

LEMMA PlaceByPlace ==
    ASSUME NEW r PROVE InPlaces(r, WhereIs(r)) /\ InPlaces(r, WhereIs(r))'
<1>1. InPlaces(r, WhereIs(r))
  BY DEF InPlaces, WhereIs, Place, Places
<1>2. InPlaces(r, WhereIs(r))'
  BY DEF InPlaces, WhereIs, Place, Places
<1>3. QED
  BY <1>1, <1>2

LEMMA OnlyIn ==
    ASSUME NEW r, NEW CONSTANT names
    PROVE  /\ InPlaces(r, names) => WhereIs(r) = names
           /\ InPlaces(r, names)' => WhereIs(r)' = names
<1>1. InPlaces(r, WhereIs(r)) /\ InPlaces(r, WhereIs(r))'
  BY PlaceByPlace
<1>2. WhereIs(r) \subseteq Places /\ WhereIs(r)' \subseteq Places
  BY <1>1 DEF InPlaces, Places
<1>3. ASSUME InPlaces(r, names) PROVE WhereIs(r) = names
  <2>1. names \subseteq Places
    BY <1>3 DEF InPlaces, Places
  <2>2. \A name \in Places : name \in WhereIs(r) <=> name \in names
    BY <1>1, <1>3 DEF InPlaces, Places
  <2>3. QED
    BY <1>2, <2>1, <2>2
<1>4. ASSUME InPlaces(r, names)' PROVE WhereIs(r)' = names
  <2>1. names \subseteq Places
    BY <1>4 DEF InPlaces, Places
  <2>2. \A name \in Places : name \in WhereIs(r)' <=> name \in names
    BY <1>1, <1>4 DEF InPlaces, Places
  <2>3. QED
    BY <1>2, <2>1, <2>2
<1>5. QED
  BY <1>3, <1>4

\* A request none of whose places is touched stays where it is.
LEMMA Kept ==
    ASSUME NEW q, (asker[q] \in {"new", "found", "sending"})'
                      <=> asker[q] \in {"new", "found", "sending"},
           outcome'[q] = "response" <=> outcome[q] = "response",
           Asking(q)' <=> Asking(q), Answering(q)' <=> Answering(q),
           q \in forwarding' <=> q \in forwarding, q \in delivering' <=> q \in delivering,
           q \in ready' <=> q \in ready
    PROVE  WhereIs(q)' = WhereIs(q)
<1>1. InPlaces(q, WhereIs(q)) /\ InPlaces(q, WhereIs(q))'
  BY PlaceByPlace
<1>2. WhereIs(q) \subseteq Places /\ WhereIs(q)' \subseteq Places
  BY <1>1 DEF InPlaces, Places
<1>3. \A name \in Places : name \in WhereIs(q)' <=> name \in WhereIs(q)
  BY <1>1 DEF InPlaces, Places
<1>4. QED
  BY <1>2, <1>3

LEMMA Unseen ==
    ASSUME \A q \in Requests : WhereIs(q)' = WhereIs(q), written' = written
    PROVE  ShotStep
BY DEF ShotStep, SVars

\* The three kinds of steps in which something is seen.
LEMMA IsHop ==
    ASSUME NEW r \in Requests, NEW h \in Shot!Hops,
           WhereIs(r) = {h[1]}, WhereIs(r)' = {h[2]},
           \A q \in Requests \ {r} : WhereIs(q)' = WhereIs(q), written' = written
    PROVE  ShotStep
<1>1. Shot!Hop(r)
  BY DEF Shot!Hop
<1>2. QED
  BY <1>1 DEF ShotStep, Shot!Next

LEMMA IsLoss ==
    ASSUME NEW lost \in SUBSET Requests, \A q \in lost : WhereIs(q) \subseteq Shot!CanBeLost,
           \A q \in lost : WhereIs(q)' = {},
           \A q \in Requests \ lost : WhereIs(q)' = WhereIs(q), written' = written
    PROVE  ShotStep
<1>1. Shot!Lose(lost)
  BY DEF Shot!Lose
<1>2. QED
  BY <1>1 DEF ShotStep, Shot!Next

LEMMA LosesOne ==
    ASSUME NEW r \in Requests, WhereIs(r) \subseteq Shot!CanBeLost, WhereIs(r)' = {},
           \A q \in Requests \ {r} : WhereIs(q)' = WhereIs(q), written' = written
    PROVE  ShotStep
<1>1. {r} \in SUBSET Requests
  OBVIOUS
<1>2. \A q \in {r} : WhereIs(q) \subseteq Shot!CanBeLost /\ WhereIs(q)' = {}
  OBVIOUS
<1>3. QED
  BY <1>1, <1>2, IsLoss

\* handleRequest and SendHTTPRequest.
LEMMA AskIsShot ==
    ASSUME TypeInv, TunnelInv, ReplyInv, NEW r \in Requests, Ask(r)
    PROVE  ShotStep
<1> USE DEF Goto, Fail, askerVars, serverVars, linkVars, clientVars, netVars
<1>t. /\ asker = [q \in Requests |-> asker[q]] /\ outcome = [q \in Requests |-> outcome[q]]
      /\ written = [q \in Requests |-> written[q]]
      /\ asker[r] \in {"found", "sending", "waiting"} => via[r] \in Sessions
  BY DEF TypeInv, TypeOK, GoesToSession
<1>i. /\ OneAnswer /\ NowhereBeforeSent /\ AsksOverItsSession
      /\ TakenIsElsewhere /\ OutcomeEndsWait /\ WrittenWhenDone
  BY DEF TunnelInv, ReplyInv
<1>1. CASE RegisterChannel(r)
  BY <1>t, <1>1, Kept, Unseen DEF RegisterChannel, Asking, Answering
<1>2. CASE SendRequest(r)
  <2>1. /\ asker[r] = "sending" /\ asker' = [asker EXCEPT ![r] = "waiting"]
        /\ via[r] \in Sessions
        /\ UNCHANGED <<outcome, written, forwarding, delivering, ready, toServer>>
    BY <1>t, <1>2 DEF SendRequest
  <2>2. /\ \A q \in Requests : Answering(q)' <=> Answering(q)
        /\ \A q \in Requests \ {r} : Asking(q)' <=> Asking(q)
    BY <1>2 DEF SendRequest, Asking, Answering
  <2>3. \A q \in Requests \ {r} : WhereIs(q)' = WhereIs(q)
    BY <1>t, <2>1, <2>2, Kept
  <2>4. WhereIs(r) = {"asker"}
    <3>1. InPlaces(r, {"asker"})
      BY <1>t, <1>i, <2>1 DEF InPlaces, Places, NowhereBeforeSent, OutcomeEndsWait
    <3>2. QED
      BY <3>1, OnlyIn
  <2>5. CASE link[via[r]] = "up"
    <3>1. Asking(r)'
      BY <1>2, <2>1, <2>5 DEF SendRequest, Asking
    <3>2. InPlaces(r, {"request"})'
      BY <1>t, <1>i, <2>1, <2>2, <3>1 DEF InPlaces, Places, NowhereBeforeSent, OutcomeEndsWait
    <3>3. <<"asker", "request">> \in Shot!Hops
      BY DEF Shot!Hops
    <3>4. QED
      BY <2>1, <2>3, <2>4, <3>2, <3>3, OnlyIn, IsHop
  <2>6. CASE link[via[r]] # "up"
    <3>1. ~Asking(r)'
      BY <1>2, <1>i, <2>1, <2>6 DEF SendRequest, Asking, NowhereBeforeSent
    <3>2. InPlaces(r, {})'
      BY <1>t, <1>i, <2>1, <2>2, <3>1 DEF InPlaces, Places, NowhereBeforeSent, OutcomeEndsWait
    <3>3. WhereIs(r)' = {} /\ WhereIs(r) \subseteq Shot!CanBeLost
      BY <2>4, <3>2, OnlyIn DEF Shot!CanBeLost
    <3>4. QED
      BY <2>1, <2>3, <3>3, LosesOne
  <2>7. QED
    BY <2>5, <2>6
<1>3. CASE SendFails(r)
  <2>1. /\ asker[r] = "sending" /\ asker' = [asker EXCEPT ![r] = "leaving"]
        /\ outcome' = [outcome EXCEPT ![r] = "unsent"]
        /\ UNCHANGED <<written, forwarding, delivering, ready, toServer, toClient>>
    BY <1>3 DEF SendFails
  <2>2. \A q \in Requests : (Answering(q)' <=> Answering(q)) /\ (Asking(q)' <=> Asking(q))
    BY <2>1 DEF Asking, Answering
  <2>3. \A q \in Requests \ {r} : WhereIs(q)' = WhereIs(q)
    BY <1>t, <2>1, <2>2, Kept
  <2>4. InPlaces(r, {"asker"}) /\ InPlaces(r, {})'
    BY <1>t, <1>i, <2>1, <2>2 DEF InPlaces, Places, NowhereBeforeSent, OutcomeEndsWait
  <2>5. WhereIs(r)' = {} /\ WhereIs(r) \subseteq Shot!CanBeLost
    BY <2>4, OnlyIn DEF Shot!CanBeLost
  <2>6. QED
    BY <2>1, <2>3, <2>5, LosesOne
<1>4. CASE TakeResponse(r)
  <2>1. /\ asker[r] = "waiting" /\ asker' = [asker EXCEPT ![r] = "leaving"]
        /\ outcome' = [outcome EXCEPT ![r] = "response"]
        /\ r \in ready /\ ready' = ready \ {r}
        /\ UNCHANGED <<written, forwarding, delivering, toServer, toClient>>
    BY <1>4 DEF TakeResponse
  <2>2. \A q \in Requests : (Answering(q)' <=> Answering(q)) /\ (Asking(q)' <=> Asking(q))
    BY <2>1 DEF Asking, Answering
  <2>3. \A q \in Requests \ {r} : WhereIs(q)' = WhereIs(q)
    BY <1>t, <2>1, <2>2, Kept
  <2>4. InPlaces(r, {"channel"}) /\ InPlaces(r, {"taken"})'
    BY <1>t, <1>i, <2>1, <2>2 DEF InPlaces, Places, OneAnswer, OutcomeEndsWait
  <2>5. <<"channel", "taken">> \in Shot!Hops
    BY DEF Shot!Hops
  <2>6. QED
    BY <2>1, <2>3, <2>4, <2>5, OnlyIn, IsHop
<1>5. CASE TimeOut(r) \/ Disconnected(r)
  <2>1. /\ asker[r] = "waiting" /\ asker' = [asker EXCEPT ![r] = "leaving"]
        /\ UNCHANGED <<written, forwarding, delivering, ready, toServer, toClient>>
        /\ \E how \in {"timeout", "disconnected"} : outcome' = [outcome EXCEPT ![r] = how]
    BY <1>5 DEF TimeOut, Disconnected
  <2>2. \A q \in Requests : (Answering(q)' <=> Answering(q)) /\ (Asking(q)' <=> Asking(q))
    BY <2>1 DEF Asking, Answering
  <2>3. \A q \in Requests : outcome'[q] = "response" <=> outcome[q] = "response"
    BY <1>t, <1>i, <2>1 DEF OutcomeEndsWait
  <2>4. \A q \in Requests : WhereIs(q)' = WhereIs(q)
    BY <1>t, <2>1, <2>2, <2>3, Kept
  <2>5. QED
    BY <2>1, <2>4, Unseen
<1>6. CASE Leave(r)
  <2>1. /\ asker[r] = "leaving" /\ asker' = [asker EXCEPT ![r] = "done"]
        /\ UNCHANGED <<outcome, forwarding, delivering, ready, toServer, toClient>>
        /\ Answer(r, IF outcome[r] = "response" THEN "page" ELSE "error")
    BY <1>6 DEF Leave
  <2>2. \A q \in Requests : WhereIs(q)' = WhereIs(q)
    BY <1>t, <2>1, Kept DEF Asking, Answering
  <2>3. written[r] = "nothing"
    BY <1>t, <1>i, <2>1 DEF WrittenWhenDone
  <2>4. WhereIs(r) = {"taken"} <=> outcome[r] = "response"
    <3>1. outcome[r] = "response" => InPlaces(r, {"taken"})
      BY <1>t, <1>i, <2>1 DEF InPlaces, Places, TakenIsElsewhere
    <3>2. QED
      BY <3>1, OnlyIn, PlaceByPlace DEF InPlaces
  <2>5. \E what \in {"nothing", IF WhereIs(r) = {"taken"} THEN "page" ELSE "error"} :
          written' = [written EXCEPT ![r] = what]
    BY <2>1, <2>3, <2>4 DEF Answer
  <2>6. Shot!Reply(r)
    BY <2>2, <2>3, <2>5 DEF Shot!Reply
  <2>7. QED
    BY <2>6 DEF ShotStep, Shot!Next
<1>7. QED
  BY <1>1, <1>2, <1>3, <1>4, <1>5, <1>6 DEF Ask

\* The rest of handleRequest, the deadline, and the goroutine of handleHTTPResponse.
LEMMA RequestIsShot ==
    ASSUME TypeInv, TunnelInv, ReplyInv, NEW r \in Requests,
           \/ Refuse(r) \/ \E s \in Sessions : FindSession(r, s)
           \/ DeadlinePasses(r) \/ SendResponse(r)
    PROVE  ShotStep
<1> USE DEF Goto, askerVars, serverVars, linkVars, clientVars, netVars
<1>t. /\ asker = [q \in Requests |-> asker[q]] /\ written = [q \in Requests |-> written[q]]
  BY DEF TypeInv, TypeOK
<1>i. /\ OneAnswer /\ NowhereBeforeSent /\ TakenIsElsewhere /\ OutcomeEndsWait
      /\ WrittenWhenDone
  BY DEF TunnelInv, ReplyInv
<1>1. CASE Refuse(r)
  <2>1. /\ asker[r] = "new" /\ asker' = [asker EXCEPT ![r] = "done"]
        /\ UNCHANGED <<outcome, forwarding, delivering, ready, toServer, toClient>>
        /\ Answer(r, "error")
    BY <1>1 DEF Refuse
  <2>2. \A q \in Requests : (Answering(q)' <=> Answering(q)) /\ (Asking(q)' <=> Asking(q))
    BY <2>1 DEF Asking, Answering
  <2>3. \A q \in Requests \ {r} : WhereIs(q)' = WhereIs(q)
    BY <1>t, <2>1, <2>2, Kept
  <2>4. InPlaces(r, {"asker"}) /\ InPlaces(r, {})'
    BY <1>t, <1>i, <2>1, <2>2 DEF InPlaces, Places, NowhereBeforeSent, OutcomeEndsWait
  <2>5. WhereIs(r) = {"asker"} /\ WhereIs(r)' = {}
    BY <2>4, OnlyIn
  <2>6. written[r] = "nothing" /\ \E what \in {"nothing", "error"} :
                                    written' = [written EXCEPT ![r] = what]
    BY <1>t, <1>i, <2>1 DEF Answer, WrittenWhenDone
  <2>7. Shot!Refuse(r)
    BY <2>3, <2>5, <2>6 DEF Shot!Refuse
  <2>8. QED
    BY <2>7 DEF ShotStep, Shot!Next
<1>2. ASSUME NEW s \in Sessions, FindSession(r, s) PROVE ShotStep
  <2>1. /\ asker[r] = "new" /\ asker' = [asker EXCEPT ![r] = "found"]
        /\ UNCHANGED <<outcome, written, forwarding, delivering, ready, toServer, toClient>>
    BY <1>2 DEF FindSession
  <2>2. \A q \in Requests : WhereIs(q)' = WhereIs(q)
    BY <1>t, <2>1, Kept DEF Asking, Answering
  <2>3. QED
    BY <2>1, <2>2, Unseen
<1>3. CASE DeadlinePasses(r)
  BY <1>3, Kept, Unseen DEF DeadlinePasses, Asking, Answering
<1>4. CASE SendResponse(r)
  <2>1. /\ r \in delivering /\ delivering' = delivering \ {r} /\ ready' = ready \cup {r}
        /\ UNCHANGED <<asker, outcome, written, forwarding, toServer, toClient>>
    BY <1>4 DEF SendResponse
  <2>2. \A q \in Requests : (Answering(q)' <=> Answering(q)) /\ (Asking(q)' <=> Asking(q))
    BY <2>1 DEF Asking, Answering
  <2>3. \A q \in Requests \ {r} : WhereIs(q)' = WhereIs(q)
    BY <2>1, <2>2, Kept
  <2>4. InPlaces(r, {"handler"}) /\ InPlaces(r, {"channel"})'
    BY <1>i, <2>1, <2>2
    DEF InPlaces, Places, OneAnswer, NowhereBeforeSent, TakenIsElsewhere
  <2>5. <<"handler", "channel">> \in Shot!Hops
    BY DEF Shot!Hops
  <2>6. QED
    BY <2>1, <2>3, <2>4, <2>5, OnlyIn, IsHop
<1>5. QED
  BY <1>1, <1>2, <1>3, <1>4

\* handleHTTPRequest of the client.
LEMMA BackendIsShot ==
    ASSUME TypeInv, TunnelInv, ReplyInv, NEW r \in Requests, HandleHTTPRequest(r)
    PROVE  ShotStep
<1> USE DEF askerVars, serverVars, linkVars, clientVars, netVars
<1>i. /\ OneAnswer /\ NowhereBeforeSent /\ TakenIsElsewhere
      /\ forwarding \subseteq Requests /\ enc \in Sessions \cup {NoSession}
  BY DEF TypeInv, TypeOK, TunnelInv, ReplyInv
<1>b. \A q \in forwarding : InPlaces(q, {"backend"})
  BY <1>i DEF InPlaces, Places, OneAnswer, NowhereBeforeSent, TakenIsElsewhere
<1>c. \A q \in forwarding : WhereIs(q) = {"backend"}
  BY <1>b, OnlyIn
<1>1. CASE BackendAnswers(r)
  <2>1. /\ r \in forwarding /\ enc \in Sessions /\ forwarding' = forwarding \ {r}
        /\ UNCHANGED <<asker, outcome, written, delivering, ready, toClient>>
    BY <1>i, <1>1 DEF BackendAnswers
  <2>2. /\ \A q \in Requests : Asking(q)' <=> Asking(q)
        /\ \A q \in Requests \ {r} : Answering(q)' <=> Answering(q)
    BY <1>1 DEF BackendAnswers, Asking, Answering
  <2>3. \A q \in Requests \ {r} : WhereIs(q)' = WhereIs(q)
    BY <2>1, <2>2, Kept
  <2>4. CASE link[enc] = "up"
    <3>1. Answering(r)'
      BY <1>1, <2>1, <2>4 DEF BackendAnswers, Answering
    <3>2. InPlaces(r, {"response"})'
      BY <1>b, <2>1, <2>2, <3>1 DEF InPlaces, Places
    <3>3. <<"backend", "response">> \in Shot!Hops
      BY DEF Shot!Hops
    <3>4. QED
      BY <1>c, <2>1, <2>3, <3>2, <3>3, OnlyIn, IsHop
  <2>5. CASE link[enc] # "up"
    <3>1. ~Answering(r)'
      BY <1>1, <1>i, <2>1, <2>5 DEF BackendAnswers, Answering, OneAnswer
    <3>2. InPlaces(r, {})'
      BY <1>b, <2>1, <2>2, <3>1 DEF InPlaces, Places
    <3>3. WhereIs(r)' = {} /\ WhereIs(r) \subseteq Shot!CanBeLost
      BY <1>c, <2>1, <3>2, OnlyIn DEF Shot!CanBeLost
    <3>4. QED
      BY <2>1, <2>3, <3>3, LosesOne
  <2>6. QED
    BY <2>4, <2>5
<1>2. ASSUME NEW lost \in SUBSET forwarding, forwarding' = forwarding \ lost,
             UNCHANGED <<asker, outcome, written, delivering, ready, toClient, toServer>>
      PROVE  ShotStep
  <2>1. \A q \in Requests : (Answering(q)' <=> Answering(q)) /\ (Asking(q)' <=> Asking(q))
    BY <1>2 DEF Asking, Answering
  <2>2. \A q \in Requests \ lost : WhereIs(q)' = WhereIs(q)
    BY <1>2, <2>1, Kept
  <2>3. ASSUME NEW q \in lost PROVE WhereIs(q)' = {}
    <3>1. InPlaces(q, {})'
      BY <1>b, <1>2, <1>i, <2>1 DEF InPlaces, Places
    <3>2. QED
      BY <3>1, OnlyIn
  <2>4. lost \in SUBSET Requests /\ \A q \in lost : WhereIs(q) \subseteq Shot!CanBeLost
    BY <1>c, <1>i DEF Shot!CanBeLost
  <2>5. QED
    BY <1>2, <2>2, <2>3, <2>4, IsLoss
<1>3. CASE BackendFails(r)
  <2>1. {r} \in SUBSET forwarding /\ forwarding' = forwarding \ {r}
    BY <1>3 DEF BackendFails
  <2>2. QED
    BY <1>2, <1>3, <2>1 DEF BackendFails
<1>4. CASE ClientPanics(r)
  <2>1. forwarding \in SUBSET forwarding /\ forwarding' = forwarding \ forwarding
    BY <1>4 DEF ClientPanics
  <2>2. QED
    BY <1>2, <1>4, <2>1 DEF ClientPanics
<1>5. QED
  BY <1>1, <1>3, <1>4 DEF HandleHTTPRequest

\* The receivers at both ends of the control connection.
LEMMA ReceiveIsShot ==
    ASSUME TypeInv, TunnelInv, ReplyInv, NEW s \in Sessions, NEW r \in Requests,
           ReceiveRequest(s, r) \/ HandleHTTPResponse(s, r)
    PROVE  ShotStep
<1> USE DEF askerVars, serverVars, linkVars, clientVars, netVars
<1>i. /\ OneAnswer /\ NowhereBeforeSent /\ TakenIsElsewhere /\ AsksOverItsSession
      /\ toClient \subseteq Sessions \X Requests /\ toServer \subseteq Sessions \X Requests
  BY DEF TypeInv, TypeOK, TunnelInv, ReplyInv
<1>1. CASE ReceiveRequest(s, r)
  <2>1. /\ <<s, r>> \in toClient /\ toClient' = toClient \ {<<s, r>>}
        /\ forwarding' = forwarding \cup {r}
        /\ UNCHANGED <<asker, outcome, written, delivering, ready, toServer>>
    BY <1>1 DEF ReceiveRequest
  <2>2. /\ \A q \in Requests : Answering(q)' <=> Answering(q)
        /\ \A q \in Requests \ {r} : Asking(q)' <=> Asking(q)
        /\ Asking(r) /\ ~Asking(r)'
    BY <1>i, <2>1 DEF Asking, Answering, AsksOverItsSession
  <2>3. \A q \in Requests \ {r} : WhereIs(q)' = WhereIs(q)
    BY <2>1, <2>2, Kept
  <2>4. InPlaces(r, {"request"}) /\ InPlaces(r, {"backend"})'
    BY <1>i, <2>1, <2>2
    DEF InPlaces, Places, OneAnswer, NowhereBeforeSent, TakenIsElsewhere
  <2>5. <<"request", "backend">> \in Shot!Hops
    BY DEF Shot!Hops
  <2>6. QED
    BY <2>1, <2>3, <2>4, <2>5, OnlyIn, IsHop
<1>2. ASSUME <<s, r>> \in toServer, toServer' = toServer \ {<<s, r>>}
      PROVE  /\ InPlaces(r, {"response"})
             /\ Answering(r) /\ ~Answering(r)'
             /\ \A q \in Requests \ {r} : Answering(q)' <=> Answering(q)
  <2>1. /\ \A q \in Requests \ {r} : Answering(q)' <=> Answering(q)
        /\ Answering(r) /\ ~Answering(r)'
    BY <1>i, <1>2 DEF Answering, OneAnswer
  <2>2. InPlaces(r, {"response"})
    BY <1>i, <2>1 DEF InPlaces, Places, OneAnswer, NowhereBeforeSent, TakenIsElsewhere
  <2>3. QED
    BY <2>1, <2>2
<1>3. CASE FindChannel(s, r)
  <2>1. /\ <<s, r>> \in toServer /\ toServer' = toServer \ {<<s, r>>}
        /\ delivering' = delivering \cup {r}
        /\ UNCHANGED <<asker, outcome, written, forwarding, ready, toClient>>
    BY <1>3 DEF FindChannel
  <2>2. \A q \in Requests : Asking(q)' <=> Asking(q)
    BY <2>1 DEF Asking
  <2>3. \A q \in Requests \ {r} : WhereIs(q)' = WhereIs(q)
    BY <1>2, <2>1, <2>2, Kept
  <2>4. InPlaces(r, {"response"}) /\ InPlaces(r, {"handler"})'
    BY <1>2, <2>1, <2>2 DEF InPlaces, Places
  <2>5. <<"response", "handler">> \in Shot!Hops
    BY DEF Shot!Hops
  <2>6. QED
    BY <2>1, <2>3, <2>4, <2>5, OnlyIn, IsHop
<1>4. CASE FindNoChannel(s, r)
  <2>1. /\ <<s, r>> \in toServer /\ toServer' = toServer \ {<<s, r>>}
        /\ UNCHANGED <<asker, outcome, written, forwarding, delivering, ready, toClient>>
    BY <1>4 DEF FindNoChannel
  <2>2. \A q \in Requests : Asking(q)' <=> Asking(q)
    BY <2>1 DEF Asking
  <2>3. \A q \in Requests \ {r} : WhereIs(q)' = WhereIs(q)
    BY <1>2, <2>1, <2>2, Kept
  <2>4. InPlaces(r, {"response"}) /\ InPlaces(r, {})'
    BY <1>2, <2>1, <2>2 DEF InPlaces, Places
  <2>5. WhereIs(r)' = {} /\ WhereIs(r) \subseteq Shot!CanBeLost
    BY <2>4, OnlyIn DEF Shot!CanBeLost
  <2>6. QED
    BY <2>1, <2>3, <2>5, LosesOne
<1>5. QED
  BY <1>1, <1>3, <1>4 DEF HandleHTTPResponse

\* A control connection that breaks or is closed loses what is on it.
LEMMA LinkLossIsShot ==
    ASSUME TypeInv, TunnelInv, ReplyInv, NEW s \in Sessions, LinkBreaks(s) \/ SessionEnds(s)
    PROVE  ShotStep
<1> DEFINE lost == {q \in Requests : <<s, q>> \in toClient \cup toServer}
<1> USE DEF askerVars, serverVars, linkVars, clientVars, netVars
<1>i. /\ OneAnswer /\ NowhereBeforeSent /\ TakenIsElsewhere /\ AsksOverItsSession
      /\ toClient \subseteq Sessions \X Requests /\ toServer \subseteq Sessions \X Requests
  BY DEF TypeInv, TypeOK, TunnelInv, ReplyInv
<1>1. /\ toClient' = {m \in toClient : m[1] # s} /\ toServer' = {m \in toServer : m[1] # s}
      /\ UNCHANGED <<asker, outcome, written, forwarding, delivering, ready>>
  BY DEF LinkBreaks, SessionEnds
<1>2. \A q \in Requests \ lost : (Asking(q)' <=> Asking(q)) /\ (Answering(q)' <=> Answering(q))
  BY <1>1, <1>i DEF Asking, Answering
<1>3. \A q \in Requests \ lost : WhereIs(q)' = WhereIs(q)
  BY <1>1, <1>2, Kept
<1>4. ASSUME NEW q \in lost
      PROVE  WhereIs(q)' = {} /\ WhereIs(q) \subseteq Shot!CanBeLost
  <2>1. CASE <<s, q>> \in toClient
    <3>1. Asking(q) /\ ~Answering(q) /\ ~Asking(q)' /\ ~Answering(q)'
      BY <1>1, <1>i, <2>1 DEF Asking, Answering, OneAnswer, AsksOverItsSession
    <3>2. InPlaces(q, {"request"}) /\ InPlaces(q, {})'
      BY <1>1, <1>i, <3>1
      DEF InPlaces, Places, OneAnswer, NowhereBeforeSent, TakenIsElsewhere
    <3>3. QED
      BY <3>2, OnlyIn DEF Shot!CanBeLost
  <2>2. CASE <<s, q>> \in toServer
    <3>1. Answering(q) /\ ~Asking(q) /\ ~Asking(q)' /\ ~Answering(q)'
      BY <1>1, <1>i, <2>2 DEF Asking, Answering, OneAnswer
    <3>2. InPlaces(q, {"response"}) /\ InPlaces(q, {})'
      BY <1>1, <1>i, <3>1
      DEF InPlaces, Places, OneAnswer, NowhereBeforeSent, TakenIsElsewhere
    <3>3. QED
      BY <3>2, OnlyIn DEF Shot!CanBeLost
  <2>3. QED
    BY <2>1, <2>2
<1>5. lost \in SUBSET Requests
  OBVIOUS
<1> HIDE DEF lost
<1>6. QED
  BY <1>1, <1>3, <1>4, <1>5, IsLoss

\* HTTP tunnelling keeps the promise of OneShot: over whichever sessions of the
\* client, every request makes each hop at most once, is lost only while nobody of the
\* server has its answer, and its peer is told once how it went.
THEOREM TunnelImplementsOneShot == Spec => ImplementsOneShot
<1>1. Init => Shot!Init
  <2> SUFFICES ASSUME Init PROVE Shot!Init
    OBVIOUS
  <2>1. ASSUME NEW q \in Requests PROVE WhereIs(q) = {"asker"}
    <3>1. InPlaces(q, {"asker"})
      BY DEF Init, InPlaces, Places, Asking, Answering
    <3>2. QED
      BY <3>1, OnlyIn
  <2>2. [q \in Requests |-> WhereIs(q)] = [q \in Requests |-> {"asker"}]
    BY <2>1
  <2>3. QED
    BY <2>2 DEF Init, Shot!Init
<1>2. TypeInv /\ TunnelInv /\ ReplyInv /\ [Next]_vars => ShotStep
  <2> SUFFICES ASSUME TypeInv, TunnelInv, ReplyInv, [Next]_vars PROVE ShotStep
    OBVIOUS
  <2>1. ASSUME UNCHANGED <<asker, outcome, written, forwarding, delivering, ready,
                           toServer, toClient>>
        PROVE  ShotStep
    <3>1. \A q \in Requests : WhereIs(q)' = WhereIs(q)
      BY <2>1, Kept DEF Asking, Answering
    <3>2. QED
      BY <2>1, <3>1, Unseen
  <2>2. CASE Register \/ CloseControl \/ Terminated \/ UNCHANGED vars
    BY <2>1, <2>2 DEF Register, CloseControl, Terminated, vars, askerVars, serverVars,
                      clientVars, netVars
  <2>3. QED
    BY <2>2, AskIsShot, RequestIsShot, BackendIsShot, ReceiveIsShot, LinkLossIsShot DEF Next
<1>3. TypeInv /\ TunnelInv /\ ReplyInv /\ [Next]_vars => ReplyInv'
  BY ReplyStep
<1>4. QED
  BY <1>1, <1>2, <1>3, ReplyInitInv, TypeInvariant, TunnelIsSound, PTL
  DEF Spec, ImplementsOneShot, Shot!Spec, ShotStep, SVars, Shot!vars
=============================================================================
