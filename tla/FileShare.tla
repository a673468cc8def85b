------------------------------ MODULE FileShare -----------------------------
(***************************************************************************)
(* The client in file sharing mode: runFileShareMode with its loop around   *)
(* connectControl, and the file server it starts, with the sessions of its  *)
(* web interface, the middleware and the WebDAV handler. The other side is  *)
(* a browser, whose tabs share one cookie jar, and WebDAV programs that     *)
(* send a name and a password instead. Requests and answers overtake each   *)
(* other and get lost with the tunnel; the client is stopped and started    *)
(* again and forgets its sessions, which the browser does not.              *)
(*                                                                          *)
(* GET stands for every method that only reads, PUT and DELETE for those    *)
(* that write: the middleware lists them together. LOCK is in no list.      *)
(***************************************************************************)
EXTENDS Naturals

CONSTANTS
    Slots,       \* requests that can be in flight
    Tokens,      \* what CreateSession may draw; each is drawn once
    Files,
    Life,        \* how long a session is valid (24 hours)
    SweepPeriod, \* how often cleanupLoop runs (1 hour)
    FirstBackoff, MaxBackoff  \* the pause before a redial (3 s, 5 min)

VARIABLES
    perms,      \* the permissions of the share
    content,    \* of each file: what is on the disk
    local,      \* the file server: "off", "starting", "listening"
    tunnel,     \* where runFileShareMode is
    backoff,    \* its pause
    sessions,   \* the tokens in the map of the SessionManager
    age,        \* the time since a session was made, 0 for the others
    sinceSweep, \* the time since the last cleanup
    given,      \* the tokens drawn so far
    revoked,    \* history: tokens logged out, or of a client that was stopped
    jar,        \* the session cookie of the browser
    call        \* of each slot: the request and how far it is

fileVars == <<perms, content>>
loopVars == <<local, tunnel, backoff>>
sessionVars == <<sessions, age, sinceSweep, given, revoked>>
vars == <<fileVars, loopVars, sessionVars, jar, call>>

NoToken == "no token"
Cookies == Tokens \cup {NoToken}
Methods == {"GET", "OPTIONS", "PUT", "DELETE", "LOCK"}
Pages == {"/login", "/browse"}
ASSUME FileShareAssumption ==
    /\ Life \in Nat /\ SweepPeriod \in Nat \ {0}
    /\ FirstBackoff \in Nat /\ MaxBackoff \in Nat /\ FirstBackoff <= MaxBackoff
    /\ Tokens \cap (Pages \cup {NoToken, "keep"}) = {}

Ops == Methods \cup Pages \cup {"/api/login", "/api/logout"}
Calls == [op : Ops, cookie : Cookies, creds : BOOLEAN,
          at : {"idle", "sent", "admitted", "answered"},
          do : Cookies \cup Pages \cup {"keep"}]
Request(op, cookie, creds) ==
    [op |-> op, cookie |-> cookie, creds |-> creds, at |-> "sent", do |-> "keep"]
Idle == [Request("GET", NoToken, FALSE) EXCEPT !.at = "idle"]

Init ==
    /\ perms \in {"r", "rw", "rwx"}
    /\ content \in [Files -> {"none", "old"}]
    /\ local = "off" /\ tunnel = "off" /\ backoff = FirstBackoff
    /\ sessions = {} /\ age = [k \in Tokens |-> 0] /\ sinceSweep = 0
    /\ given = {} /\ revoked = {} /\ jar = NoToken
    /\ call = [s \in Slots |-> Idle]

-----------------------------------------------------------------------------
(* runFileShareMode.                                                       *)

NewSessionManager ==
    /\ sessions' = {} /\ sinceSweep' = 0
    /\ age' = [k \in Tokens |-> 0]
    /\ revoked' = revoked \cup sessions
    /\ UNCHANGED given

RunFileShareMode ==
    /\ local = "off"
    /\ local' = "starting" /\ tunnel' = "dial"
    /\ NewSessionManager
    /\ UNCHANGED <<fileVars, backoff, jar, call>>

ListenAndServe ==
    /\ local = "starting"
    /\ local' = "listening"
    /\ UNCHANGED <<fileVars, tunnel, backoff, sessionVars, jar, call>>

\* Ctrl-C, or log.Fatalf when the port that findFreePort found is taken by now.
Exit ==
    /\ local # "off"
    /\ local' = "off" /\ tunnel' = "off" /\ backoff' = FirstBackoff
    /\ NewSessionManager
    /\ call' = [s \in Slots |-> Idle]
    /\ UNCHANGED <<fileVars, jar>>

DialFails ==
    /\ tunnel = "dial"
    /\ tunnel' = "failed"
    /\ UNCHANGED <<fileVars, local, backoff, sessionVars, jar, call>>

WakeAfterFailure ==
    /\ tunnel = "failed"
    /\ tunnel' = "dial"
    /\ backoff' = IF 2 * backoff > MaxBackoff THEN MaxBackoff ELSE 2 * backoff
    /\ UNCHANGED <<fileVars, local, sessionVars, jar, call>>

DialSucceeds ==
    /\ tunnel = "dial"
    /\ tunnel' = "up" /\ backoff' = FirstBackoff
    /\ UNCHANGED <<fileVars, local, sessionVars, jar, call>>

TunnelBreaks ==
    /\ tunnel = "up"
    /\ tunnel' = "lost"
    /\ UNCHANGED <<fileVars, local, backoff, sessionVars, jar, call>>

WakeAfterLoss ==
    /\ tunnel = "lost"
    /\ tunnel' = "dial"
    /\ UNCHANGED <<fileVars, local, backoff, sessionVars, jar, call>>

-----------------------------------------------------------------------------
(* The SessionManager.                                                     *)

Tick ==
    /\ sinceSweep < SweepPeriod
    /\ sinceSweep' = sinceSweep + 1
    /\ age' = [k \in Tokens |-> IF k \in sessions THEN age[k] + 1 ELSE 0]
    /\ UNCHANGED <<fileVars, loopVars, sessions, given, revoked, jar, call>>

\* Mutant: a session is given one more period.
CleanupLate ==
    /\ sinceSweep = SweepPeriod
    /\ sinceSweep' = 0
    /\ sessions' = {k \in sessions : age[k] <= Life + SweepPeriod}
    /\ age' = [k \in Tokens |-> IF k \in sessions' THEN age[k] ELSE 0]
    /\ UNCHANGED <<fileVars, loopVars, given, revoked, jar, call>>

Cleanup ==
    /\ sinceSweep = SweepPeriod
    /\ sinceSweep' = 0
    /\ sessions' = {k \in sessions : age[k] <= Life}
    /\ age' = [k \in Tokens |-> IF k \in sessions' THEN age[k] ELSE 0]
    /\ UNCHANGED <<fileVars, loopVars, given, revoked, jar, call>>

CreateSession(k) ==
    /\ k \in Tokens \ given
    /\ sessions' = sessions \cup {k} /\ given' = given \cup {k}
    /\ UNCHANGED <<age, sinceSweep, revoked>>

ValidateSession(k) == k \in sessions /\ age[k] <= Life

DeleteSession(k) ==
    /\ sessions' = sessions \ {k}
    /\ age' = [age EXCEPT ![k] = 0]
    /\ revoked' = revoked \cup ({k} \cap Tokens)
    /\ UNCHANGED <<sinceSweep, given>>

-----------------------------------------------------------------------------
(* Requests.                                                               *)

\* While the tunnel is down the server refuses for it.
Send(s, op, cookie, creds) ==
    /\ call[s] = Idle /\ tunnel = "up"
    /\ call' = [call EXCEPT ![s] = Request(op, cookie, creds)]
    /\ UNCHANGED <<fileVars, loopVars, sessionVars, jar>>

BrowserSends(s) ==
    \E op \in Ops, creds \in BOOLEAN : (creds => op = "/api/login") /\ Send(s, op, jar, creds)

\* A WebDAV client has the password, or a token that it sends as a Bearer: that is
\* looked up like a cookie, and only by the authentication.
ProgramSends(s) ==
    \E op \in Methods :
        \/ Send(s, op, NoToken, TRUE)
        \/ \E k \in given : Send(s, op, k, FALSE)

Reaches(s, ops) ==
    /\ call[s].at = "sent" /\ call[s].op \in ops
    /\ tunnel = "up" /\ local = "listening"

Answer(s, do) == call' = [call EXCEPT ![s] = [Idle EXCEPT !.at = "answered", !.do = do]]

HandleLogin(s) ==
    /\ Reaches(s, {"/api/login"}) /\ call[s].creds
    /\ \E k \in Tokens : CreateSession(k) /\ Answer(s, k)
    /\ UNCHANGED <<fileVars, loopVars, jar>>

LoginFails(s) ==
    /\ Reaches(s, {"/api/login"}) /\ ~call[s].creds
    /\ Answer(s, "keep")
    /\ UNCHANGED <<fileVars, loopVars, sessionVars, jar>>

\* Mutant: the logout clears the cookie and leaves the session.
LogoutClearsCookie(s) ==
    /\ Reaches(s, {"/api/logout"})
    /\ revoked' = revoked \cup ({call[s].cookie} \cap Tokens)
    /\ Answer(s, NoToken)
    /\ UNCHANGED <<fileVars, loopVars, sessions, age, sinceSweep, given, jar>>

HandleLogout(s) ==
    /\ Reaches(s, {"/api/logout"})
    /\ DeleteSession(call[s].cookie)
    /\ Answer(s, NoToken)
    /\ UNCHANGED <<fileVars, loopVars, jar>>

\* Each page sends to the other whoever should be there.
ServePage(s) ==
    /\ Reaches(s, Pages)
    /\ LET wanted == IF ValidateSession(call[s].cookie) THEN "/browse" ELSE "/login" IN
        Answer(s, IF call[s].op = wanted THEN "keep" ELSE wanted)
    /\ UNCHANGED <<fileVars, loopVars, sessionVars, jar>>

Admits(c) == ValidateSession(c.cookie) \/ c.creds \/ c.op = "OPTIONS"

PasswordAuthMiddleware(s) ==
    /\ Reaches(s, Methods)
    /\ IF Admits(call[s]) THEN call' = [call EXCEPT ![s].at = "admitted"] ELSE Answer(s, "keep")
    /\ UNCHANGED <<fileVars, loopVars, sessionVars, jar>>

\* The methods that PermissionMiddleware lists with reading and with writing.
HasRead == perms \in {"r", "rw", "rwx"}
HasWrite == perms \in {"rw", "rwx"}
\* Mutant: DELETE is not in the list.
PermitsDelete(op) ==
    /\ op \in {"GET", "OPTIONS"} => HasRead
    /\ op = "PUT" => HasWrite

Permits(op) ==
    /\ op \in {"GET", "OPTIONS"} => HasRead
    /\ op \in {"PUT", "DELETE"} => HasWrite

PermissionDenied(s) ==
    /\ call[s].at = "admitted" /\ ~Permits(call[s].op)
    /\ Answer(s, "keep")
    /\ UNCHANGED <<fileVars, loopVars, sessionVars, jar>>

\* What the WebDAV library makes of a file, unless the file system refuses: a
\* LOCK on a name that is not there makes an empty file.
Effect(op, was) ==
    CASE op = "PUT" -> "new"
      [] op = "DELETE" -> "none"
      [] op = "LOCK" /\ was = "none" -> "empty"
      [] OTHER -> was

ServeFiles(s) ==
    /\ call[s].at = "admitted" /\ Permits(call[s].op)
    /\ \E f \in Files : content' \in {content, [content EXCEPT ![f] = Effect(call[s].op, @)]}
    /\ Answer(s, "keep")
    /\ UNCHANGED <<perms, loopVars, sessionVars, jar>>

-----------------------------------------------------------------------------
(* Answers.                                                                *)

AnswerArrives(s) ==
    /\ call[s].at = "answered" /\ tunnel = "up"
    /\ call[s].do \notin Pages
    /\ jar' = IF call[s].do \in Cookies THEN call[s].do ELSE jar
    /\ call' = [call EXCEPT ![s] = Idle]
    /\ UNCHANGED <<fileVars, loopVars, sessionVars>>

RedirectArrives(s) ==
    /\ call[s].at = "answered" /\ tunnel = "up"
    /\ call[s].do \in Pages
    /\ call' = [call EXCEPT ![s] = Request(call[s].do, jar, FALSE)]
    /\ UNCHANGED <<fileVars, loopVars, sessionVars, jar>>

IsLost(s) ==
    /\ call[s].at \in {"sent", "answered"}
    /\ call' = [call EXCEPT ![s] = Idle]
    /\ UNCHANGED <<fileVars, loopVars, sessionVars, jar>>

-----------------------------------------------------------------------------

Next ==
    \/ RunFileShareMode \/ ListenAndServe \/ Exit
    \/ DialFails \/ WakeAfterFailure \/ DialSucceeds \/ TunnelBreaks \/ WakeAfterLoss
    \/ Tick \/ Cleanup
    \/ \E s \in Slots :
        \/ BrowserSends(s) \/ ProgramSends(s)
        \/ HandleLogin(s) \/ LoginFails(s) \/ HandleLogout(s) \/ ServePage(s)
        \/ PasswordAuthMiddleware(s) \/ PermissionDenied(s) \/ ServeFiles(s)
        \/ AnswerArrives(s) \/ RedirectArrives(s) \/ IsLost(s)

Spec == Init /\ [][Next]_vars

-----------------------------------------------------------------------------

\* Every variable has its type.
TypeOK ==
    /\ perms \in {"r", "rw", "rwx"}
    /\ content \in [Files -> {"none", "empty", "old", "new"}]
    /\ local \in {"off", "starting", "listening"}
    /\ tunnel \in {"off", "dial", "failed", "up", "lost"}
    /\ backoff \in FirstBackoff..MaxBackoff
    /\ sessions \subseteq given /\ given \subseteq Tokens
    /\ age \in [Tokens -> Nat] /\ sinceSweep \in 0..SweepPeriod
    /\ revoked \subseteq given
    /\ jar \in Cookies
    /\ call \in [Slots -> Calls]

\* A session is in the map no longer than its life and one period of the cleanup,
\* whether its cookie has reached the browser or was lost on the way.
SessionsEndInTime == \A k \in sessions : age[k] <= Life + SweepPeriod

\* A token that was logged out, or that a client gave out which was stopped since,
\* opens nothing any more, also to a request that was sent before the logout.
RevokedTokenOpensNothing ==
    [][\A s \in Slots :
          /\ call[s].at = "sent" /\ call'[s].at = "admitted"
          /\ ~call[s].creds /\ call[s].op # "OPTIONS"
          => call[s].cookie \notin revoked]_vars

\* A share with the permission "r" keeps its files as they are.
ReadOnlyKeepsFiles ==
    [][perms = "r" =>
          \A f \in Files : content[f] # "none" => content'[f] = content[f]]_vars

=============================================================================
