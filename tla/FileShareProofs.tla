--------------------------- MODULE FileShareProofs --------------------------
(* Theorems about FileShare for any requests, tokens, files and times.       *)
EXTENDS FileShare, TLAPS

\* How old a session can be follows from the time since the last cleanup.
AgesAreBounded ==
    /\ \A k \in sessions : age[k] <= Life + sinceSweep
    /\ \A k \in Tokens \ sessions : age[k] = 0

RevokedAreGone == sessions \cap revoked = {}

\* Nobody knows a token before CreateSession draws it.
UndrawnAreUnknown ==
    \A k \in Tokens \ given :
        jar # k /\ \A s \in Slots : call[s].cookie # k /\ call[s].do # k

Inv == TypeOK /\ AgesAreBounded /\ RevokedAreGone /\ UndrawnAreUnknown

LEMMA CallsAreTyped ==
    /\ Idle \in Calls
    /\ \A do \in Cookies \cup Pages \cup {"keep"} : [Idle EXCEPT !.at = "answered", !.do = do] \in Calls
    /\ \A op \in Ops, cookie \in Cookies, creds \in BOOLEAN : Request(op, cookie, creds) \in Calls
BY DEF Idle, Request, Calls, Ops, Methods, Cookies

\* What a request carries when it is sent and when it is answered.
LEMMA CallFields ==
    /\ Idle.cookie = NoToken /\ Idle.do = "keep"
    /\ \A do : [Idle EXCEPT !.at = "answered", !.do = do].cookie = NoToken
    /\ \A do : [Idle EXCEPT !.at = "answered", !.do = do].do = do
    /\ \A op, cookie, creds : /\ Request(op, cookie, creds).cookie = cookie
                             /\ Request(op, cookie, creds).do = "keep"
BY DEF Idle, Request

LEMMA InitInv == Init => Inv
<1> SUFFICES ASSUME Init PROVE Inv
  OBVIOUS
<1>1. content \in [Files -> {"none", "empty", "old", "new"}]
  BY DEF Init
<1>2. call \in [Slots -> Calls]
  BY CallsAreTyped DEF Init
<1>3. backoff \in FirstBackoff..MaxBackoff /\ sinceSweep \in 0..SweepPeriod
  BY FileShareAssumption DEF Init
<1>4. TypeOK
  BY <1>1, <1>2, <1>3 DEF Init, TypeOK, Cookies
<1>5. UndrawnAreUnknown
  BY CallFields, FileShareAssumption DEF Init, UndrawnAreUnknown
<1>6. QED
  BY <1>4, <1>5 DEF Init, Inv, AgesAreBounded, RevokedAreGone

\* What only moves calls on, each to one that is typed, keeps the invariant.
LEMMA CallInv ==
    ASSUME Inv, NEW s \in Slots, NEW c \in Calls, call' = [call EXCEPT ![s] = c],
           UNCHANGED <<perms, loopVars, sessionVars>>,
           content' \in [Files -> {"none", "empty", "old", "new"}], jar' \in Cookies,
           \A k \in Tokens \ given : jar' # k /\ c.cookie # k /\ c.do # k
    PROVE  Inv'
<1> USE DEF Inv, loopVars, sessionVars
<1>1. TypeOK'
  BY DEF TypeOK
<1>2. AgesAreBounded' /\ RevokedAreGone'
  BY DEF AgesAreBounded, RevokedAreGone
<1>3. UndrawnAreUnknown'
  BY DEF UndrawnAreUnknown, TypeOK
<1>4. QED
  BY <1>1, <1>2, <1>3

\* So does a step of runFileShareMode that leaves requests and sessions alone.
LEMMA LoopInv ==
    ASSUME Inv, local' \in {"off", "starting", "listening"},
           tunnel' \in {"off", "dial", "failed", "up", "lost"},
           backoff' \in FirstBackoff..MaxBackoff,
           UNCHANGED <<fileVars, sessionVars, jar, call>>
    PROVE  Inv'
BY DEF Inv, TypeOK, AgesAreBounded, RevokedAreGone, UndrawnAreUnknown, fileVars, sessionVars

\* A new process has no sessions, and revokes those of the one before.
LEMMA NewManagerInv ==
    ASSUME Inv, NewSessionManager, local' \in {"off", "starting", "listening"},
           tunnel' \in {"off", "dial", "failed", "up", "lost"},
           backoff' \in FirstBackoff..MaxBackoff,
           UNCHANGED <<fileVars, jar>>,
           call' = call \/ call' = [s \in Slots |-> Idle]
    PROVE  Inv'
<1> USE DEF Inv, NewSessionManager
<1>1. age' \in [Tokens -> Nat] /\ sinceSweep' \in 0..SweepPeriod
  BY FileShareAssumption
<1>2. TypeOK'
  BY <1>1, CallsAreTyped DEF TypeOK, fileVars
<1>3. UndrawnAreUnknown'
  BY CallFields, FileShareAssumption DEF UndrawnAreUnknown
<1>4. QED
  BY <1>2, <1>3 DEF AgesAreBounded, RevokedAreGone

LEMMA TickInv == Inv /\ Tick => Inv'
<1> SUFFICES ASSUME Inv, Tick PROVE Inv'
  OBVIOUS
<1> USE DEF Inv, Tick, fileVars, loopVars
<1>1. sinceSweep \in Nat /\ sinceSweep' = sinceSweep + 1 /\ sinceSweep' \in 0..SweepPeriod
  BY FileShareAssumption DEF TypeOK
<1>2. age' \in [Tokens -> Nat]
  BY DEF TypeOK
<1>3. TypeOK'
  BY <1>1, <1>2 DEF TypeOK
<1>4. AgesAreBounded'
  BY <1>1, FileShareAssumption DEF TypeOK, AgesAreBounded
<1>5. QED
  BY <1>3, <1>4 DEF RevokedAreGone, UndrawnAreUnknown

LEMMA CleanupInv == Inv /\ Cleanup => Inv'
<1> SUFFICES ASSUME Inv, Cleanup PROVE Inv'
  OBVIOUS
<1> USE DEF Inv, Cleanup, fileVars, loopVars
<1>1. sinceSweep' \in 0..SweepPeriod /\ age' \in [Tokens -> Nat] /\ sessions' \subseteq sessions
  BY FileShareAssumption DEF TypeOK
<1>2. TypeOK'
  BY <1>1 DEF TypeOK
<1>3. AgesAreBounded'
  BY <1>1, FileShareAssumption DEF TypeOK, AgesAreBounded
<1>4. QED
  BY <1>1, <1>2, <1>3 DEF RevokedAreGone, UndrawnAreUnknown

\* A token that CreateSession draws was no session and was not revoked.
LEMMA LoginInv == ASSUME Inv, NEW s \in Slots, HandleLogin(s) PROVE Inv'
<1> USE DEF Inv, HandleLogin, CreateSession, fileVars, loopVars
<1>1. PICK k \in Tokens : CreateSession(k) /\ Answer(s, k)
  OBVIOUS
<1>2. call' \in [Slots -> Calls]
  BY <1>1, CallsAreTyped DEF TypeOK, Answer, Cookies
<1>3. TypeOK'
  BY <1>1, <1>2 DEF TypeOK
<1>4. AgesAreBounded' /\ RevokedAreGone'
  <2>1. k \notin sessions /\ k \notin revoked /\ age[k] = 0
    BY <1>1 DEF TypeOK, AgesAreBounded
  <2>2. 0 <= Life + sinceSweep
    BY FileShareAssumption DEF TypeOK
  <2>3. QED
    BY <1>1, <2>1, <2>2 DEF TypeOK, AgesAreBounded, RevokedAreGone
<1>5. UndrawnAreUnknown'
  BY <1>1, CallFields, FileShareAssumption DEF UndrawnAreUnknown, TypeOK, Answer
<1>6. QED
  BY <1>3, <1>4, <1>5

LEMMA LogoutInv == ASSUME Inv, NEW s \in Slots, HandleLogout(s) PROVE Inv'
<1> USE DEF Inv, HandleLogout, DeleteSession, fileVars, loopVars
<1>1. call[s].cookie \in Cookies
  BY DEF TypeOK, Calls
<1>2. call' \in [Slots -> Calls]
  BY CallsAreTyped DEF TypeOK, Answer, Cookies
<1>3. age' \in [Tokens -> Nat]
  BY DEF TypeOK
<1>4. TypeOK'
  <2>1. revoked' \subseteq given'
    BY DEF UndrawnAreUnknown, TypeOK
  <2>2. QED
    BY <1>2, <1>3, <2>1 DEF TypeOK
<1>5. UndrawnAreUnknown'
  BY CallFields, FileShareAssumption DEF UndrawnAreUnknown, TypeOK, Answer
<1>6. QED
  BY <1>3, <1>4, <1>5 DEF TypeOK, AgesAreBounded, RevokedAreGone

\* What is answered without the jar and the sessions.
LEMMA AnswerInv ==
    ASSUME Inv, NEW s \in Slots, NEW do \in Pages \cup {"keep"}, Answer(s, do),
           UNCHANGED <<perms, loopVars, sessionVars, jar>>,
           content' \in [Files -> {"none", "empty", "old", "new"}]
    PROVE  Inv'
<1>1. \A k \in Tokens : jar' = jar /\ k # NoToken /\ k # do
  BY FileShareAssumption
<1>2. jar' \in Cookies
  BY DEF Inv, TypeOK
<1>3. \A k \in Tokens \ given : jar' # k
  BY DEF Inv, UndrawnAreUnknown
<1> DEFINE c == [Idle EXCEPT !.at = "answered", !.do = do]
<1>4. c \in Calls
  BY CallsAreTyped
<1>5. c.cookie = NoToken /\ c.do = do
  BY CallFields
<1>6. call' = [call EXCEPT ![s] = c]
  BY DEF Answer
<1>7. \A k \in Tokens \ given : jar' # k /\ c.cookie # k /\ c.do # k
  BY <1>1, <1>3, <1>5
<1> HIDE DEF c
<1>8. QED
  BY <1>2, <1>4, <1>6, <1>7, CallInv

\* What is sent with the cookie of the jar or none.
LEMMA RequestInv ==
    ASSUME Inv, NEW s \in Slots, NEW op \in Ops, NEW cookie \in {jar, NoToken} \cup given,
           NEW creds \in BOOLEAN, call' = [call EXCEPT ![s] = Request(op, cookie, creds)],
           UNCHANGED <<fileVars, loopVars, sessionVars, jar>>
    PROVE  Inv'
<1>1. cookie \in Cookies /\ jar' \in Cookies
        /\ content' \in [Files -> {"none", "empty", "old", "new"}] /\ perms' = perms
  BY DEF Inv, TypeOK, Cookies, fileVars
<1>2. \A k \in Tokens \ given : jar' # k /\ cookie # k /\ "keep" # k
  BY FileShareAssumption DEF Inv, UndrawnAreUnknown
<1> DEFINE c == Request(op, cookie, creds)
<1>3. c \in Calls /\ c.cookie = cookie /\ c.do = "keep"
  <2>1. c \in Calls
    BY <1>1, CallsAreTyped
  <2>2. c.cookie = cookie /\ c.do = "keep"
    BY DEF Request
  <2>3. QED
    BY <2>1, <2>2
<1>4. \A k \in Tokens \ given : jar' # k /\ c.cookie # k /\ c.do # k
  BY <1>2, <1>3
<1>5. call' = [call EXCEPT ![s] = c]
  OBVIOUS
<1> HIDE DEF c
<1>6. QED
  BY <1>1, <1>3, <1>4, <1>5, CallInv DEF fileVars

LEMMA IdleInv ==
    ASSUME Inv, NEW s \in Slots, call' = [call EXCEPT ![s] = Idle],
           UNCHANGED <<fileVars, loopVars, sessionVars>>,
           jar' \in {jar, call[s].do} \cap Cookies
    PROVE  Inv'
<1>1. content' \in [Files -> {"none", "empty", "old", "new"}] /\ perms' = perms
  BY DEF Inv, TypeOK, fileVars
<1>2. \A k \in Tokens \ given : jar' # k /\ NoToken # k /\ "keep" # k
  BY FileShareAssumption DEF Inv, UndrawnAreUnknown
<1>3. QED
  BY <1>1, <1>2, CallInv, CallsAreTyped, CallFields

LEMMA AuthInv == ASSUME Inv, NEW s \in Slots, PasswordAuthMiddleware(s) PROVE Inv'
<1> USE DEF PasswordAuthMiddleware
<1>1. content' \in [Files -> {"none", "empty", "old", "new"}] /\ perms' = perms /\ jar' = jar
        /\ jar \in Cookies
  BY DEF Inv, TypeOK, fileVars
<1>2. CASE Admits(call[s])
  <2> DEFINE c == [call[s] EXCEPT !.at = "admitted"]
  <2>1. call[s] \in Calls
    BY DEF Inv, TypeOK
  <2>2. c \in Calls /\ c.cookie = call[s].cookie /\ c.do = call[s].do
    BY <2>1 DEF Calls
  <2>3. call' = [call EXCEPT ![s] = c]
    BY <1>2
  <2>4. \A k \in Tokens \ given : jar' # k /\ c.cookie # k /\ c.do # k
    BY <1>1, <2>2 DEF Inv, UndrawnAreUnknown
  <2>5. QED
    BY <1>1, <2>2, <2>3, <2>4, CallInv
<1>3. CASE ~Admits(call[s])
  BY <1>1, <1>3, AnswerInv
<1>4. QED
  BY <1>2, <1>3

LEMMA ServeInv == ASSUME Inv, NEW s \in Slots, ServeFiles(s) PROVE Inv'
<1>1. \A op, was : was \in {"none", "empty", "old", "new"} =>
        Effect(op, was) \in {"none", "empty", "old", "new"}
  BY DEF Effect
<1>2. PICK f \in Files :
        content' \in {content, [content EXCEPT ![f] = Effect(call[s].op, @)]}
  BY DEF ServeFiles
<1>3. content \in [Files -> {"none", "empty", "old", "new"}]
  BY DEF Inv, TypeOK
<1>4. content' \in [Files -> {"none", "empty", "old", "new"}]
  BY <1>1, <1>2, <1>3
<1>5. QED
  BY <1>4, AnswerInv DEF ServeFiles

LEMMA NextInv == Inv /\ [Next]_vars => Inv'
<1> SUFFICES ASSUME Inv, [Next]_vars PROVE Inv'
  OBVIOUS
<1> USE DEF fileVars
<1>1. backoff \in FirstBackoff..MaxBackoff /\ FirstBackoff \in FirstBackoff..MaxBackoff
        /\ local \in {"off", "starting", "listening"}
        /\ tunnel \in {"off", "dial", "failed", "up", "lost"}
        /\ content \in [Files -> {"none", "empty", "old", "new"}]
  BY FileShareAssumption DEF Inv, TypeOK
<1>2. CASE RunFileShareMode
  BY <1>1, <1>2, NewManagerInv DEF RunFileShareMode
<1>3. CASE ListenAndServe
  BY <1>1, <1>3, LoopInv DEF ListenAndServe
<1>4. CASE Exit
  BY <1>1, <1>4, NewManagerInv DEF Exit
<1>5. CASE DialFails
  BY <1>1, <1>5, LoopInv DEF DialFails
<1>6. CASE WakeAfterFailure
  <2>1. backoff' \in FirstBackoff..MaxBackoff
    BY <1>1, <1>6, FileShareAssumption DEF WakeAfterFailure
  <2>2. QED
    BY <1>1, <1>6, <2>1, LoopInv DEF WakeAfterFailure
<1>7. CASE DialSucceeds
  BY <1>1, <1>7, LoopInv DEF DialSucceeds
<1>8. CASE TunnelBreaks
  BY <1>1, <1>8, LoopInv DEF TunnelBreaks
<1>9. CASE WakeAfterLoss
  BY <1>1, <1>9, LoopInv DEF WakeAfterLoss
<1>10. CASE Tick
  BY <1>10, TickInv
<1>11. CASE Cleanup
  BY <1>11, CleanupInv
<1>12. ASSUME NEW s \in Slots, BrowserSends(s) \/ ProgramSends(s) PROVE Inv'
  <2>1. PICK op \in Ops, cookie \in {jar, NoToken} \cup given, creds \in BOOLEAN :
          Send(s, op, cookie, creds)
    BY <1>12 DEF BrowserSends, ProgramSends, Ops
  <2>2. QED
    BY <2>1, RequestInv DEF Send
<1>13. ASSUME NEW s \in Slots, HandleLogin(s) PROVE Inv'
  BY <1>13, LoginInv
<1>14. ASSUME NEW s \in Slots, LoginFails(s) PROVE Inv'
  BY <1>1, <1>14, AnswerInv DEF LoginFails
<1>15. ASSUME NEW s \in Slots, HandleLogout(s) PROVE Inv'
  BY <1>15, LogoutInv
<1>16. ASSUME NEW s \in Slots, ServePage(s) PROVE Inv'
  <2>1. \E do \in Pages \cup {"keep"} : Answer(s, do)
    BY <1>16 DEF ServePage, Pages
  <2>2. QED
    BY <1>1, <1>16, <2>1, AnswerInv DEF ServePage
<1>17. ASSUME NEW s \in Slots, PasswordAuthMiddleware(s) PROVE Inv'
  BY <1>17, AuthInv
<1>18. ASSUME NEW s \in Slots, PermissionDenied(s) PROVE Inv'
  BY <1>1, <1>18, AnswerInv DEF PermissionDenied
<1>19. ASSUME NEW s \in Slots, ServeFiles(s) PROVE Inv'
  BY <1>19, ServeInv
<1>20. ASSUME NEW s \in Slots, AnswerArrives(s) \/ IsLost(s) PROVE Inv'
  <2>1. jar \in Cookies
    BY DEF Inv, TypeOK
  <2>2. QED
    BY <1>20, <2>1, IdleInv DEF AnswerArrives, IsLost
<1>21. ASSUME NEW s \in Slots, RedirectArrives(s) PROVE Inv'
  BY <1>21, RequestInv DEF RedirectArrives, Ops
<1>22. CASE UNCHANGED vars
  BY <1>1, <1>22, LoopInv DEF vars, loopVars
<1>23. QED
  BY <1>2, <1>3, <1>4, <1>5, <1>6, <1>7, <1>8, <1>9, <1>10, <1>11, <1>12, <1>13, <1>14,
     <1>15, <1>16, <1>17, <1>18, <1>19, <1>20, <1>21, <1>22
  DEF Next

-----------------------------------------------------------------------------

\* Every variable of the file share has its type.
THEOREM TypeCorrect == Spec => []TypeOK
<1>1. Inv => TypeOK
  BY DEF Inv
<1>2. QED
  BY InitInv, NextInv, <1>1, PTL DEF Spec

\* A session outlives its time by one period of the cleanup at most, for any
\* number of browsers and logins and any life and period.
THEOREM SessionsAreSwept == Spec => []SessionsEndInTime
<1>1. Inv => SessionsEndInTime
  BY FileShareAssumption DEF Inv, TypeOK, AgesAreBounded, SessionsEndInTime
<1>2. QED
  BY InitInv, NextInv, <1>1, PTL DEF Spec

\* A revoked token admits no request that the middleware looks at afterwards.
THEOREM LogoutIsFinal == Spec => RevokedTokenOpensNothing
<1> DEFINE Opens(s) ==
      /\ call[s].at = "sent" /\ call'[s].at = "admitted"
      /\ ~call[s].creds /\ call[s].op # "OPTIONS"
<1>1. ASSUME Inv, [Next]_vars, NEW s \in Slots, Opens(s)
      PROVE  call[s].cookie \notin revoked
  <2>1. call \in [Slots -> Calls]
    BY <1>1 DEF Inv, TypeOK
  <2>2. /\ Idle.at = "idle" /\ \A do : [Idle EXCEPT !.at = "answered", !.do = do].at = "answered"
        /\ \A op, cookie, creds : Request(op, cookie, creds).at = "sent"
    BY DEF Idle, Request
  <2>3. PasswordAuthMiddleware(s)
    <3>1. ASSUME NEW r \in Slots, NEW c, c.at # "admitted", call' = [call EXCEPT ![r] = c]
          PROVE  FALSE
      BY <1>1, <2>1, <3>1
    <3>2. \E r \in Slots : PasswordAuthMiddleware(r)
      BY <1>1, <2>1, <2>2, <3>1
      DEF Next, vars, RunFileShareMode, ListenAndServe, Exit, DialFails, WakeAfterFailure,
          DialSucceeds, TunnelBreaks, WakeAfterLoss, Tick, Cleanup, BrowserSends, ProgramSends,
          Send, HandleLogin, LoginFails, HandleLogout, ServePage, PermissionDenied, ServeFiles,
          Answer, AnswerArrives, RedirectArrives, IsLost
    <3>3. QED
      BY <1>1, <2>1, <2>2, <3>2 DEF PasswordAuthMiddleware, Answer
  <2>4. Admits(call[s])
    BY <1>1, <2>1, <2>2, <2>3 DEF PasswordAuthMiddleware, Answer
  <2>5. QED
    BY <1>1, <2>4 DEF Admits, ValidateSession, Inv, RevokedAreGone
<1>2. Inv /\ [Next]_vars =>
        [\A s \in Slots : Opens(s) => call[s].cookie \notin revoked]_vars
  BY <1>1
<1>3. QED
  BY InitInv, NextInv, <1>2, PTL DEF Spec, RevokedTokenOpensNothing

\* A share that may only be read keeps its files, whatever methods are sent.
THEOREM ReadOnlyIsKept == Spec => ReadOnlyKeepsFiles
<1>1. ASSUME Inv, [Next]_vars, perms = "r", NEW f \in Files, content[f] # "none"
      PROVE  content'[f] = content[f]
  <2>1. content \in [Files -> {"none", "empty", "old", "new"}]
    BY <1>1 DEF Inv, TypeOK
  <2>2. ASSUME NEW s \in Slots, ServeFiles(s) PROVE content'[f] = content[f]
    <3>1. call[s].op \notin {"PUT", "DELETE"}
      BY <1>1, <2>2 DEF ServeFiles, Permits, HasWrite
    <3>2. Effect(call[s].op, content[f]) = content[f]
      BY <1>1, <3>1 DEF Effect
    <3>3. QED
      BY <2>1, <2>2, <3>2 DEF ServeFiles
  <2>3. CASE content' = content
    BY <2>3
  <2>4. content' = content \/ \E s \in Slots : ServeFiles(s)
    BY <1>1
    DEF Next, vars, fileVars, RunFileShareMode, ListenAndServe, Exit, DialFails,
        WakeAfterFailure, DialSucceeds, TunnelBreaks, WakeAfterLoss, Tick, Cleanup,
        BrowserSends, ProgramSends, Send, HandleLogin, LoginFails, HandleLogout, ServePage,
        PasswordAuthMiddleware, PermissionDenied, AnswerArrives, RedirectArrives, IsLost
  <2>5. QED
    BY <2>2, <2>3, <2>4
<1>2. Inv /\ [Next]_vars =>
        [perms = "r" => \A f \in Files : content[f] # "none" => content'[f] = content[f]]_vars
  BY <1>1
<1>3. QED
  BY InitInv, NextInv, <1>2, PTL DEF Spec, ReadOnlyKeepsFiles

=============================================================================
