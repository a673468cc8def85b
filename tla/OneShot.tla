------------------------------- MODULE OneShot ------------------------------
(***************************************************************************)
(* What HTTP tunnelling promises, without sessions, maps and connections:   *)
(* a request goes to the backend and comes back as its answer, one hop at a *)
(* time and never back or twice. It can get lost up to the moment a         *)
(* goroutine of the server has its answer. The public peer is told once how *)
(* it went, and gets the page if and only if the answer was taken for it.   *)
(***************************************************************************)
CONSTANT Requests

VARIABLES
    where,  \* the places the request or its answer is in: one or none
    reply   \* what the public peer was sent

vars == <<where, reply>>

\* From the asker over the wire to the backend, back over the wire to a handler of
\* the server, and through the channel to the asker.
Hops == {<<"asker", "request">>, <<"request", "backend">>, <<"backend", "response">>,
         <<"response", "handler">>, <<"handler", "channel">>, <<"channel", "taken">>}
CanBeLost == {"asker", "request", "backend", "response"}

Init ==
    /\ where = [r \in Requests |-> {"asker"}]
    /\ reply = [r \in Requests |-> "nothing"]

Hop(r) ==
    /\ \E h \in Hops : where[r] = {h[1]} /\ where' = [where EXCEPT ![r] = {h[2]}]
    /\ UNCHANGED reply

Lose(lost) ==
    /\ \A r \in lost : where[r] \subseteq CanBeLost
    /\ where' = [r \in Requests |-> IF r \in lost THEN {} ELSE where[r]]
    /\ UNCHANGED reply

\* Too late, nothing can be sent.
Reply(r) ==
    /\ reply[r] = "nothing"
    /\ \E what \in {"nothing", IF where[r] = {"taken"} THEN "page" ELSE "error"} :
          reply' = [reply EXCEPT ![r] = what]
    /\ UNCHANGED where

\* The request is refused before it has gone anywhere.
Refuse(r) ==
    /\ where[r] = {"asker"} /\ where' = [where EXCEPT ![r] = {}]
    /\ reply[r] = "nothing"
    /\ \E what \in {"nothing", "error"} : reply' = [reply EXCEPT ![r] = what]

Next ==
    \/ \E r \in Requests : Hop(r) \/ Reply(r) \/ Refuse(r)
    \/ \E lost \in SUBSET Requests : Lose(lost)

Spec == Init /\ [][Next]_vars
=============================================================================
