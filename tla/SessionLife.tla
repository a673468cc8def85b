---------------------------- MODULE SessionLife ----------------------------
(***************************************************************************)
(* The life of the UDP sessions of one end, without its locks, readers,     *)
(* timers and packets: a session is listed under an ID once, somebody takes *)
(* it out once, and whoever did closes it. Opening an ID again ends the     *)
(* session listed under it: the client closes it, the server forgets it.    *)
(***************************************************************************)
CONSTANTS Sessions, Ids

VARIABLES
    end,   \* which end it is
    life,  \* unborn, listed, taken, and closed or forgotten
    name   \* the ID each session was opened under

vars == <<end, life, name>>

Init ==
    /\ end \in {"server", "client"}
    /\ life = [n \in Sessions |-> "unborn"]
    /\ name \in [Sessions -> Ids]

Replaced == IF end = "server" THEN "forgotten" ELSE "closed"

Open(n, i) ==
    /\ life[n] = "unborn"
    /\ life' = [m \in Sessions |->
                  IF m = n THEN "listed"
                  ELSE IF life[m] = "listed" /\ name[m] = i THEN Replaced ELSE life[m]]
    /\ name' = [name EXCEPT ![n] = i]
    /\ UNCHANGED end

\* One session, or all of them when the control connection is lost.
Take(some) ==
    /\ \A n \in some : life[n] = "listed"
    /\ life' = [n \in Sessions |-> IF n \in some THEN "taken" ELSE life[n]]
    /\ UNCHANGED <<end, name>>

Close(n) ==
    /\ life[n] = "taken"
    /\ life' = [life EXCEPT ![n] = "closed"]
    /\ UNCHANGED <<end, name>>

Next ==
    \/ \E n \in Sessions : Close(n) \/ \E i \in Ids : Open(n, i)
    \/ \E some \in SUBSET Sessions : Take(some)

Spec == Init /\ [][Next]_vars
=============================================================================
