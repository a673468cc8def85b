---------------------------- MODULE ConnMatching ----------------------------
(***************************************************************************)
(* What the server promises of TCP proxying, without channels, maps and     *)
(* goroutines: a public connection is matched once, with a data connection  *)
(* that was dialled for it and for no other; nobody is matched afterwards;  *)
(* and the two of a stream are closed together, before the stream is over.  *)
(***************************************************************************)
CONSTANTS Publics, Datas, NoOne

VARIABLES
    state,     \* of each public connection
    match,     \* the data connection it is matched with, if any
    wants,     \* the public connection each data connection was dialled for
    shutPublic, shutData   \* those the server has closed

vars == <<state, match, wants, shutPublic, shutData>>

Init ==
    /\ state = [p \in Publics |-> "new"]
    /\ match = [p \in Publics |-> {}]
    /\ wants = [d \in Datas |-> NoOne]
    /\ shutPublic = {} /\ shutData = {}

Becomes(p, from, to) ==
    /\ state[p] \in from
    /\ state' = [state EXCEPT ![p] = to]

Ask(p) ==
    /\ Becomes(p, {"new"}, "open")
    /\ UNCHANGED <<match, wants, shutPublic, shutData>>

Dial(d, p) ==
    /\ wants[d] = NoOne
    /\ wants' = [wants EXCEPT ![d] = p]
    /\ UNCHANGED <<state, match, shutPublic, shutData>>

Match(p, d) ==
    /\ Becomes(p, {"open"}, "settled")
    /\ wants[d] = p /\ d \notin shutData
    /\ match' = [match EXCEPT ![p] = {d}]
    /\ UNCHANGED <<wants, shutPublic, shutData>>

\* The client has refused.
Withdraw(p) ==
    /\ Becomes(p, {"open"}, "settled")
    /\ UNCHANGED <<match, wants, shutPublic, shutData>>

Join(p) ==
    /\ Becomes(p, {"settled"}, "joined")
    /\ match[p] # {}
    /\ UNCHANGED <<match, wants, shutPublic, shutData>>

\* A data connection that is not anybody's match is closed.
TurnDown(d) ==
    /\ \A p \in Publics : d \notin match[p]
    /\ shutData' = shutData \cup {d}
    /\ UNCHANGED <<state, match, wants, shutPublic>>

Shut(p) ==
    /\ state[p] = "joined"
    /\ shutPublic' = shutPublic \cup {p} /\ shutData' = shutData \cup match[p]
    /\ UNCHANGED <<state, match, wants>>

\* The stream is over, or there is none and the public connection is closed.
End(p) ==
    /\ \/ Becomes(p, {"new", "open", "settled"}, "ended")
       \/ /\ Becomes(p, {"joined"}, "ended")
          /\ p \in shutPublic /\ match[p] \subseteq shutData
    /\ shutPublic' = shutPublic \cup {p}
    /\ UNCHANGED <<match, wants, shutData>>

Next ==
    \/ \E p \in Publics : \/ Ask(p) \/ Withdraw(p) \/ Join(p) \/ Shut(p) \/ End(p)
                          \/ \E d \in Datas : Dial(d, p) \/ Match(p, d)
    \/ \E d \in Datas : TurnDown(d)

Spec == Init /\ [][Next]_vars
=============================================================================
