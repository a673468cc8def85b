----------------------------- MODULE PortLease ------------------------------
(***************************************************************************)
(* What the server promises about public ports, without its pool: a        *)
(* session leases a port nobody else leases, or the one fallback port that *)
(* is shared when there is no other, and gives it back once.               *)
(***************************************************************************)
CONSTANTS Sessions, Ports, Fallback

VARIABLE holders   \* the sessions that lease each port

Leases(c) == {p \in Ports : c \in holders[p]}

Init == holders = [p \in Ports |-> {}]

Lease(c, p) ==
    /\ Leases(c) = {}
    /\ holders[p] = {} \/ p = Fallback
    /\ holders' = [holders EXCEPT ![p] = @ \cup {c}]

Return(c) ==
    /\ Leases(c) # {}
    /\ holders' = [p \in Ports |-> holders[p] \ {c}]

Next == \E c \in Sessions : Return(c) \/ \E p \in Ports : Lease(c, p)

Spec == Init /\ [][Next]_holders
=============================================================================
