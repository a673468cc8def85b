------------------------- MODULE MCSessionRegistry --------------------------
(* Small instances of SessionRegistry for TLC.                             *)
EXTENDS SessionRegistry, TLC

\* Safety does not tell the connections, the clients, the keys or the names
\* apart; the ports have an order.
Symmetry ==
    Permutations(Sessions) \cup Permutations(ClientIDs)
        \cup Permutations(Keys) \cup Permutations(Subdomains)
=============================================================================
