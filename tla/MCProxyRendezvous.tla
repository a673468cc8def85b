------------------------- MODULE MCProxyRendezvous --------------------------
(* Small instances of ProxyRendezvous for TLC.                             *)
EXTENDS ProxyRendezvous, TLC
=============================================================================
