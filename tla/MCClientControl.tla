-------------------------- MODULE MCClientControl ---------------------------
(* Small instances of ClientControl for TLC.                               *)
EXTENDS ClientControl, TLC
=============================================================================
