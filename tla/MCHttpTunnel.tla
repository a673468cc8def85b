---------------------------- MODULE MCHttpTunnel ----------------------------
(* Small instances of HttpTunnel for TLC.                                  *)
EXTENDS HttpTunnel, TLC
=============================================================================
