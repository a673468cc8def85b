------------------------------- MODULE MCParts ------------------------------
(***************************************************************************)
(* Four small parts of the system that share nothing, one of them in each   *)
(* behaviour: the accounts, the locks of the server, the client's side of   *)
(* TCP proxying and the worker pool.                                        *)
(***************************************************************************)
EXTENDS Accounts, ServerLocks, ClientStreams, WorkerPool

VARIABLE part

allVars == <<part, vars, lockVars, streamVars, poolVars>>

PartsInit == /\ part \in {"accounts", "locks", "streams", "pool"}
             /\ Init /\ LocksInit /\ StreamsInit /\ PoolInit

PartsNext ==
    /\ UNCHANGED part
    /\ \/ part = "accounts" /\ Next /\ UNCHANGED <<lockVars, streamVars, poolVars>>
       \/ part = "locks" /\ LocksNext /\ UNCHANGED <<vars, streamVars, poolVars>>
       \/ part = "streams" /\ StreamsNext /\ UNCHANGED <<vars, lockVars, poolVars>>
       \/ part = "pool" /\ PoolNext /\ UNCHANGED <<vars, lockVars, streamVars>>

FairSpec == PartsInit /\ [][PartsNext]_allVars /\ LocksFairness /\ PoolFairness

=============================================================================
