------------------------------- MODULE MCMutex -------------------------------
(***************************************************************************)
(* Module Mutex for TLC: three tasks, one of each priority, a plain mutex  *)
(* and a recursive one.  The least urgent task waits as long as it takes,  *)
(* or not at all; its priority is set while the system runs.               *)
(***************************************************************************)
EXTENDS Mutex, TLC

CONSTANTS low, mid, high, p, q

MCPriority == low :> 0 @@ mid :> 1 @@ high :> 2
MCWaits == low :> {"no", "forever"} @@ mid :> {"timed"} @@ high :> {"timed"}
==============================================================================
