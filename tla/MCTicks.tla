------------------------------- MODULE MCTicks -------------------------------
(* Values for the constants of Ticks.  TickType has three bits at most.     *)
EXTENDS Ticks, TLC

CONSTANTS A, B

\* Tasks that may call the same functions are interchangeable.
Interchangeable == Permutations(Tasks)
==============================================================================
