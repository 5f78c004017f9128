------------------------------- MODULE MCLists -------------------------------
(***************************************************************************)
(* Module Lists for TLC with one walk of the lists at most: does a ready   *)
(* task get its share of the CPU after it?                                 *)
(***************************************************************************)
EXTENDS Lists, TLC

CONSTANTS x1, x2, x3, ready, delayed, c0, c1

VARIABLE walks                 \* the walks so far

MCNext ==
  \/ walks = 0 /\ walks' = 1 /\ Walk
  \/ UNCHANGED walks /\ ListStep

MCSpec ==
  /\ ListsInit /\ walks = 0
  /\ [][MCNext]_<<lvars, walks>>
  /\ ListsFairness
==============================================================================
