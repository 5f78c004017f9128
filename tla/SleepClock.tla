----------------------------- MODULE SleepClock -----------------------------
(***************************************************************************)
(* What the delayed lists of tasks.c promise: a clock that never wraps, on *)
(* which a task sleeps until the tick it asked for unless somebody rouses  *)
(* it before.  Module Ticks implements it.                                 *)
(***************************************************************************)
EXTENDS Integers

CONSTANTS
  Tasks,
  MaxSleep    \* the longest time a task can ask for

VARIABLES
  now,        \* ticks since the start
  wake        \* the tick at which each task wakes, or Awake, or Forever

Awake == 0
Forever == -1

Init == now \in Nat /\ wake = [t \in Tasks |-> Awake]

\* A task that is awake goes to sleep for n ticks.
Sleep(t, n) ==
  /\ wake[t] = Awake
  /\ wake' = [wake EXCEPT ![t] = now + n]
  /\ UNCHANGED now

\* A task blocks without a timeout, or is suspended.
Suspend(t) == wake' = [wake EXCEPT ![t] = Forever] /\ UNCHANGED now

\* An event, a resume, an aborted delay: tasks wake before their time.
Rouse(S) ==
  /\ wake' = [t \in Tasks |-> IF t \in S THEN Awake ELSE wake[t]]
  /\ UNCHANGED now

\* One tick wakes the tasks whose time it is, and nobody else.
Advance ==
  /\ now' = now + 1
  /\ wake' = [t \in Tasks |-> IF wake[t] = now + 1 THEN Awake ELSE wake[t]]

Next ==
  \/ Advance
  \/ \E t \in Tasks : Suspend(t) \/ \E n \in 1 .. MaxSleep : Sleep(t, n)
  \/ \E S \in SUBSET Tasks : Rouse(S)

Spec == Init /\ [][Next]_<<now, wake>>
=============================================================================
