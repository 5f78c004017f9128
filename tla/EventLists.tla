----------------------------- MODULE EventLists -----------------------------
(***************************************************************************)
(* The list of the tasks that wait for an event, src/src/freertos/list.c:  *)
(* the sequence of their tasks in the order of the ring, which module      *)
(* Lists has.  The value of an item is configMAX_PRIORITIES minus a        *)
(* priority.                                                               *)
(***************************************************************************)
EXTENDS Integers, Sequences, FiniteSets

Waiters(list) == {list[i] : i \in DOMAIN list}

\* Behind the first waiters that are at least as urgent as t.
vListInsert(list, t, uxPriority) ==
  LET k == Cardinality({i \in DOMAIN list :
                          \A j \in 1 .. i : uxPriority[list[j]] >= uxPriority[t]}) IN
  [i \in 1 .. Len(list) + 1 |->
     IF i <= k THEN list[i] ELSE IF i = k + 1 THEN t ELSE list[i - 1]]

\* If t is on the list.
uxListRemove(list, t) ==
  IF t \notin Waiters(list) THEN list
  ELSE LET k == CHOOSE i \in DOMAIN list : list[i] = t IN
       [i \in 1 .. Len(list) - 1 |-> IF i < k THEN list[i] ELSE list[i + 1]]

\* The first n waiters, and the others.
FirstOf(list, n) == {list[i] : i \in 1 .. n}
AfterFirst(list, n) == [i \in 1 .. Len(list) - n |-> list[i + n]]
=============================================================================
