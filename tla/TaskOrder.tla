------------------------------ MODULE TaskOrder ------------------------------
(***************************************************************************)
(* What the lists of list.c promise the scheduler: ready tasks have their  *)
(* turns in order, delayed tasks wake in the order of their wake times,    *)
(* and no task is in both orders, or twice in one.  Module Lists           *)
(* implements it.                                                          *)
(*                                                                         *)
(* The end of the ready list has its place among the turns and is passed   *)
(* over.                                                                   *)
(***************************************************************************)
EXTENDS Integers, Sequences

CONSTANTS
  Items, Cores,
  EndOfList, NoItem,           \* no items
  MaxWakeTime

VARIABLES
  turns,      \* the ready items and the end of their list, the next one first
  wakes,      \* the delayed items with their wake times, the first to wake first
  current     \* the item each core runs, or NoItem

vars == <<turns, wakes, current>>

With(s, i, e) ==
  [k \in 1 .. Len(s) + 1 |-> IF k <= i THEN s[k] ELSE IF k = i + 1 THEN e ELSE s[k - 1]]
Without(s, i) == [k \in 1 .. Len(s) - 1 |-> IF k < i THEN s[k] ELSE s[k + 1]]

Init ==
  turns = <<EndOfList>> /\ wakes = <<>> /\ current = [c \in Cores |-> NoItem]

\* The turns when the i-th gives its turn up: if it was to be the next, the
\* last one comes to the front.
Leaves(s, i) ==
  IF i > 1 THEN Without(s, i)
  ELSE [k \in 1 .. Len(s) - 1 |-> IF k = 1 THEN s[Len(s)] ELSE s[k]]

\* Core c runs the next item in s that no other core runs, and that item goes
\* to the end; or there is none.
Fits(c, x) == x \in Items /\ \A d \in Cores \ {c} : current[d] # x

TakeTurn(c, s) ==
  \/ /\ \A i \in 1 .. Len(s) : ~Fits(c, s[i])
     /\ turns' = s /\ current' = [current EXCEPT ![c] = NoItem]
  \/ \E i \in 1 .. Len(s) :
       /\ Fits(c, s[i]) /\ \A j \in 1 .. i - 1 : ~Fits(c, s[j])
       /\ turns' = Append(Leaves(s, i), s[i])
       /\ current' = [current EXCEPT ![c] = s[i]]

Switch(c) == TakeTurn(c, turns) /\ UNCHANGED wakes

\* The item of core c waits until v, behind those that wake no later.
Delay(c, v) ==
  /\ current[c] # NoItem
  /\ \E i \in 1 .. Len(turns) :
       turns[i] = current[c] /\ TakeTurn(c, Leaves(turns, i))
  /\ \E i \in 0 .. Len(wakes) :
       /\ \A j \in 1 .. i : wakes[j].value <= v
       /\ \A j \in i + 1 .. Len(wakes) : wakes[j].value > v
       /\ wakes' = With(wakes, i, [item |-> current[c], value |-> v])

\* A delayed item becomes ready: the first one, or any one when it is aborted.
Wake(i) ==
  /\ turns' = Append(turns, wakes[i].item) /\ wakes' = Without(wakes, i)
  /\ UNCHANGED current

\* An item comes from nowhere, or goes.
Add(x) ==
  /\ \A c \in Cores : current[c] # x
  /\ \A i \in 1 .. Len(turns) : turns[i] # x
  /\ \A i \in 1 .. Len(wakes) : wakes[i].item # x
  /\ turns' = Append(turns, x)
  /\ UNCHANGED <<wakes, current>>

Drop(x) ==
  /\ \A c \in Cores : current[c] # x
  /\ \/ \E i \in 1 .. Len(turns) :
          turns[i] = x /\ turns' = Leaves(turns, i) /\ UNCHANGED wakes
     \/ \E i \in 1 .. Len(wakes) :
          wakes[i].item = x /\ wakes' = Without(wakes, i) /\ UNCHANGED turns
  /\ UNCHANGED current

\* A walk along the ready list leaves another one to be the next.
Rotate(i) ==
  /\ turns' = [k \in 1 .. Len(turns) |->
                 turns[IF k + i <= Len(turns) THEN k + i ELSE k + i - Len(turns)]]
  /\ UNCHANGED <<wakes, current>>

Next ==
  \/ \E c \in Cores : Switch(c) \/ \E v \in 0 .. MaxWakeTime : Delay(c, v)
  \/ \E i \in 1 .. Len(wakes) : Wake(i)
  \/ \E x \in Items : Add(x) \/ Drop(x)
  \/ \E i \in 0 .. Len(turns) - 1 : Rotate(i)

Spec == Init /\ [][Next]_vars
==============================================================================
