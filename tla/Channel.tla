------------------------------- MODULE Channel -------------------------------
(***************************************************************************)
(* What a queue of src/src/freertos/queue.c promises its users, whoever    *)
(* waits and however the waiting is done: a bounded sequence of items,     *)
(* posted at the back or at the front, handed over from the front.         *)
(***************************************************************************)
EXTENDS Integers, Sequences

CONSTANTS Items, NoItem, Lengths

VARIABLES
  uxLength,      \* the most items it holds; it never changes
  contents,      \* the items in the channel, the next to be taken first
  delivered      \* what the last receive or peek handed over

vars == <<uxLength, contents, delivered>>

Room == Len(contents) < uxLength

Init ==
  /\ uxLength \in Lengths
  /\ \E n \in 0 .. uxLength : contents = [i \in 1 .. n |-> NoItem]
  /\ delivered = NoItem

PostBack(i) == Room /\ contents' = contents \o <<i>> /\ UNCHANGED delivered

PostFront(i) == Room /\ contents' = <<i>> \o contents /\ UNCHANGED delivered

\* Posting over the item of a mailbox of length one, full or not.
Overwrite(i) == uxLength = 1 /\ contents' = <<i>> /\ UNCHANGED delivered

Take ==
  /\ contents # <<>>
  /\ contents' = Tail(contents)
  /\ delivered' = Head(contents)

Look ==
  /\ contents # <<>>
  /\ delivered' = Head(contents)
  /\ UNCHANGED contents

Clear == contents' = <<>> /\ UNCHANGED delivered

Next ==
  /\ UNCHANGED uxLength
  /\ \/ \E i \in Items \cup {NoItem} : PostBack(i) \/ PostFront(i) \/ Overwrite(i)
     \/ Take \/ Look \/ Clear

Spec == Init /\ [][Next]_vars
==============================================================================
