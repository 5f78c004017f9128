---------------------------- MODULE BoundedQueue ----------------------------
(***************************************************************************)
(* What fifo<T> of src/inc/fifo.hpp promises: a queue that holds one item  *)
(* less than its memory has room for, takes as many items of a batch as    *)
(* still fit and gives back the oldest ones, as many as are there.         *)
(***************************************************************************)
EXTENDS Sequences, Integers

CONSTANTS Batches, Requests

VARIABLES
  room,                        \* the items it can hold
  unread,                      \* the items written and not read
  given                        \* the items the last read gave back

Least(m, n) == IF m <= n THEN m ELSE n

QueueInit == room \in Nat /\ unread = <<>> /\ given = <<>>

Write(batch) ==
  /\ unread' = unread \o SubSeq(batch, 1, Least(Len(batch), room - Len(unread)))
  /\ UNCHANGED <<room, given>>

Read(n) ==
  LET k == Least(n, Len(unread)) IN
  /\ given' = SubSeq(unread, 1, k)
  /\ unread' = SubSeq(unread, k + 1, Len(unread))
  /\ UNCHANGED room

Reset == unread' = <<>> /\ UNCHANGED <<room, given>>

QueueNext ==
  \/ \E batch \in Batches : Write(batch)
  \/ \E n \in Requests : Read(n)
  \/ Reset

QueueSpec == QueueInit /\ [][QueueNext]_<<room, unread, given>>
=============================================================================
