-------------------------------- MODULE Fifo --------------------------------
(***************************************************************************)
(* The ring buffer fifo<T> of src/inc/fifo.hpp.  It takes no lock and      *)
(* main.cpp uses it from one function only, so each method is one action.  *)
(***************************************************************************)
EXTENDS Integers, Sequences

CONSTANTS
  Sizes,                       \* memory_size of the constructor
  Batches,                     \* what write is called with: sequences of items
  Requests,                    \* what read is called with: numbers of items
  Blank                        \* what the memory holds before the first write

ASSUME FifoAssumption ==
  /\ Sizes \subseteq Nat \ {0} /\ Requests \subseteq Nat
  /\ \A b \in Batches : b \in Seq({b[k] : k \in DOMAIN b})

VARIABLES
  size, buffer, write_index, read_index,
  data_out                     \* what the last read put out
fvars == <<size, buffer, write_index, read_index, data_out>>

Fewer(m, n) == IF m <= n THEN m ELSE n

\* An index incremented k <= size times, and set to 0 when it reaches size.
Advanced(i, k) == IF i + k >= size THEN i + k - size ELSE i + k

count_read ==
  IF write_index < read_index THEN size - read_index + write_index
  ELSE write_index - read_index

count_write ==
  IF write_index < read_index THEN read_index - write_index - 1
  ELSE size - write_index + read_index - 1

fifo ==
  /\ size \in Sizes
  /\ buffer = [i \in 0 .. size - 1 |-> Blank]
  /\ write_index = 0 /\ read_index = 0 /\ data_out = <<>>

\* Each index is incremented in the statement that uses it and then compared
\* with size.
write(data_in) ==
  LET n == Fewer(Len(data_in), count_write)
      hits(i) == {k \in 1 .. n : Advanced(write_index, k - 1) = i}
  IN  /\ buffer' = [i \in 0 .. size - 1 |->
                      IF hits(i) = {} THEN buffer[i]
                      ELSE data_in[CHOOSE k \in hits(i) : TRUE]]
      /\ write_index' = Advanced(write_index, n)
      /\ UNCHANGED <<size, read_index, data_out>>

read(data_out_size) ==
  LET n == Fewer(data_out_size, count_read) IN
  /\ data_out' = [k \in 1 .. n |-> buffer[Advanced(read_index, k - 1)]]
  /\ read_index' = Advanced(read_index, n)
  /\ UNCHANGED <<size, buffer, write_index>>

ResetsWriteOnly ==                                             \* mutant
  /\ write_index' = 0
  /\ UNCHANGED <<size, buffer, read_index, data_out>>

reset ==
  /\ write_index' = 0 /\ read_index' = 0
  /\ UNCHANGED <<size, buffer, data_out>>

FifoInit == fifo

FifoNext ==
  \/ \E data_in \in Batches : write(data_in)
  \/ \E n \in Requests : read(n)
  \/ reset

FifoSpec == FifoInit /\ [][FifoNext]_fvars

-----------------------------------------------------------------------------
(* Properties.                                                             *)

FTypeOK ==
  /\ size \in Sizes
  /\ write_index \in 0 .. size - 1 /\ read_index \in 0 .. size - 1

\* Full and empty are told apart: the free and the used items add up to one less
\* than the memory, wherever the indices have wrapped (fifo.hpp:14, 23).
CountsAddUp ==
  /\ count_read + count_write = size - 1
  /\ count_read \in 0 .. size - 1 /\ count_write \in 0 .. size - 1

\* Over any number of turns of its indices the buffer is a queue of size - 1
\* items: nothing is lost, overwritten or given twice (write, read, reset).
Q == INSTANCE BoundedQueue WITH
       room <- size - 1,
       unread <- [k \in 1 .. count_read |-> buffer[Advanced(read_index, k - 1)]],
       given <- data_out
IsQueue == Q!QueueSpec
=============================================================================
