-------------------------------- MODULE Fifo --------------------------------
(***************************************************************************)
(* What a ksi_pipe_ring promises (pipe_ring.h): a bounded first-in         *)
(* first-out queue.  An item is taken whole or refused; what is taken is   *)
(* handed out once, in order.                                              *)
(***************************************************************************)
EXTENDS Naturals, Sequences

CONSTANTS
  Item,      \* what is queued
  Capacity   \* the places of the queue

VARIABLES
  queue,     \* the items waiting, the oldest first
  taken      \* the items handed out, in order

fifoVars == <<queue, taken>>

FifoInit == queue = <<>> /\ taken = <<>>

Put(x) ==
  /\ Len(queue) < Capacity
  /\ queue' = Append(queue, x)
  /\ UNCHANGED taken

Take ==
  /\ queue # <<>>
  /\ taken' = Append(taken, Head(queue))
  /\ queue' = Tail(queue)

FifoNext == Take \/ \E x \in Item : Put(x)

FifoSpec == FifoInit /\ [][FifoNext]_fifoVars

=============================================================================
