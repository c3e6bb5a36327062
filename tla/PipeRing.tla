------------------------------ MODULE PipeRing ------------------------------
(***************************************************************************)
(* ksi_pipe_ring (pipe_ring.c): a ring buffer under a mutex whose          *)
(* producers wake the consumer through a non-blocking pipe.  It carries    *)
(* the commands of the lanes and workers to the main thread and the        *)
(* events and nested transactions of the main thread to the lanes.         *)
(*                                                                         *)
(* A push is two steps: the item is stored under the mutex, the wake byte  *)
(* is written after it is released.  The consumer's loop is the one of     *)
(* lane_thread_main and of the main loop: poll, drain the pipe, pop until  *)
(* the ring is empty, poll again.                                          *)
(***************************************************************************)
EXTENDS Naturals, Sequences

CONSTANTS
  Producer,    \* the threads that push
  Item,        \* what they push
  Capacity,    \* the ring's capacity
  Reserve,     \* the reserves pushes leave (0, KSI_LANE_TRANSITION_RESERVE)
  PipeSize,    \* bytes the wake pipe holds
  ReadSize,    \* bytes one read of drain_wake takes
  MaxCalls     \* bound on the pushes and wakes of one behaviour

ASSUME RingAssumption ==
  /\ Capacity \in Nat \ {0}
  /\ Reserve \subseteq Nat
  /\ PipeSize \in Nat \ {0}
  /\ ReadSize \in Nat \ {0}
  /\ MaxCalls \in Nat

NoItem == "zero"

ASSUME ItemAssumption == NoItem \notin Item

VARIABLES
  buffer,   \* the ring's cells, 0..Capacity-1
  head,     \* the oldest item's cell
  count,    \* the items stored
  pipe,     \* bytes in the wake pipe
  owes,     \* producers that have stored an item and not yet written their byte
  pc,       \* the consumer: "poll", "drain", "pop"
  calls,    \* pushes admitted and wakes so far
  popped    \* the items popped, in order (history)

vars == <<buffer, head, count, pipe, owes, pc, calls, popped>>

Cell == 0..(Capacity - 1)

TypeOK ==
  /\ buffer \in [Cell -> Item \cup {NoItem}]
  /\ head \in Cell
  /\ count \in 0..Capacity
  /\ pipe \in 0..PipeSize
  /\ owes \subseteq Producer
  /\ pc \in {"poll", "drain", "pop"}
  /\ calls \in 0..MaxCalls
  /\ popped \in Seq(Item)

Init ==
  /\ buffer = [i \in Cell |-> NoItem]
  /\ head = 0
  /\ count = 0
  /\ pipe = 0
  /\ owes = {}
  /\ pc = "pop"
  /\ calls = 0
  /\ popped = <<>>

\* The cell i places after the oldest item's.
CellAt(i) == (head + i) % Capacity

\* The admission test of ksi_pipe_ring_push_reserved.
Admits(reserve) == count + reserve < Capacity

\* ksi_pipe_ring_push_reserved up to the unlock.  A refused push changes nothing.
Push(p, x, reserve) ==
  /\ p \notin owes
  /\ calls < MaxCalls
  /\ Admits(reserve)
  /\ buffer' = [buffer EXCEPT ![CellAt(count)] = x]
  /\ count' = count + 1
  /\ owes' = owes \cup {p}
  /\ calls' = calls + 1
  /\ UNCHANGED <<head, pipe, pc, popped>>

\* A byte more, or EAGAIN: the pipe is full and its reader awake anyway.
WriteByte == pipe' = IF pipe < PipeSize THEN pipe + 1 ELSE pipe

\* A mutant: a byte is written only for an item that is alone in the ring.
WakeIfAlone(p) ==
  /\ p \in owes
  /\ owes' = owes \ {p}
  /\ IF count = 1 THEN WriteByte ELSE UNCHANGED pipe
  /\ UNCHANGED <<buffer, head, count, pc, calls, popped>>

\* wake_pipe_write, after the unlock.
WakeAfterPush(p) ==
  /\ p \in owes
  /\ owes' = owes \ {p}
  /\ WriteByte
  /\ UNCHANGED <<buffer, head, count, pc, calls, popped>>

\* ksi_pipe_ring_wake: a flush, a fail-open request or a shutdown.
Wake ==
  /\ calls < MaxCalls
  /\ calls' = calls + 1
  /\ WriteByte
  /\ UNCHANGED <<buffer, head, count, owes, pc, popped>>

\* The consumer's poll returns, for a byte or at its timeout.
PollReturns ==
  /\ pc = "poll"
  /\ pipe > 0
  /\ pc' = "drain"
  /\ UNCHANGED <<buffer, head, count, pipe, owes, calls, popped>>

PollTimesOut ==
  /\ pc = "poll"
  /\ pc' = "drain"
  /\ UNCHANGED <<buffer, head, count, pipe, owes, calls, popped>>

\* One read of ksi_pipe_ring_drain_wake; the one that finds nothing ends it.
Drain ==
  /\ pc = "drain"
  /\ \/ /\ pipe > 0
        /\ pipe' = IF pipe > ReadSize THEN pipe - ReadSize ELSE 0
        /\ UNCHANGED pc
     \/ /\ pipe = 0
        /\ pc' = "pop"
        /\ UNCHANGED pipe
  /\ UNCHANGED <<buffer, head, count, owes, calls, popped>>

\* A mutant: the consumer takes one item for each time it is woken.
PopOne ==
  /\ pc = "pop"
  /\ count > 0
  /\ popped' = Append(popped, buffer[head])
  /\ buffer' = [buffer EXCEPT ![head] = NoItem]
  /\ head' = CellAt(1)
  /\ count' = count - 1
  /\ pc' = "poll"
  /\ UNCHANGED <<pipe, owes, calls>>

\* A mutant: the newest item is taken, as from a stack.
PopNewest ==
  /\ pc = "pop"
  /\ count > 0
  /\ popped' = Append(popped, buffer[CellAt(count - 1)])
  /\ buffer' = [buffer EXCEPT ![CellAt(count - 1)] = NoItem]
  /\ count' = count - 1
  /\ UNCHANGED <<head, pipe, owes, pc, calls>>

\* ksi_pipe_ring_pop on a ring that is not empty.
Pop ==
  /\ pc = "pop"
  /\ count > 0
  /\ popped' = Append(popped, buffer[head])
  /\ buffer' = [buffer EXCEPT ![head] = NoItem]
  /\ head' = CellAt(1)
  /\ count' = count - 1
  /\ UNCHANGED <<pipe, owes, pc, calls>>

\* ksi_pipe_ring_pop on an empty one: the consumer goes back to its poll.
PopEmpty ==
  /\ pc = "pop"
  /\ count = 0
  /\ pc' = "poll"
  /\ UNCHANGED <<buffer, head, count, pipe, owes, calls, popped>>

Consumer == PollReturns \/ Drain \/ Pop \/ PopEmpty

Next ==
  \/ \E p \in Producer, x \in Item, r \in Reserve : Push(p, x, r)
  \/ \E p \in Producer : WakeAfterPush(p)
  \/ Wake
  \/ PollTimesOut
  \/ Consumer

Spec == Init /\ [][Next]_vars

\* Threads run; the poll's timeout is not relied on.
FairSpec ==
  /\ Spec
  /\ WF_vars(Consumer)
  /\ \A p \in Producer : WF_vars(WakeAfterPush(p))

-----------------------------------------------------------------------------
(* Properties.                                                             *)

\* The consumer never sleeps on an item: while it polls, a stored item has its
\* wake byte in the pipe or on its way (the byte is written after the item is
\* stored, and drained before the ring is emptied).
NoMissedWake ==
  (pc = "poll" /\ count > 0) => (pipe > 0 \/ owes # {})

\* The items stored, the oldest first.
Contents == [i \in 1..count |-> buffer[CellAt(i - 1)]]

Abstract == INSTANCE Fifo WITH queue <- Contents, taken <- popped

\* The ring is a bounded FIFO: items come out once, whole, in the order in which
\* they went in, and an admitted item never overwrites another.
ImplementsFifo == Abstract!FifoSpec

\* Whatever is stored is popped without the help of the poll's timeout.
Delivered == (count > 0) ~> (count = 0)

=============================================================================
