---------------------------- MODULE PipeRingProofs ----------------------------
(***************************************************************************)
(* Proofs about PipeRing for every capacity, reserve, pipe size and number *)
(* of producers: types, no missed wakeup, and that the ring implements the *)
(* bounded FIFO.                                                           *)
(***************************************************************************)
EXTENDS PipeRing, SequenceTheorems, TLAPS

\* The cells in use hold items, never the zeroes pop leaves behind.
Filled == \A i \in 0..(Capacity - 1) : i < count => buffer[CellAt(i)] \in Item

\* What Init establishes and every step preserves.
IInv == TypeOK /\ Filled /\ NoMissedWake

-----------------------------------------------------------------------------
(* Arithmetic of the ring.                                                 *)

\* The remainder of an index that has wrapped around at most once.
LEMMA ModOnce ==
  ASSUME NEW n \in Nat, n < 2 * Capacity
  PROVE  n % Capacity = IF n < Capacity THEN n ELSE n - Capacity
<1>1. Capacity \in Nat /\ Capacity > 0
  BY RingAssumption
<1>2. CASE n < Capacity
  BY <1>1, <1>2
<1>3. CASE n >= Capacity
  BY <1>1, <1>3
<1> QED
  BY <1>1, <1>2, <1>3

\* A cell reached from a cell by at most Capacity places is a cell.
LEMMA CellType ==
  ASSUME NEW h \in Cell, NEW i \in 0..Capacity
  PROVE  (h + i) % Capacity \in Cell
<1>1. Capacity \in Nat /\ Capacity > 0 /\ h + i \in Nat /\ h + i < 2 * Capacity
  BY RingAssumption DEF Cell
<1> QED
  BY <1>1, ModOnce DEF Cell

\* Different places within one round are different cells: a push writes no cell
\* in use.
LEMMA CellsDiffer ==
  ASSUME NEW h \in Cell, NEW i \in 0..(Capacity - 1), NEW j \in 0..(Capacity - 1), i # j
  PROVE  (h + i) % Capacity # (h + j) % Capacity
<1>1. /\ Capacity \in Nat /\ Capacity > 0 /\ h \in Nat /\ h < Capacity
      /\ h + i \in Nat /\ h + i < 2 * Capacity
      /\ h + j \in Nat /\ h + j < 2 * Capacity
  BY RingAssumption DEF Cell
<1>2. /\ (h + i) % Capacity = IF h + i < Capacity THEN h + i ELSE h + i - Capacity
      /\ (h + j) % Capacity = IF h + j < Capacity THEN h + j ELSE h + j - Capacity
  BY <1>1, ModOnce
<1> QED
  BY <1>1, <1>2

\* Advancing the head by one and then going i places is going i + 1 places.
LEMMA CellShift ==
  ASSUME NEW h \in Cell, NEW i \in 0..(Capacity - 1)
  PROVE  (((h + 1) % Capacity) + i) % Capacity = (h + (i + 1)) % Capacity
<1>1. /\ Capacity \in Nat /\ Capacity > 0 /\ h \in Nat /\ h < Capacity
      /\ h + (i + 1) \in Nat /\ h + (i + 1) < 2 * Capacity
  BY RingAssumption DEF Cell
<1>2. h + 1 \in Nat /\ h + 1 < 2 * Capacity
  BY <1>1
<1>3. (h + 1) % Capacity = IF h + 1 < Capacity THEN h + 1 ELSE h + 1 - Capacity
  BY <1>1, <1>2, ModOnce
<1>4. (h + (i + 1)) % Capacity
        = IF h + (i + 1) < Capacity THEN h + (i + 1) ELSE h + (i + 1) - Capacity
  BY <1>1, ModOnce
<1>5. CASE h + 1 < Capacity
  BY <1>1, <1>3, <1>5
<1>6. CASE h + 1 >= Capacity
  <2>1. (h + 1) % Capacity = 0 /\ h + 1 = Capacity
    BY <1>1, <1>3, <1>6
  <2>2. i % Capacity = i
    BY <1>1
  <2>3. (h + (i + 1)) % Capacity = i
    BY <1>1, <1>4, <2>1
  <2> QED
    BY <1>1, <2>1, <2>2, <2>3
<1> QED
  BY <1>1, <1>5, <1>6

\* A place of the ring is its own remainder.
LEMMA CellSelf ==
  ASSUME NEW h \in Cell
  PROVE  (h + 0) % Capacity = h
  BY RingAssumption, ModOnce DEF Cell

-----------------------------------------------------------------------------
(* The invariant.                                                          *)

\* The empty ring satisfies the invariant.
LEMMA InitIInv == Init => IInv
<1> SUFFICES ASSUME Init PROVE IInv
  OBVIOUS
<1>1. Capacity \in Nat /\ Capacity > 0 /\ PipeSize \in Nat /\ MaxCalls \in Nat
  BY RingAssumption
<1>2. TypeOK
  BY <1>1 DEF Init, TypeOK, Cell
<1>3. Filled /\ NoMissedWake
  BY <1>1 DEF Init, Filled, NoMissedWake
<1> QED
  BY <1>2, <1>3 DEF IInv

\* Steps that touch neither the cells nor the places in use keep Filled.
LEMMA FilledUnchanged ==
  ASSUME Filled, UNCHANGED <<buffer, head, count>>
  PROVE  Filled'
  BY DEF Filled, CellAt

\* A push writes the first free cell and owes its wake byte.
LEMMA PushKeeps ==
  ASSUME IInv, NEW p \in Producer, NEW x \in Item, NEW r \in Reserve, Push(p, x, r)
  PROVE  IInv'
<1>1. /\ Capacity \in Nat /\ Capacity > 0 /\ r \in Nat
      /\ count \in Nat /\ count < Capacity /\ head \in Cell
  BY RingAssumption DEF IInv, TypeOK, Push, Admits
<1>2. CellAt(count) \in Cell
  BY <1>1, CellType DEF CellAt
<1>3. TypeOK'
  BY <1>1, <1>2, RingAssumption DEF IInv, TypeOK, Push, Cell
<1>4. Filled'
  <2> SUFFICES ASSUME NEW i \in 0..(Capacity - 1), i < count + 1
               PROVE  buffer'[(head + i) % Capacity] \in Item
    BY DEF Filled, CellAt, Push
  <2>1. buffer' = [buffer EXCEPT ![(head + count) % Capacity] = x]
    BY DEF Push, CellAt
  <2>2. CASE i = count
    BY <1>2, <2>1, <2>2 DEF IInv, TypeOK, CellAt
  <2>3. CASE i < count
    <3>1. (head + i) % Capacity # (head + count) % Capacity
      BY <1>1, <2>3, CellsDiffer
    <3>2. (head + i) % Capacity \in Cell
      BY <1>1, CellType
    <3>3. buffer[(head + i) % Capacity] \in Item
      BY <2>3 DEF IInv, Filled, CellAt
    <3> QED
      BY <2>1, <3>1, <3>2, <3>3 DEF IInv, TypeOK
  <2> QED
    BY <1>1, <2>2, <2>3
<1>5. NoMissedWake'
  BY DEF Push, NoMissedWake
<1> QED
  BY <1>3, <1>4, <1>5 DEF IInv

\* A pop empties the head's cell and moves the head.
LEMMA PopKeeps ==
  ASSUME IInv, Pop
  PROVE  IInv'
<1>1. /\ Capacity \in Nat /\ Capacity > 0
      /\ count \in Nat /\ count > 0 /\ count <= Capacity /\ head \in Cell
  BY RingAssumption DEF IInv, TypeOK, Pop
<1>2. CellAt(1) \in Cell
  BY <1>1, CellType DEF CellAt
<1>3. buffer[head] \in Item
  <2>1. 0 \in 0..(Capacity - 1) /\ 0 < count
    BY <1>1
  <2>2. buffer[(head + 0) % Capacity] \in Item
    BY <2>1 DEF IInv, Filled, CellAt
  <2> QED
    BY <1>1, <2>2, CellSelf
<1>4. popped' \in Seq(Item)
  BY <1>3, AppendProperties DEF IInv, TypeOK, Pop
<1>5. TypeOK'
  BY <1>1, <1>2, <1>4, RingAssumption DEF IInv, TypeOK, Pop
<1>6. Filled'
  <2> SUFFICES ASSUME NEW i \in 0..(Capacity - 1), i < count - 1
               PROVE  buffer'[(((head + 1) % Capacity) + i) % Capacity] \in Item
    BY DEF Filled, CellAt, Pop
  <2>1. (((head + 1) % Capacity) + i) % Capacity = (head + (i + 1)) % Capacity
    BY <1>1, CellShift
  <2>2. i + 1 \in 0..(Capacity - 1) /\ i + 1 < count /\ i + 1 # 0 /\ 0 \in 0..(Capacity - 1)
    BY <1>1
  <2>3. buffer[(head + (i + 1)) % Capacity] \in Item
    BY <2>2 DEF IInv, Filled, CellAt
  <2>4. (head + (i + 1)) % Capacity # head
    <3>1. (head + (i + 1)) % Capacity # (head + 0) % Capacity
      BY <1>1, <2>2, CellsDiffer
    <3> QED
      BY <1>1, <3>1, CellSelf
  <2>5. (head + (i + 1)) % Capacity \in Cell
    BY <1>1, <2>2, CellType
  <2> QED
    BY <2>1, <2>3, <2>4, <2>5 DEF IInv, TypeOK, Pop
<1>7. NoMissedWake'
  BY DEF Pop, NoMissedWake
<1> QED
  BY <1>5, <1>6, <1>7 DEF IInv

\* The other steps leave the ring alone and touch the pipe and the consumer.
LEMMA WakesKeep ==
  ASSUME IInv,
         \/ \E p \in Producer : WakeAfterPush(p)
         \/ Wake \/ PollTimesOut \/ PollReturns \/ Drain \/ PopEmpty
         \/ UNCHANGED vars
  PROVE  IInv'
<1>1. UNCHANGED <<buffer, head, count>>
  BY DEF WakeAfterPush, Wake, PollTimesOut, PollReturns, Drain, PopEmpty, vars
<1>2. Filled'
  BY <1>1, FilledUnchanged DEF IInv
<1>3. /\ PipeSize \in Nat /\ PipeSize > 0 /\ ReadSize \in Nat /\ ReadSize > 0
      /\ MaxCalls \in Nat /\ pipe \in 0..PipeSize /\ count \in Nat
  BY RingAssumption DEF IInv, TypeOK
<1>4. CASE \E p \in Producer : WakeAfterPush(p)
  BY <1>1, <1>2, <1>3, <1>4 DEF IInv, TypeOK, NoMissedWake, WakeAfterPush, WriteByte
<1>5. CASE Wake
  BY <1>1, <1>2, <1>3, <1>5 DEF IInv, TypeOK, NoMissedWake, Wake, WriteByte
<1>6. CASE PollTimesOut \/ PollReturns
  BY <1>1, <1>2, <1>3, <1>6 DEF IInv, TypeOK, NoMissedWake, PollTimesOut, PollReturns
<1>7. CASE Drain
  BY <1>1, <1>2, <1>3, <1>7 DEF IInv, TypeOK, NoMissedWake, Drain
<1>8. CASE PopEmpty
  BY <1>1, <1>2, <1>3, <1>8 DEF IInv, TypeOK, NoMissedWake, PopEmpty
<1>9. CASE UNCHANGED vars
  BY <1>1, <1>2, <1>3, <1>9 DEF IInv, TypeOK, NoMissedWake, vars
<1> QED
  BY <1>4, <1>5, <1>6, <1>7, <1>8, <1>9

\* Every reachable state satisfies the invariant.
THEOREM InductiveInvariant == Spec => []IInv
<1>1. IInv /\ [Next]_vars => IInv'
  <2> SUFFICES ASSUME IInv, [Next]_vars PROVE IInv'
    OBVIOUS
  <2>1. CASE \E p \in Producer, x \in Item, r \in Reserve : Push(p, x, r)
    BY <2>1, PushKeeps
  <2>2. CASE Pop
    BY <2>2, PopKeeps
  <2> QED
    BY <2>1, <2>2, WakesKeep DEF Next, Consumer
<1> QED
  BY <1>1, InitIInv, PTL DEF Spec

\* pipe_ring.c keeps its indices in range: the count never exceeds the capacity
\* whatever reserves the pushes leave, and only items are popped.
THEOREM TypeCorrect == Spec => []TypeOK
<1>1. IInv => TypeOK
  BY DEF IInv
<1> QED
  BY <1>1, InductiveInvariant, PTL

\* The consumer never sleeps on an item, for any number of producers and any
\* size of the wake pipe.
THEOREM WakesNotMissed == Spec => []NoMissedWake
<1>1. IInv => NoMissedWake
  BY DEF IInv
<1> QED
  BY <1>1, InductiveInvariant, PTL

-----------------------------------------------------------------------------
(* The refinement.                                                         *)

\* The items of n places from the cell h on are a sequence.
LEMMA RingSeq ==
  ASSUME NEW b, NEW h \in Cell, NEW n \in 0..Capacity,
         \A i \in 0..(Capacity - 1) : i < n => b[(h + i) % Capacity] \in Item,
         NEW s, s = [i \in 1..n |-> b[(h + (i - 1)) % Capacity]]
  PROVE  /\ s \in Seq(Item)
         /\ Len(s) = n
         /\ \A i \in 1..n : s[i] = b[(h + (i - 1)) % Capacity]
<1>1. Capacity \in Nat /\ Capacity > 0 /\ n \in Nat /\ n <= Capacity
  BY RingAssumption
<1>2. \A i \in 1..n : b[(h + (i - 1)) % Capacity] \in Item
  <2> SUFFICES ASSUME NEW i \in 1..n
               PROVE  b[(h + (i - 1)) % Capacity] \in Item
    OBVIOUS
  <2>1. i - 1 \in 0..(Capacity - 1) /\ i - 1 < n
    BY <1>1
  <2> QED
    BY <2>1
<1>3. s \in [1..n -> Item]
  BY <1>2
<1> QED
  BY <1>1, <1>3

\* The contents of the ring, before and after a step.
LEMMA ContentsSeq ==
  ASSUME IInv
  PROVE  /\ Contents \in Seq(Item)
         /\ Len(Contents) = count
         /\ \A i \in 1..count : Contents[i] = buffer[(head + (i - 1)) % Capacity]
<1>1. \A i \in 0..(Capacity - 1) : i < count => buffer[(head + i) % Capacity] \in Item
  BY DEF IInv, Filled, CellAt
<1>2. head \in Cell /\ count \in 0..Capacity
  BY DEF IInv, TypeOK
<1>3. Contents = [i \in 1..count |-> buffer[(head + (i - 1)) % Capacity]]
  BY DEF Contents, CellAt
<1> QED
  BY <1>1, <1>2, <1>3, RingSeq

\* The same in the next state.
LEMMA ContentsSeqNext ==
  ASSUME IInv'
  PROVE  /\ Contents' \in Seq(Item)
         /\ Len(Contents') = count'
         /\ \A i \in 1..count' : Contents'[i] = buffer'[(head' + (i - 1)) % Capacity]
<1>1. \A i \in 0..(Capacity - 1) : i < count' => buffer'[(head' + i) % Capacity] \in Item
  BY DEF IInv, Filled, CellAt
<1>2. head' \in Cell /\ count' \in 0..Capacity
  BY DEF IInv, TypeOK, Cell
<1>3. Contents' = [i \in 1..count' |-> buffer'[(head' + (i - 1)) % Capacity]]
  BY DEF Contents, CellAt
<1> QED
  BY <1>1, <1>2, <1>3, RingSeq

\* The empty ring is the empty queue.
LEMMA InitRefines ==
  ASSUME Init
  PROVE  Abstract!FifoInit
<1>1. IInv
  BY InitIInv
<1>2. Contents \in Seq(Item) /\ Len(Contents) = 0
  BY <1>1, ContentsSeq DEF Init
<1>3. Contents = <<>>
  BY <1>2, EmptySeq
<1> QED
  BY <1>3 DEF Init, Abstract!FifoInit

\* A push is a Put.
LEMMA PushRefines ==
  ASSUME IInv, IInv', NEW p \in Producer, NEW x \in Item, NEW r \in Reserve, Push(p, x, r)
  PROVE  Abstract!Put(x)
<1>1. /\ Capacity \in Nat /\ Capacity > 0 /\ r \in Nat
      /\ count \in Nat /\ count < Capacity /\ head \in Cell
      /\ count' = count + 1 /\ head' = head
      /\ buffer' = [buffer EXCEPT ![(head + count) % Capacity] = x]
      /\ buffer \in [Cell -> Item \cup {NoItem}]
  BY RingAssumption DEF IInv, TypeOK, Push, Admits, CellAt
<1>2. /\ Contents \in Seq(Item) /\ Len(Contents) = count
      /\ \A i \in 1..count : Contents[i] = buffer[(head + (i - 1)) % Capacity]
  BY ContentsSeq
<1>3. /\ Contents' \in Seq(Item) /\ Len(Contents') = count'
      /\ \A i \in 1..count' : Contents'[i] = buffer'[(head' + (i - 1)) % Capacity]
  BY ContentsSeqNext
<1>4. (head + count) % Capacity \in Cell
  BY <1>1, CellType
<1>5. ASSUME NEW i \in 1..(count + 1)
      PROVE  Contents'[i] = Append(Contents, x)[i]
  <2>1. Contents'[i] = buffer'[(head + (i - 1)) % Capacity]
    BY <1>1, <1>3
  <2>2. CASE i = count + 1
    <3>1. i - 1 = count
      BY <1>1, <2>2
    <3>2. Append(Contents, x)[i] = x
      BY <1>2, <2>2, AppendProperties
    <3> QED
      BY <1>1, <1>4, <2>1, <3>1, <3>2
  <2>3. CASE i \in 1..count
    <3>1. i - 1 \in 0..(Capacity - 1) /\ count \in 0..(Capacity - 1) /\ i - 1 # count
      BY <1>1, <2>3
    <3>2. (head + (i - 1)) % Capacity # (head + count) % Capacity
      BY <1>1, <3>1, CellsDiffer
    <3>3. i - 1 \in 0..Capacity
      BY <1>1, <3>1
    <3>4. (head + (i - 1)) % Capacity \in Cell
      BY <1>1, <3>3, CellType
    <3>5. buffer'[(head + (i - 1)) % Capacity] = buffer[(head + (i - 1)) % Capacity]
      BY <1>1, <3>2, <3>4
    <3>6. Append(Contents, x)[i] = Contents[i]
      BY <1>2, <2>3, AppendProperties
    <3> QED
      BY <1>2, <2>1, <2>3, <3>5, <3>6
  <2>4. i = count + 1 \/ i \in 1..count
    BY <1>1
  <2> QED
    BY <2>2, <2>3, <2>4
<1>6. Contents' = Append(Contents, x)
  <2>1. /\ Append(Contents, x) \in Seq(Item)
        /\ Len(Append(Contents, x)) = count + 1
    BY <1>2, AppendProperties
  <2> QED
    BY <1>1, <1>3, <1>5, <2>1, SeqEqual
<1> QED
  BY <1>1, <1>2, <1>6 DEF Push, Abstract!Put

\* A pop is a Take.
LEMMA PopRefines ==
  ASSUME IInv, IInv', Pop
  PROVE  Abstract!Take
<1>1. /\ Capacity \in Nat /\ Capacity > 0
      /\ count \in Nat /\ count > 0 /\ count <= Capacity /\ head \in Cell
      /\ count' = count - 1 /\ head' = (head + 1) % Capacity
      /\ buffer' = [buffer EXCEPT ![head] = NoItem]
      /\ buffer \in [Cell -> Item \cup {NoItem}]
  BY RingAssumption DEF IInv, TypeOK, Pop, CellAt
<1>2. /\ Contents \in Seq(Item) /\ Len(Contents) = count
      /\ \A i \in 1..count : Contents[i] = buffer[(head + (i - 1)) % Capacity]
  BY ContentsSeq
<1>3. /\ Contents' \in Seq(Item) /\ Len(Contents') = count'
      /\ \A i \in 1..count' : Contents'[i] = buffer'[(head' + (i - 1)) % Capacity]
  BY ContentsSeqNext
<1>4. Contents # <<>>
  BY <1>1, <1>2
<1>5. /\ Tail(Contents) \in Seq(Item)
      /\ Len(Tail(Contents)) = count - 1
      /\ \A i \in 1..(count - 1) : Tail(Contents)[i] = Contents[i + 1]
  BY <1>1, <1>2, <1>4, HeadTailProperties
<1>6. ASSUME NEW i \in 1..(count - 1)
      PROVE  Contents'[i] = Tail(Contents)[i]
  <2>1. i - 1 \in 0..(Capacity - 1) /\ i \in 0..(Capacity - 1) /\ i # 0
        /\ 0 \in 0..(Capacity - 1) /\ i \in 0..Capacity /\ (i - 1) + 1 = i
        /\ i + 1 \in 1..count /\ (i + 1) - 1 = i
    BY <1>1
  <2>2. Contents'[i] = buffer'[(head' + (i - 1)) % Capacity]
    BY <1>1, <1>3
  <2>3. (((head + 1) % Capacity) + (i - 1)) % Capacity = (head + i) % Capacity
    <3>1. (((head + 1) % Capacity) + (i - 1)) % Capacity = (head + ((i - 1) + 1)) % Capacity
      BY <1>1, <2>1, CellShift
    <3> QED
      BY <2>1, <3>1
  <2>4. (head + i) % Capacity \in Cell
    BY <1>1, <2>1, CellType
  <2>5. (head + i) % Capacity # head
    <3>1. (head + i) % Capacity # (head + 0) % Capacity
      BY <1>1, <2>1, CellsDiffer
    <3> QED
      BY <1>1, <3>1, CellSelf
  <2>6. Contents[i + 1] = buffer[(head + i) % Capacity]
    BY <1>2, <2>1
  <2> QED
    BY <1>1, <1>5, <2>2, <2>3, <2>4, <2>5, <2>6
<1>7. Contents' = Tail(Contents)
  BY <1>1, <1>3, <1>5, <1>6, SeqEqual
<1>8. Head(Contents) = buffer[head]
  <2>1. Contents[1] = buffer[(head + 0) % Capacity]
    BY <1>1, <1>2
  <2>2. Head(Contents) = Contents[1]
    BY <1>2, <1>4
  <2> QED
    BY <1>1, <2>1, <2>2, CellSelf
<1> QED
  BY <1>4, <1>7, <1>8 DEF Pop, Abstract!Take

\* pipe_ring.c implements the bounded FIFO: for any capacity, reserves and
\* producers, items are handed out once, whole and in order, and an admitted item
\* overwrites none.
THEOREM RingRefinesFifo == Spec => ImplementsFifo
<1>1. Init => Abstract!FifoInit
  BY InitRefines
<1>2. IInv /\ IInv' /\ [Next]_vars => [Abstract!FifoNext]_(Abstract!fifoVars)
  <2> SUFFICES ASSUME IInv, IInv', [Next]_vars
               PROVE  [Abstract!FifoNext]_(Abstract!fifoVars)
    OBVIOUS
  <2>1. CASE \E p \in Producer, x \in Item, r \in Reserve : Push(p, x, r)
    BY <2>1, PushRefines DEF Abstract!FifoNext
  <2>2. CASE Pop
    BY <2>2, PopRefines DEF Abstract!FifoNext
  <2>3. CASE UNCHANGED <<buffer, head, count, popped>>
    BY <2>3 DEF Abstract!fifoVars, Contents, CellAt
  <2> QED
    BY <2>1, <2>2, <2>3 DEF Next, Consumer, WakeAfterPush, Wake, PollTimesOut,
       PollReturns, Drain, PopEmpty, vars
<1> QED
  BY <1>1, <1>2, InductiveInvariant, PTL DEF Spec, ImplementsFifo, Abstract!FifoSpec

=============================================================================
