--------------------------- MODULE HookLaneProofs ---------------------------
(***************************************************************************)
(* Proofs about HookLane, for every set of clients, number of events, size *)
(* of the queues, number of disturbances and strikes.                      *)
(*                                                                         *)
(* The invariant follows an event through its life: queued, no thread has  *)
(* a trace of it (Untraced); taken by the lane, it is untouched by every   *)
(* subscriber still to be called (Untouched); called, its answer is in one *)
(* place at a time: with the client, held, in the slot or decided.         *)
(***************************************************************************)
EXTENDS HookLane, SequenceTheorems, FiniteSetTheorems, WellFoundedInduction, TLAPS

-----------------------------------------------------------------------------
(* The inductive invariant                                                 *)

VerdictSet == {"pass", "block", "modify"}
DecisionSet == [event : Event, client : Clients, verdict : VerdictSet]

\* The types of the variables.
TypeOK ==
  /\ conn \in [Clients -> {"up", "closed", "struck", "late", "seat", "slot", "refused",
                           "revoked"}]
  /\ order \in Seq(Clients)
  /\ quarantined \in [Clients -> BOOLEAN]
 
  /\ failures \in Seq(Clients)
  /\ stalled \in [Clients -> BOOLEAN]
  /\ expired \in [Clients -> Event \cup {0}]
  /\ pending \in [Clients -> Seq(Event)]
  /\ held \in DecisionSet \cup {NoDecision}
  /\ slot \in DecisionSet \cup {NoDecision}
  /\ queue \in Seq([event : Event, subs : Seq(Clients)])
  /\ nextEvent \in Nat \ {0}
  /\ kind \in [Event -> {"none", "key", "motion"}]
  /\ cancelled \in SUBSET Event
  /\ foreign \in SUBSET Event
  /\ pc \in {"idle", "next", "turn", "send", "wait", "expired", "retired", "finish"}
  /\ cur \in Event \cup {0}
  /\ subs \in Seq(Clients)
  /\ responder \in Clients \cup {None}
  /\ verdict \in VerdictSet
  /\ decider \in Clients \cup {None}
  /\ given \in [Clients -> [Event -> VerdictSet \cup {"none"}]]
  /\ fate \in [Event -> {"none", "queued", "passed", "blocked", "modified", "lost",
                         "dropped"}]

\* The lane calls the first of the subscribers it still has.
Calling == pc \in {"turn", "send", "wait", "expired", "retired"}
LaneShape ==
  /\ pc = "idle" <=> cur = 0
  /\ Calling => subs # <<>>
  /\ responder = (IF pc \in {"send", "wait", "expired"} THEN Head(subs) ELSE None)

\* No client is subscribed twice, nor called twice for an event.
Distinct(s) == \A i, j \in 1..Len(s) : s[i] = s[j] => i = j
NoneTwice ==
  /\ Distinct(order)
  /\ Distinct(subs)
  /\ \A i \in 1..Len(queue) : Distinct(queue[i].subs)

\* The lane takes the events in the order of their ids, the order of arrival.
EventOrder ==
  /\ \A i \in 1..Len(queue) : /\ queue[i].event < nextEvent
                              /\ cur < queue[i].event
                              /\ fate[queue[i].event] = "queued"
  /\ \A i, j \in 1..Len(queue) : i < j => queue[i].event < queue[j].event
  /\ cur < nextEvent
  /\ cur # 0 => fate[cur] = "queued"
  /\ \A e \in Event :
       /\ fate[e] = "queued" => e = cur \/ \E i \in 1..Len(queue) : queue[i].event = e
       /\ e >= nextEvent => fate[e] = "none"

\* No key transition has left ahead of one still in flight.
KeysInOrder ==
  \A e, later \in Event :
    fate[e] = "queued" /\ later > e /\ kind[later] = "key" => fate[later] # "passed"

\* An event not yet taken by the lane has been seen by nobody.
InPending(c, e) == \E i \in 1..Len(pending[c]) : pending[c][i] = e
Traced(e) ==
  \/ held.event = e
  \/ slot.event = e
  \/ \E c \in Clients : expired[c] = e \/ InPending(c, e)
Untraced ==
  \A e \in Event :
    e >= nextEvent \/ (\E i \in 1..Len(queue) : queue[i].event = e) => ~Traced(e)

\* Client c has not been called for the lane's event.
Untouched(c) ==
  /\ expired[c] # cur
  /\ ~InPending(c, cur)
  /\ ~(held.event = cur /\ held.client = c)
  /\ ~(slot.event = cur /\ slot.client = c)
StillToCall ==
  /\ pc \in {"next", "turn", "send"} => \A i \in 1..Len(subs) : Untouched(subs[i])
  /\ pc \in {"wait", "expired", "retired"} =>
       \A i \in 1..Len(subs) : i > 1 => Untouched(subs[i])
  /\ pc = "wait" => expired[Head(subs)] # cur
  /\ pc = "expired" => expired[Head(subs)] = cur

\* An answer under way is in one place, and is the one the client gave.
Underway(d) ==
  d # NoDecision /\ fate[d.event] = "queued" =>
    /\ ~InPending(d.client, d.event)
    /\ d.verdict # "pass" => given[d.client][d.event] = d.verdict
OneAnswer ==
  /\ Underway(held)
  /\ Underway(slot)
  /\ verdict # "pass" =>
       /\ pc = "finish"
       /\ decider # None
       /\ expired[decider] # cur
       /\ given[decider][cur] = verdict
       /\ ~InPending(decider, cur)

\* Callbacks are delivered in the order of their events; the last one is the
\* lane's question or the one it gave up last.
Last(c) == pending[c][Len(pending[c])]
PendingOf(c) ==
  /\ \A i, j \in 1..Len(pending[c]) : i < j => pending[c][i] < pending[c][j]
  /\ \A i \in 1..Len(pending[c]) : pending[c][i] < nextEvent
  /\ \A i \in 1..Len(pending[c]), j \in 1..Len(queue) : pending[c][i] < queue[j].event
  /\ pc # "idle" => \A i \in 1..Len(pending[c]) : pending[c][i] <= cur
  /\ pending[c] # <<>> =>
       /\ (cur = Last(c) /\ responder = c) \/ expired[c] = Last(c)
       /\ pc \in {"wait", "expired"} /\ Head(subs) = c => Last(c) = cur
PendingOrder == \A c \in Clients : PendingOf(c)

IInv ==
  /\ TypeOK
  /\ LaneShape
  /\ NoneTwice
  /\ EventOrder
  /\ KeysInOrder
  /\ Untraced
  /\ StillToCall
  /\ OneAnswer
  /\ PendingOrder
-----------------------------------------------------------------------------
(* Lemmas about sequences and sorting                                      *)

\* Induction on the naturals, for a set.
LEMMA SetInduction ==
  ASSUME NEW T, T \subseteq Nat, 0 \in T, \A n \in T : n + 1 \in T
  PROVE  T = Nat
<1> SUFFICES ASSUME Nat \ T # {} PROVE FALSE
  OBVIOUS
<1>1. PICK x \in Nat \ T : \A y \in Nat \ T : ~(<<y, x>> \in OpToRel(<, Nat))
  BY NatLessThanWellFounded, WFMin
<1>2. \A y \in Nat \ T : ~(y < x)
  BY <1>1 DEF OpToRel
<1>3. x # 0 /\ x - 1 \in Nat /\ x - 1 < x
  OBVIOUS
<1>4. x - 1 \in T
  BY <1>2, <1>3
<1> QED
  BY <1>4

\* Each subscriber has one place in the order.
LEMMA PositionProps ==
  ASSUME order \in Seq(Clients), Distinct(order), NEW c \in Subscribers
  PROVE  /\ Position(c) \in 1..Len(order)
         /\ order[Position(c)] = c
         /\ \A i \in 1..Len(order) : order[i] = c => i = Position(c)
<1>1. \E i \in 1..Len(order) : order[i] = c
  BY DEF Subscribers
<1>2. Position(c) \in 1..Len(order) /\ order[Position(c)] = c
  BY <1>1 DEF Position
<1> QED
  BY <1>2 DEF Distinct

\* The candidates of an event can be sorted, and sorting lists nobody twice.
LEMMA SortedProps ==
  ASSUME order \in Seq(Clients), Distinct(order), NEW S \in SUBSET Subscribers
  PROVE  Sorted(S) \in Seq(Clients) /\ Distinct(Sorted(S))
<1> DEFINE Low(n) == {c \in S : Position(c) <= n}
           Increasing(s, k) == \A i, j \in 1..k : i < j => Position(s[i]) < Position(s[j])
           T == {n \in Nat : /\ IsFiniteSet(Low(n))
                            /\ \E s \in [1..Cardinality(Low(n)) -> Low(n)] :
                                 Increasing(s, Cardinality(Low(n)))}
<1>0. \A c \in S : /\ Position(c) \in 1..Len(order) /\ order[Position(c)] = c
                   /\ \A d \in S : Position(c) = Position(d) => c = d
  BY PositionProps
<1>1. Len(order) \in Nat
  BY LenProperties
<1>2. 0 \in T
  <2>1. Low(0) = {}
    BY <1>0
  <2>2. IsFiniteSet(Low(0)) /\ Cardinality(Low(0)) = 0
    BY <2>1, FS_EmptySet
  <2>3. [i \in 1..0 |-> i] \in [1..0 -> Low(0)]
    OBVIOUS
  <2>4. Increasing([i \in 1..0 |-> i], 0)
    OBVIOUS
  <2> HIDE DEF Increasing, Low
  <2> QED
    BY <2>2, <2>3, <2>4
<1>3. \A n \in T : n + 1 \in T
  <2> SUFFICES ASSUME NEW n \in T PROVE n + 1 \in T
    OBVIOUS
  <2> DEFINE k == Cardinality(Low(n))
  <2>1. n \in Nat /\ IsFiniteSet(Low(n)) /\ k \in Nat
    BY FS_CardinalityType
  <2>2. PICK s \in [1..k -> Low(n)] : Increasing(s, k)
    OBVIOUS
  <2>3. CASE \E c \in S : Position(c) = n + 1
    <3>1. PICK c \in S : Position(c) = n + 1
      BY <2>3
    <3>2. Low(n + 1) = Low(n) \cup {c} /\ c \notin Low(n)
      BY <1>0, <2>1, <3>1
    <3>3. IsFiniteSet(Low(n + 1)) /\ Cardinality(Low(n + 1)) = k + 1
      <4> HIDE DEF Low
      <4> QED
        BY <2>1, <3>2, FS_AddElement
    <3> DEFINE t == [i \in 1..(k + 1) |-> IF i <= k THEN s[i] ELSE c]
    <3>4. t \in [1..(k + 1) -> Low(n + 1)]
      <4> HIDE DEF Low, Increasing
      <4> QED
        BY <2>1, <2>2, <3>2
    <3>5. Increasing(t, k + 1)
      <4> SUFFICES ASSUME NEW i \in 1..(k + 1), NEW j \in 1..(k + 1), i < j
                   PROVE  Position(t[i]) < Position(t[j])
        OBVIOUS
      <4>1. i \in 1..k /\ t[i] = s[i] /\ s[i] \in Low(n)
        <5> HIDE DEF Low, Increasing
        <5> QED
          BY <2>1, <2>2
      <4>2. CASE j <= k
        BY <2>1, <2>2, <4>1, <4>2
      <4>3. CASE j > k
        <5>1. t[j] = c /\ Position(s[i]) <= n /\ s[i] \in S
          BY <2>1, <4>1, <4>3
        <5>2. Position(s[i]) \in Int
          BY <1>0, <1>1, <5>1
        <5> QED
          BY <2>1, <3>1, <4>1, <5>1, <5>2
      <4> QED
        BY <2>1, <4>2, <4>3
    <3> HIDE DEF Low, Increasing, t
    <3> QED
      BY <2>1, <3>3, <3>4, <3>5
  <2>4. CASE ~\E c \in S : Position(c) = n + 1
    <3>1. Low(n + 1) = Low(n)
      <4>1. \A c \in S : Position(c) \in Int
        BY <1>0, <1>1
      <4> QED
        BY <2>1, <2>4, <4>1
    <3> HIDE DEF Low, Increasing
    <3> QED
      BY <2>1, <3>1
  <2> QED
    BY <2>3, <2>4
<1>4. T = Nat
  <2> HIDE DEF Low, Increasing
  <2>1. T \subseteq Nat
    OBVIOUS
  <2> HIDE DEF T
  <2> QED
    BY <1>2, <1>3, <2>1, SetInduction
<1>5. Low(Len(order)) = S
  BY <1>0, <1>1
<1> DEFINE k == Cardinality(S)
<1>6. /\ IsFiniteSet(S)
      /\ \E s \in [1..k -> S] : Increasing(s, k)
  <2> HIDE DEF Low, Increasing
  <2>1. Len(order) \in T
    BY <1>1, <1>4
  <2> QED
    BY <1>5, <2>1
<1>7. Sorted(S) \in [1..k -> S] /\ Increasing(Sorted(S), k)
  BY <1>6 DEF Sorted
<1>8. k \in Nat
  BY <1>6, FS_CardinalityType
<1>9. S \subseteq Clients
  BY <1>1, ElementOfSeq DEF Subscribers
<1>10. Sorted(S) \in Seq(Clients) /\ Len(Sorted(S)) = k
  <2>1. Sorted(S) \in [1..k -> Clients]
    BY <1>7, <1>9
  <2> QED
    BY <1>8, <2>1
<1>11. Distinct(Sorted(S))
  <2> SUFFICES ASSUME NEW i \in 1..k, NEW j \in 1..k, i < j
               PROVE  Sorted(S)[i] # Sorted(S)[j]
    BY <1>8, <1>10 DEF Distinct
  <2>1. Sorted(S)[i] \in S /\ Position(Sorted(S)[i]) < Position(Sorted(S)[j])
    BY <1>7
  <2>2. Position(Sorted(S)[i]) \in Int
    BY <1>0, <1>1, <2>1
  <2> QED
    BY <2>1, <2>2
<1> QED
  BY <1>10, <1>11
-----------------------------------------------------------------------------
(* What a step must leave alone to keep each part of the invariant         *)

\* Each part of the invariant depends on a few of the variables.
LEMMA Frames ==
  ASSUME IInv
  PROVE  /\ UNCHANGED <<pc, cur, subs, responder>> => LaneShape'
         /\ UNCHANGED <<order, subs, queue>> => NoneTwice'
         /\ UNCHANGED <<queue, nextEvent, cur, fate>> => EventOrder'
         /\ UNCHANGED <<fate, kind>> => KeysInOrder'
         /\ UNCHANGED <<nextEvent, queue, held, slot, expired, pending>> => Untraced'
         /\ UNCHANGED <<pc, subs, cur, expired, pending, held, slot>> => StillToCall'
         /\ UNCHANGED <<held, slot, fate, pending, given, verdict, pc, decider, expired, cur>>
              => OneAnswer'
         /\ UNCHANGED <<pending, nextEvent, queue, pc, cur, responder, expired, subs>>
              => PendingOrder'
<1>1. UNCHANGED <<pc, cur, subs, responder>> => LaneShape'
  BY DEF IInv, LaneShape, Calling
<1>2. UNCHANGED <<order, subs, queue>> => NoneTwice'
  BY DEF IInv, NoneTwice
<1>4. UNCHANGED <<queue, nextEvent, cur, fate>> => EventOrder'
  BY DEF IInv, EventOrder
<1>5. UNCHANGED <<fate, kind>> => KeysInOrder'
  BY DEF IInv, KeysInOrder
<1>6. UNCHANGED <<nextEvent, queue, held, slot, expired, pending>> => Untraced'
  BY DEF IInv, Untraced, Traced, InPending
<1>7. UNCHANGED <<pc, subs, cur, expired, pending, held, slot>> => StillToCall'
  BY DEF IInv, StillToCall, Untouched, InPending
<1>8. UNCHANGED <<held, slot, fate, pending, given, verdict, pc, decider, expired, cur>>
        => OneAnswer'
  BY DEF IInv, OneAnswer, Underway, InPending
<1>9. UNCHANGED <<pending, nextEvent, queue, pc, cur, responder, expired, subs>> => PendingOrder'
  BY DEF IInv, PendingOrder, PendingOf, Last
<1> QED
  BY <1>1, <1>2, <1>4, <1>5, <1>6, <1>7, <1>8, <1>9

\* Types of what the steps look up.
LEMMA Lookups ==
  ASSUME TypeOK
  PROVE  /\ subs # <<>> => /\ Head(subs) = subs[1] /\ Head(subs) \in Clients
                            /\ Len(subs) \in Nat \ {0} /\ Tail(subs) \in Seq(Clients)
                            /\ Len(Tail(subs)) = Len(subs) - 1
                            /\ \A i \in 1..(Len(subs) - 1) : Tail(subs)[i] = subs[i + 1]
         /\ Len(subs) \in Nat
         /\ \A i \in 1..Len(subs) : subs[i] \in Clients
         /\ Len(queue) \in Nat
         /\ \A i \in 1..Len(queue) : queue[i].event \in Event /\ queue[i].subs \in Seq(Clients)
         /\ \A c \in Clients : /\ Len(pending[c]) \in Nat
                               /\ \A i \in 1..Len(pending[c]) : pending[c][i] \in Event
         /\ Len(failures) \in Nat
         /\ \A i \in 1..Len(failures) : failures[i] \in Clients
         /\ Event \subseteq Nat \ {0}
<1>1. subs \in Seq(Clients) /\ failures \in Seq(Clients)
      /\ queue \in Seq([event : Event, subs : Seq(Clients)])
      /\ pending \in [Clients -> Seq(Event)]
  BY DEF TypeOK
<1>2. Len(subs) \in Nat /\ Len(queue) \in Nat /\ Len(failures) \in Nat
  BY <1>1, LenProperties
<1>3. subs # <<>> => /\ Head(subs) = subs[1] /\ Head(subs) \in Clients
                     /\ Len(subs) \in Nat \ {0} /\ Tail(subs) \in Seq(Clients)
                     /\ Len(Tail(subs)) = Len(subs) - 1
                     /\ \A i \in 1..(Len(subs) - 1) : Tail(subs)[i] = subs[i + 1]
  BY <1>1, EmptySeq, HeadTailProperties
<1>4. \A i \in 1..Len(subs) : subs[i] \in Clients
  BY <1>1, ElementOfSeq
<1>5. \A i \in 1..Len(failures) : failures[i] \in Clients
  BY <1>1, ElementOfSeq
<1>6. \A i \in 1..Len(queue) : queue[i].event \in Event /\ queue[i].subs \in Seq(Clients)
  <2> TAKE i \in 1..Len(queue)
  <2>1. queue[i] \in [event : Event, subs : Seq(Clients)]
    BY <1>1, ElementOfSeq
  <2> QED
    BY <2>1
<1>7. \A c \in Clients : /\ Len(pending[c]) \in Nat
                         /\ \A i \in 1..Len(pending[c]) : pending[c][i] \in Event
  <2> TAKE c \in Clients
  <2>1. pending[c] \in Seq(Event)
    BY <1>1
  <2> QED
    BY <2>1, LenProperties, ElementOfSeq
<1>8. Event \subseteq Nat \ {0}
  BY BoundAssumption DEF Event
<1> QED
  BY <1>2, <1>3, <1>4, <1>5, <1>6, <1>7, <1>8

\* A stream is removed: its callbacks are forgotten, its quarantine is over.
LEMMA RemovalProps ==
  ASSUME IInv, NEW c \in Clients, NEW why, why # "up", RemoveClient(c, why)
  PROVE  /\ order' \in Seq(Clients) /\ Distinct(order')
         /\ conn' = [conn EXCEPT ![c] = why] /\ ~Up(c)'
         /\ \A d \in Clients : d # c => (Up(d)' <=> Up(d)) /\ quarantined'[d] = quarantined[d]
         /\ quarantined' = [quarantined EXCEPT ![c] = FALSE]
         /\ pending' \in [Clients -> Seq(Event)]
         /\ \A d \in Clients : pending'[d] = IF d = c THEN <<>> ELSE pending[d]
         /\ \A d \in Clients : \A e : InPending(d, e)' => InPending(d, e)
<1>1. order' = Sorted(Subscribers \ {c}) /\ conn' = [conn EXCEPT ![c] = why]
      /\ pending' = [pending EXCEPT ![c] = <<>>]
      /\ quarantined' = [quarantined EXCEPT ![c] = FALSE]
  BY DEF RemoveClient, Without
<1>2. order \in Seq(Clients) /\ Distinct(order)
  BY DEF IInv, TypeOK, NoneTwice
<1>3. order' \in Seq(Clients) /\ Distinct(order')
  BY <1>1, <1>2, SortedProps
<1>4. /\ ~Up(c)'
      /\ \A d \in Clients : d # c => (Up(d)' <=> Up(d)) /\ quarantined'[d] = quarantined[d]
  BY <1>1 DEF IInv, TypeOK, Up
<1>5. <<>> \in Seq(Event) /\ pending \in [Clients -> Seq(Event)]
  BY EmptySeq DEF IInv, TypeOK
<1>6. /\ pending' \in [Clients -> Seq(Event)]
      /\ \A d \in Clients : pending'[d] = IF d = c THEN <<>> ELSE pending[d]
  BY <1>1, <1>5
<1>7. \A d \in Clients : \A e : InPending(d, e)' => InPending(d, e)
  BY <1>6 DEF InPending
<1> QED
  BY <1>1, <1>3, <1>4, <1>6, <1>7

\* The parts of the invariant that a removal could disturb.
LEMMA RemovalStep ==
  ASSUME IInv, NEW c \in Clients, NEW why, why # "up", RemoveClient(c, why),
         UNCHANGED <<queue, nextEvent, kind, laneVars, fate>>
  PROVE  /\ NoneTwice' /\ LaneShape' /\ EventOrder' /\ KeysInOrder'
         /\ UNCHANGED expired => PendingOrder'
         /\ UNCHANGED <<held, slot, expired>> => Untraced' /\ StillToCall'
         /\ UNCHANGED <<held, slot, expired, given>> => OneAnswer'
<1>1. UNCHANGED <<queue, nextEvent, kind, pc, cur, subs, responder, verdict,
                  decider, fate>>
  BY DEF laneVars
<1>2. /\ Distinct(order') /\ ~Up(c)'
      /\ \A d \in Clients : d # c => (Up(d)' <=> Up(d)) /\ quarantined'[d] = quarantined[d]
      /\ \A d \in Clients : pending'[d] = IF d = c THEN <<>> ELSE pending[d]
      /\ \A d \in Clients : \A e : InPending(d, e)' => InPending(d, e)
  BY RemovalProps
<1>3. NoneTwice' /\ LaneShape' /\ EventOrder' /\ KeysInOrder'
  BY <1>1, <1>2, Frames DEF IInv, NoneTwice
<1>5. ASSUME UNCHANGED <<held, slot, expired>>
      PROVE  Untraced' /\ StillToCall'
  <2>1. Untraced'
    BY <1>1, <1>2, <1>5 DEF IInv, Untraced, Traced
  <2>2. StillToCall'
    <3>1. \A d \in Clients : Untouched(d) => Untouched(d)'
      BY <1>1, <1>2, <1>5 DEF Untouched
    <3> QED
      BY <1>1, <1>5, <3>1, Lookups DEF IInv, StillToCall
  <2> QED
    BY <2>1, <2>2
<1>7. ASSUME UNCHANGED expired
      PROVE  PendingOrder'
  <2> SUFFICES ASSUME NEW d \in Clients, d # c, pending'[d] = pending[d]
               PROVE  PendingOf(d)'
    BY <1>2 DEF PendingOrder, PendingOf
  <2> QED
    BY <1>1, <1>7 DEF IInv, PendingOrder, PendingOf, Last
<1>6. ASSUME UNCHANGED <<held, slot, expired, given>>
      PROVE  OneAnswer'
  <2>1. \A d \in DecisionSet \cup {NoDecision} : Underway(d) => Underway(d)'
    BY <1>1, <1>2, <1>6 DEF Underway, DecisionSet
  <2>2. Underway(held)' /\ Underway(slot)'
    BY <1>6, <2>1 DEF IInv, TypeOK, OneAnswer, Underway
  <2> QED
    BY <1>1, <1>2, <1>6, <2>2 DEF IInv, OneAnswer, TypeOK
<1> QED
  BY <1>3, <1>5, <1>6, <1>7
-----------------------------------------------------------------------------
(* The main thread                                                         *)

\* A dispatched event is queued last, with a fresh id, or finished on the spot.
LEMMA DispatchStep ==
  ASSUME IInv, NEW k \in Kinds, Dispatch(k)
  PROVE  IInv'
<1> DEFINE e == nextEvent
           item == [event |-> e, subs |-> Snapshot]
<1>1. UNCHANGED <<conn, order, quarantined, strikes, owner, failures, stalled,
                  expired, pending, held, slot, given, cancelled, foreign, pc, cur, subs,
                  responder, verdict, decider>>
  BY DEF Dispatch, clientVars, streamVars, decisionVars, laneVars
<1>2. /\ e \in Event /\ nextEvent' = e + 1 /\ kind' = [kind EXCEPT ![e] = k]
      /\ k \in {"key", "motion"}
  BY InputAssumption, BoundAssumption DEF Dispatch, IInv, TypeOK, Event
<1>3. Snapshot \in Seq(Clients) /\ Distinct(Snapshot)
  BY SortedProps DEF IInv, TypeOK, NoneTwice, Snapshot
<1>4. /\ item \in [event : Event, subs : Seq(Clients)]
      /\ item.event = e /\ item.subs = Snapshot
  BY <1>2, <1>3
<1>a. Event \subseteq Nat \ {0} /\ nextEvent \in Nat
  BY <1>2, Lookups DEF IInv
<1>5. kind' \in [Event -> {"none", "key", "motion"}] /\ nextEvent' \in Nat \ {0}
  BY <1>2 DEF IInv, TypeOK
<1>6. fate[e] = "none" /\ \A d \in Event : d > e => fate[d] = "none"
  BY <1>2, Lookups DEF IInv, EventOrder
<1>7. LaneShape' /\ StillToCall'
  BY <1>1, Frames
<1>8. CASE Fits(k)
  <2>1. queue' = Append(queue, item) /\ fate' = [fate EXCEPT ![e] = "queued"]
    BY <1>8 DEF Dispatch
  <2>2. /\ queue' \in Seq([event : Event, subs : Seq(Clients)])
        /\ Len(queue') = Len(queue) + 1 /\ Len(queue) \in Nat
        /\ \A i \in 1..Len(queue) : queue'[i] = queue[i]
        /\ queue'[Len(queue) + 1] = item
    BY <1>4, <2>1, AppendProperties, LenProperties DEF IInv, TypeOK
  <2>3. \A i \in 1..Len(queue') :
          \/ i \in 1..Len(queue) /\ queue'[i] = queue[i]
          \/ i = Len(queue) + 1 /\ queue'[i].event = e /\ queue'[i].subs = Snapshot
    BY <1>4, <2>2
  <2>a. \A i \in 1..Len(queue) : i \in 1..Len(queue') /\ queue'[i] = queue[i]
    BY <2>2
  <2>b. Len(queue) + 1 \in 1..Len(queue') /\ queue'[Len(queue) + 1].event = e
    BY <1>4, <2>2
  <2> HIDE DEF item
  <2>4. /\ fate' \in [Event -> {"none", "queued", "passed", "blocked", "modified", "lost",
                                "dropped"}]
        /\ \A d \in Event : fate'[d] = IF d = e THEN "queued" ELSE fate[d]
    BY <1>2, <2>1 DEF IInv, TypeOK
  <2>5. TypeOK'
    BY <1>1, <1>5, <2>2, <2>4 DEF IInv, TypeOK
  <2>6. NoneTwice'
    <3>1. \A i \in 1..Len(queue') : Distinct(queue'[i].subs)
      BY <1>3, <2>3 DEF IInv, NoneTwice
    <3> QED
      BY <1>1, <3>1 DEF IInv, NoneTwice
  <2>7. EventOrder'
    <3>1. \A i \in 1..Len(queue') : /\ queue'[i].event < nextEvent'
                                    /\ cur' < queue'[i].event
                                    /\ fate'[queue'[i].event] = "queued"
      <4> TAKE i \in 1..Len(queue')
      <4>1. CASE i \in 1..Len(queue) /\ queue'[i] = queue[i]
        <5>1. /\ queue[i].event \in Event /\ queue[i].event < nextEvent
              /\ cur < queue[i].event /\ fate[queue[i].event] = "queued"
          BY <4>1, Lookups DEF IInv, EventOrder
        <5>2. queue[i].event # e /\ queue[i].event < e + 1
          <6>1. \A m, n \in Nat : m < n => m # n /\ m < n + 1
            OBVIOUS
          <6>2. queue[i].event \in Nat
            BY <1>a, <5>1
          <6> QED
            BY <1>a, <5>1, <6>1, <6>2
        <5>3. fate'[queue[i].event] = "queued"
          BY <2>4, <5>1, <5>2
        <5> QED
          BY <1>1, <1>2, <4>1, <5>1, <5>2, <5>3
      <4>2. CASE i = Len(queue) + 1 /\ queue'[i].event = e
        BY <1>1, <1>2, <1>a, <2>4, <4>2 DEF IInv, EventOrder
      <4> QED
        BY <2>3, <4>1, <4>2
    <3>2. \A i, j \in 1..Len(queue') : i < j => queue'[i].event < queue'[j].event
      <4> TAKE i \in 1..Len(queue'), j \in 1..Len(queue')
      <4> HAVE i < j
      <4>1. i \in 1..Len(queue) /\ queue'[i] = queue[i]
        BY <2>2, <2>3
      <4>2. CASE j \in 1..Len(queue)
        BY <2>2, <4>1, <4>2 DEF IInv, EventOrder
      <4>3. CASE j = Len(queue) + 1
        <5>1. queue[i].event < nextEvent
          BY <4>1 DEF IInv, EventOrder
        <5> QED
          BY <2>b, <4>1, <4>3, <5>1
      <4> QED
        BY <2>3, <4>2, <4>3
    <3>3. cur' < nextEvent' /\ (cur' # 0 => fate'[cur'] = "queued")
      <4>1. cur < nextEvent /\ cur \in Event \cup {0} /\ (cur # 0 => fate[cur] = "queued")
        BY DEF IInv, EventOrder, TypeOK
      <4>2. cur \in Nat /\ cur # e
        BY <1>a, <4>1
      <4>3. cur < e + 1
        BY <1>a, <4>1, <4>2
      <4> QED
        BY <1>1, <1>2, <2>4, <4>1, <4>2, <4>3
    <3>4. ASSUME NEW d \in Event, fate'[d] = "queued"
          PROVE  d = cur' \/ \E i \in 1..Len(queue') : queue'[i].event = d
      <4>1. CASE d = e
        BY <2>b, <4>1
      <4>2. CASE d # e
        <5>1. d = cur \/ \E i \in 1..Len(queue) : queue[i].event = d
          BY <2>4, <3>4, <4>2 DEF IInv, EventOrder
        <5> QED
          BY <1>1, <2>a, <5>1
      <4> QED
        BY <4>1, <4>2
    <3>5. \A d \in Event : d >= nextEvent' => fate'[d] = "none"
      BY <1>2, <1>6, <2>4, Lookups DEF IInv
    <3> QED
      BY <3>1, <3>2, <3>3, <3>4, <3>5 DEF EventOrder
  <2>8. KeysInOrder'
    <3> SUFFICES ASSUME NEW d \in Event, NEW later \in Event,
                        fate'[d] = "queued", later > d, kind'[later] = "key"
                 PROVE  fate'[later] # "passed"
      BY DEF KeysInOrder
    <3>1. CASE later = e
      BY <2>4, <3>1
    <3>2. CASE d = e
      BY <1>6, <2>4, <3>2
    <3>3. CASE d # e /\ later # e
      <4>1. fate[d] = "queued" /\ kind[later] = "key" /\ fate'[later] = fate[later]
        BY <1>2, <2>4, <3>3 DEF IInv, TypeOK
      <4> QED
        BY <4>1 DEF IInv, KeysInOrder
    <3> QED
      BY <3>1, <3>2, <3>3
  <2>9. Untraced'
    <3> SUFFICES ASSUME NEW d \in Event,
                        d >= nextEvent' \/ \E i \in 1..Len(queue') : queue'[i].event = d
                 PROVE  ~Traced(d)
      BY <1>1 DEF Untraced, Traced, InPending
    <3>1. d >= nextEvent \/ \E i \in 1..Len(queue) : queue[i].event = d
      BY <1>2, <1>a, <2>3
    <3> QED
      BY <3>1 DEF IInv, Untraced
  <2>10. OneAnswer'
    <3>1. ASSUME NEW d \in DecisionSet \cup {NoDecision}, Underway(d), ~Traced(e),
                 d = held \/ d = slot
          PROVE  Underway(d)'
      <4>1. d # NoDecision => d.event \in Event /\ d.event # e
        BY <3>1 DEF Traced, DecisionSet
      <4> QED
        BY <1>1, <2>4, <3>1, <4>1 DEF Underway, InPending
    <3>2. ~Traced(e)
      <4>1. e >= nextEvent
        BY <1>a
      <4> QED
        BY <1>2, <4>1 DEF IInv, Untraced
    <3>3. Underway(held)' /\ Underway(slot)'
      BY <1>1, <3>1, <3>2 DEF IInv, TypeOK, OneAnswer, Underway
    <3> QED
      BY <1>1, <3>3 DEF IInv, OneAnswer, InPending
  <2>11. PendingOrder'
    <3> SUFFICES ASSUME NEW c \in Clients PROVE PendingOf(c)'
      BY DEF PendingOrder
    <3>1. PendingOf(c)
      BY DEF IInv, PendingOrder
    <3>2. \A i \in 1..Len(pending[c]), j \in 1..Len(queue') : pending[c][i] < queue'[j].event
      <4> TAKE i \in 1..Len(pending[c]), j \in 1..Len(queue')
      <4>1. pending[c][i] < nextEvent
        BY <3>1 DEF PendingOf
      <4>2. CASE j \in 1..Len(queue) /\ queue'[j] = queue[j]
        BY <3>1, <4>2 DEF PendingOf
      <4>3. CASE queue'[j].event = e
        BY <4>1, <4>3
      <4> QED
        BY <2>3, <4>2, <4>3
    <3>3. \A i \in 1..Len(pending[c]) : pending[c][i] < nextEvent'
      BY <1>2, <3>1, Lookups DEF IInv, PendingOf
    <3> QED
      BY <1>1, <3>1, <3>2, <3>3 DEF PendingOf, Last
  <2> QED
    BY <1>7, <2>5, <2>6, <2>7, <2>8, <2>9, <2>10, <2>11 DEF IInv
<1>9. CASE ~Fits(k)
  <2>1. Fallback(e, k) /\ queue' = queue
    BY <1>9 DEF Dispatch
  <2>2. PICK how \in {"passed", "lost"} : /\ fate' = [fate EXCEPT ![e] = how]
                                          /\ how = "passed" => k # "key"
    BY <2>1 DEF Fallback, KeepsLaneOrder
  <2>4. /\ fate' \in [Event -> {"none", "queued", "passed", "blocked", "modified", "lost",
                                "dropped"}]
        /\ \A d \in Event : fate'[d] = IF d = e THEN how ELSE fate[d]
    BY <1>2, <2>2 DEF IInv, TypeOK
  <2>5. TypeOK'
    BY <1>1, <1>5, <2>1, <2>4 DEF IInv, TypeOK
  <2>6. NoneTwice'
    BY <1>1, <2>1, Frames
  <2>7. EventOrder'
    <3>1. \A i \in 1..Len(queue) : /\ queue[i].event < nextEvent'
                                   /\ cur < queue[i].event
                                   /\ fate'[queue[i].event] = "queued"
      BY <1>2, <1>6, <2>4, Lookups DEF IInv, EventOrder
    <3>2. cur < nextEvent' /\ (cur # 0 => fate'[cur] = "queued")
      BY <1>2, <1>6, <2>4, Lookups DEF IInv, EventOrder, TypeOK
    <3>3. \A d \in Event :
            /\ fate'[d] = "queued" => d = cur \/ \E i \in 1..Len(queue) : queue[i].event = d
            /\ d >= nextEvent' => fate'[d] = "none"
      <4> TAKE d \in Event
      <4>1. fate'[d] = "queued" => d = cur \/ \E i \in 1..Len(queue) : queue[i].event = d
        BY <2>2, <2>4 DEF IInv, EventOrder
      <4>2. d >= nextEvent' => fate'[d] = "none"
        BY <1>2, <1>6, <1>a, <2>4
      <4> QED
        BY <4>1, <4>2
    <3> QED
      BY <1>1, <2>1, <3>1, <3>2, <3>3 DEF IInv, EventOrder
  <2>8. KeysInOrder'
    <3> SUFFICES ASSUME NEW d \in Event, NEW later \in Event,
                        fate'[d] = "queued", later > d, kind'[later] = "key"
                 PROVE  fate'[later] # "passed"
      BY DEF KeysInOrder
    <3>1. CASE later = e
      BY <1>2, <2>2, <2>4, <3>1 DEF IInv, TypeOK
    <3>2. CASE later # e
      <4>1. fate[d] = "queued" /\ kind[later] = "key" /\ fate'[later] = fate[later]
        BY <1>2, <2>2, <2>4, <3>2 DEF IInv, TypeOK
      <4> QED
        BY <4>1 DEF IInv, KeysInOrder
    <3> QED
      BY <3>1, <3>2
  <2>9. Untraced'
    <3>1. \A d \in Event : d >= nextEvent' => d >= nextEvent
      BY <1>2, Lookups DEF IInv
    <3> QED
      BY <1>1, <2>1, <3>1 DEF IInv, Untraced, Traced, InPending
  <2>10. OneAnswer'
    <3>1. \A d \in Event : fate'[d] = "queued" => fate[d] = "queued"
      BY <2>2, <2>4
    <3>2. ASSUME NEW d \in DecisionSet \cup {NoDecision}, Underway(d)
          PROVE  Underway(d)'
      BY <1>1, <3>1, <3>2 DEF Underway, InPending, DecisionSet
    <3>3. Underway(held)' /\ Underway(slot)'
      BY <1>1, <3>2 DEF IInv, TypeOK, OneAnswer, Underway
    <3> QED
      BY <1>1, <3>3 DEF IInv, OneAnswer, InPending
  <2>11. PendingOrder'
    <3> SUFFICES ASSUME NEW c \in Clients PROVE PendingOf(c)'
      BY DEF PendingOrder
    <3>1. PendingOf(c)
      BY DEF IInv, PendingOrder
    <3>3. \A i \in 1..Len(pending[c]) : pending[c][i] < nextEvent'
      BY <1>2, <3>1, Lookups DEF IInv, PendingOf
    <3> QED
      BY <1>1, <2>1, <3>1, <3>3 DEF PendingOf, Last
  <2> QED
    BY <1>7, <2>5, <2>6, <2>7, <2>8, <2>9, <2>10, <2>11 DEF IInv
<1> QED
  BY <1>8, <1>9

\* A subscription is put first; the client was not in the list.
LEMMA SubscribeStep ==
  ASSUME IInv, NEW c \in Clients, Subscribe(c)
  PROVE  IInv'
<1>1. /\ order' = <<c>> \o order /\ c \notin Subscribers
      /\ UNCHANGED <<conn, quarantined, failures, stalled, expired, pending, held,
                     slot, given, queue, nextEvent, kind, cancelled, foreign, pc, cur, subs,
                     responder, verdict, decider, fate>>
  BY DEF Subscribe, Subscribed, seatVars, streamVars, decisionVars, eventVars, laneVars
<1>2. order \in Seq(Clients) /\ <<c>> \in Seq(Clients) /\ Len(<<c>>) = 1 /\ Len(order) \in Nat
  BY LenProperties DEF IInv, TypeOK
<1>3. /\ order' \in Seq(Clients) /\ Len(order') = 1 + Len(order)
      /\ \A i \in 1..(1 + Len(order)) : order'[i] = IF i <= 1 THEN <<c>>[i] ELSE order[i - 1]
  BY <1>1, <1>2, ConcatProperties
<1>4. Distinct(order')
  <2>1. order'[1] = c
    BY <1>2, <1>3
  <2>2. \A i \in 2..(1 + Len(order)) : i - 1 \in 1..Len(order) /\ order'[i] = order[i - 1]
    BY <1>2, <1>3
  <2>3. \A i \in 1..Len(order) : order[i] # c
    BY <1>1 DEF Subscribers
  <2>4. Distinct(order)
    BY DEF IInv, NoneTwice
  <2> SUFFICES ASSUME NEW i \in 1..(1 + Len(order)), NEW j \in 1..(1 + Len(order)),
                      order'[i] = order'[j]
               PROVE  i = j
    BY <1>3 DEF Distinct
  <2>5. CASE i = 1 \/ j = 1
    BY <1>2, <2>1, <2>2, <2>3, <2>5
  <2>6. CASE i # 1 /\ j # 1
    <3>1. i - 1 \in 1..Len(order) /\ j - 1 \in 1..Len(order) /\ order[i - 1] = order[j - 1]
      BY <1>2, <2>2, <2>6
    <3>2. i - 1 = j - 1
      BY <2>4, <3>1 DEF Distinct
    <3> QED
      BY <3>2
  <2> QED
    BY <2>5, <2>6
<1>5. TypeOK'
  BY <1>1, <1>3 DEF IInv, TypeOK
<1>6. NoneTwice'
  BY <1>1, <1>4 DEF IInv, NoneTwice
<1> QED
  BY <1>1, <1>5, <1>6, Frames DEF IInv

\* The order loses a client and is sorted as before.
LEMMA UnsubscribeStep ==
  ASSUME IInv, NEW c \in Clients, Unsubscribe(c)
  PROVE  IInv'
<1>1. /\ order' = Sorted(Subscribers \ {c})
      /\ UNCHANGED <<conn, quarantined, failures, stalled, expired, pending, held,
                     slot, given, queue, nextEvent, kind, cancelled, foreign, pc, cur, subs,
                     responder, verdict, decider, fate>>
  BY DEF Unsubscribe, Without, seatVars, streamVars, decisionVars, eventVars, laneVars
<1>2. order' \in Seq(Clients) /\ Distinct(order')
  BY <1>1, SortedProps DEF IInv, TypeOK, NoneTwice
<1>3. TypeOK'
  BY <1>1, <1>2 DEF IInv, TypeOK
<1>4. NoneTwice'
  BY <1>1, <1>2 DEF IInv, NoneTwice
<1> QED
  BY <1>1, <1>3, <1>4, Frames DEF IInv

\* Of a client's outstanding callbacks the oldest is answered first.
LEMMA OldestCallback ==
  ASSUME IInv, NEW c \in Clients, pending[c] # <<>>
  PROVE  /\ Head(pending[c]) = pending[c][1] /\ Head(pending[c]) \in Event
         /\ Len(pending[c]) \in Nat \ {0}
         /\ Head(pending[c]) < nextEvent /\ Head(pending[c]) # 0
         /\ InPending(c, Head(pending[c]))
         /\ \A i \in 1..Len(queue) : Head(pending[c]) # queue[i].event
         /\ Tail(pending[c]) \in Seq(Event) /\ Len(Tail(pending[c])) = Len(pending[c]) - 1
         /\ \A i \in 1..Len(Tail(pending[c])) :
              /\ i + 1 \in 1..Len(pending[c])
              /\ Tail(pending[c])[i] = pending[c][i + 1]
              /\ Head(pending[c]) < Tail(pending[c])[i]
<1>1. pending[c] \in Seq(Event) /\ Event \subseteq Nat \ {0}
  BY Lookups DEF IInv, TypeOK
<1>2. /\ Head(pending[c]) = pending[c][1] /\ Head(pending[c]) \in Event
      /\ Len(pending[c]) \in Nat \ {0}
      /\ Tail(pending[c]) \in Seq(Event) /\ Len(Tail(pending[c])) = Len(pending[c]) - 1
      /\ \A i \in 1..Len(Tail(pending[c])) : Tail(pending[c])[i] = pending[c][i + 1]
  BY <1>1, EmptySeq, HeadTailProperties
<1>3. 1 \in 1..Len(pending[c])
  BY <1>2
<1>4. PendingOf(c)
  BY DEF IInv, PendingOrder
<1>5. Head(pending[c]) < nextEvent /\ Head(pending[c]) # 0 /\ InPending(c, Head(pending[c]))
  BY <1>1, <1>2, <1>3, <1>4 DEF PendingOf, InPending
<1>6. \A i \in 1..Len(queue) : Head(pending[c]) # queue[i].event
  <2> TAKE i \in 1..Len(queue)
  <2>1. Head(pending[c]) < queue[i].event
    BY <1>2, <1>3, <1>4 DEF PendingOf
  <2>2. queue[i].event \in Nat
    BY <1>1, Lookups DEF IInv
  <2> QED
    BY <1>1, <1>2, <2>1, <2>2
<1>7. \A i \in 1..Len(Tail(pending[c])) :
        i + 1 \in 1..Len(pending[c]) /\ Head(pending[c]) < Tail(pending[c])[i]
  <2> TAKE i \in 1..Len(Tail(pending[c]))
  <2>1. i + 1 \in 1..Len(pending[c]) /\ 1 < i + 1
    BY <1>2
  <2> QED
    BY <1>2, <1>3, <1>4, <2>1 DEF PendingOf
<1> QED
  BY <1>2, <1>5, <1>6, <1>7

\* A reply that the lane does not wait for: its callback is forgotten, and the
\* retired one with it when it is that one.
LEMMA ReplySettled ==
  ASSUME IInv, NEW c \in Clients, NEW v \in VerdictSet, pending[c] # <<>>, MainFree,
         NEW e, e = Head(pending[c]), ~(cur = e /\ responder = c),
         UNCHANGED <<held, slot, queue, nextEvent, pc, cur, subs, responder, verdict, decider,
                     fate>>,
         \A d \in Clients : d # c => pending'[d] = pending[d] /\ expired'[d] = expired[d],
         \/ pending'[c] = <<>> /\ expired'[c] = expired[c]
         \/ pending'[c] \in {<<>>, Tail(pending[c])} /\ expired[c] = e /\ expired'[c] = 0,
         \A d \in Clients, x \in Event : ~(d = c /\ x = e) => given'[d][x] = given[d][x]
  PROVE  Untraced' /\ StillToCall' /\ OneAnswer' /\ PendingOrder'
<1>1. /\ e = pending[c][1] /\ e \in Event /\ e < nextEvent /\ e # 0 /\ InPending(c, e)
      /\ Tail(pending[c]) \in Seq(Event)
      /\ Len(pending[c]) \in Nat \ {0} /\ Len(Tail(pending[c])) = Len(pending[c]) - 1
      /\ \A i \in 1..Len(Tail(pending[c])) :
           i + 1 \in 1..Len(pending[c]) /\ Tail(pending[c])[i] = pending[c][i + 1]
           /\ e < Tail(pending[c])[i]
  BY OldestCallback
<1>2. \A d \in Clients : \A x : InPending(d, x)' => InPending(d, x)
  <2> SUFFICES ASSUME NEW x, InPending(c, x)' PROVE InPending(c, x)
    BY DEF InPending
  <2>1. PICK i \in 1..Len(pending'[c]) : pending'[c][i] = x
    BY DEF InPending
  <2>2. pending'[c] # <<>>
    BY <2>1
  <2>3. pending'[c] = Tail(pending[c])
    BY <2>2
  <2>4. i + 1 \in 1..Len(pending[c]) /\ pending[c][i + 1] = x
    BY <1>1, <2>1, <2>3
  <2> QED
    BY <2>4 DEF InPending
<1>3. \A d \in Clients : \A x : x # 0 /\ expired'[d] = x => expired[d] = x
  OBVIOUS
<1>4. Untraced'
  <2> SUFFICES ASSUME NEW d \in Event, Traced(d)' PROVE Traced(d)
    BY DEF IInv, Untraced
  <2> QED
    BY <1>2, <1>3, Lookups DEF Traced, IInv
<1>5. pc # "idle" => cur # 0
  BY DEF IInv, LaneShape
<1>6. StillToCall'
  <2>1. \A d \in Clients : cur # 0 /\ Untouched(d) => Untouched(d)'
    BY <1>2, <1>3 DEF Untouched
  <2>2. pc = "wait" => expired'[Head(subs)] # cur
    BY <1>3, <1>5, Lookups DEF IInv, StillToCall, LaneShape, Calling
  <2>3. pc = "expired" => expired'[Head(subs)] = cur
    BY Lookups DEF IInv, StillToCall, LaneShape, Calling
  <2> QED
    BY <1>5, <2>1, <2>2, <2>3, Lookups DEF IInv, StillToCall
<1>7. OneAnswer'
  <2>1. ASSUME NEW d \in DecisionSet \cup {NoDecision}, Underway(d)
        PROVE  Underway(d)'
    <3> SUFFICES ASSUME d # NoDecision, fate[d.event] = "queued"
                 PROVE  /\ ~InPending(d.client, d.event)'
                        /\ d.verdict # "pass" => given'[d.client][d.event] = d.verdict
      BY DEF Underway
    <3>1. d.client \in Clients /\ d.event \in Event
      BY DEF DecisionSet
    <3>2. ~InPending(d.client, d.event)
          /\ (d.verdict # "pass" => given[d.client][d.event] = d.verdict)
      BY <2>1 DEF Underway
    <3> QED
      BY <1>1, <1>2, <3>1, <3>2
  <2>2. Underway(held)' /\ Underway(slot)'
    BY <2>1 DEF IInv, TypeOK, OneAnswer, Underway
  <2>3. ASSUME verdict # "pass"
        PROVE  /\ pc = "finish" /\ decider # None /\ expired'[decider] # cur
               /\ given'[decider][cur] = verdict /\ ~InPending(decider, cur)'
    <3>1. /\ pc = "finish" /\ decider # None /\ expired[decider] # cur
          /\ given[decider][cur] = verdict /\ ~InPending(decider, cur)
      BY <2>3 DEF IInv, OneAnswer
    <3>2. decider \in Clients /\ cur \in Event
      BY <1>5, <3>1 DEF IInv, TypeOK
    <3> QED
      BY <1>1, <1>2, <1>3, <1>5, <3>1, <3>2
  <2> QED
    BY <2>2, <2>3 DEF OneAnswer
<1>8. PendingOrder'
  <2>1. ASSUME NEW d \in Clients, d # c PROVE PendingOf(d)'
    BY <2>1 DEF IInv, PendingOrder, PendingOf, Last
  <2>2. CASE pending'[c] = <<>>
    BY <2>1, <2>2 DEF PendingOrder, PendingOf
  <2>3. CASE pending'[c] = Tail(pending[c]) /\ pending'[c] # <<>> /\ expired[c] = e
    <3>1. PendingOf(c)
      BY DEF IInv, PendingOrder
    <3> DEFINE n == Len(pending[c])
    <3>2. /\ Len(pending'[c]) = n - 1 /\ n - 1 \in Nat \ {0}
          /\ \A i \in 1..(n - 1) : i + 1 \in 1..n /\ pending'[c][i] = pending[c][i + 1]
      BY <1>1, <2>3, EmptySeq
    <3>3. Last(c)' = Last(c) /\ e < Last(c)
      <4>1. n - 1 \in 1..(n - 1) /\ (n - 1) + 1 = n
        <5>1. n \in Nat /\ n - 1 \in Nat \ {0}
          BY <1>1, <3>2
        <5> HIDE DEF n
        <5> QED
          BY <5>1
      <4>2. pending'[c][n - 1] = pending[c][n] /\ e < pending'[c][n - 1]
        BY <1>1, <2>3, <3>2, <4>1
      <4> QED
        BY <3>2, <4>2 DEF Last
    <3>4. cur = Last(c) /\ responder = c
      <4>1. (cur = Last(c) /\ responder = c) \/ expired[c] = Last(c)
        BY <3>1 DEF PendingOf
      <4>2. Last(c) \in Nat /\ e \in Nat
        BY <1>1, Lookups DEF IInv, Last
      <4> QED
        BY <2>3, <3>3, <4>1, <4>2
    <3>5. \A i, j \in 1..Len(pending'[c]) : i < j => pending'[c][i] < pending'[c][j]
      BY <3>1, <3>2 DEF PendingOf
    <3>6. PendingOf(c)'
      BY <3>1, <3>2, <3>3, <3>4, <3>5 DEF PendingOf
    <3> QED
      BY <2>1, <3>6 DEF PendingOrder
  <2> QED
    BY <2>2, <2>3
<1> QED
  BY <1>4, <1>6, <1>7, <1>8

\* A reply is for the callback the lane waits for, and is held until it is
\* pushed; or for a retired one; or it ends the stream.
LEMMA HandleReplyStep ==
  ASSUME IInv, NEW c \in Clients, NEW v \in Verdicts, HandleReply(c, v)
  PROVE  IInv'
<1> DEFINE e == Head(pending[c])
<1>1. /\ MainFree /\ pending[c] # <<>> /\ v \in VerdictSet
      /\ UNCHANGED <<trouble, owner, failOpen, failures, stalled, slot, queue,
                     nextEvent, kind, cancelled, foreign, pc, cur, subs, responder, verdict,
                     decider, fate>>
      /\ given' = IF fate[e] = "queued" THEN [given EXCEPT ![c][e] = v] ELSE given
  BY InputAssumption DEF HandleReply, seatVars, eventVars, laneVars, VerdictSet
<1>2. /\ e = pending[c][1] /\ e \in Event /\ e < nextEvent /\ e # 0 /\ InPending(c, e)
      /\ Tail(pending[c]) \in Seq(Event)
      /\ Len(pending[c]) \in Nat \ {0} /\ Len(Tail(pending[c])) = Len(pending[c]) - 1
      /\ \A i \in 1..Len(Tail(pending[c])) :
           i + 1 \in 1..Len(pending[c]) /\ Tail(pending[c])[i] = pending[c][i + 1]
           /\ e < Tail(pending[c])[i]
      /\ \A i \in 1..Len(queue) : e # queue[i].event
  BY <1>1, OldestCallback
<1> HIDE DEF e
<1>3. /\ given' \in [Clients -> [Event -> VerdictSet \cup {"none"}]]
      /\ \A d \in Clients, x \in Event : ~(d = c /\ x = e) => given'[d][x] = given[d][x]
      /\ fate[e] = "queued" => given'[c][e] = v
  BY <1>1, <1>2 DEF IInv, TypeOK
<1>4. pending \in [Clients -> Seq(Event)] /\ expired \in [Clients -> Event \cup {0}]
  BY DEF IInv, TypeOK
<1>5. KeysInOrder' /\ EventOrder' /\ LaneShape'
  BY <1>1, Frames
<1>6. CASE /\ cur = e /\ responder = c
           /\ held' = [event |-> e, client |-> c, verdict |-> v]
           /\ pending' = [pending EXCEPT ![c] = Tail(@)]
           /\ UNCHANGED <<conn, order, expired, quarantined, strikes>>
  <2>1. PendingOf(c) /\ pc \in {"send", "wait", "expired"} /\ Head(subs) = c /\ cur # 0
    BY <1>2, <1>6, ClientAssumption DEF IInv, PendingOrder, LaneShape
  <2>2. pc # "send"
    <3>1. pc = "send" => Untouched(subs[1])
      BY <2>1, Lookups DEF IInv, StillToCall, LaneShape, Calling
    <3> QED
      BY <1>2, <1>6, <2>1, <3>1, Lookups DEF Untouched, IInv, LaneShape, Calling
  <2>3. Tail(pending[c]) = <<>>
    <3>1. \A i \in 1..Len(Tail(pending[c])) : FALSE
      <4> TAKE i \in 1..Len(Tail(pending[c]))
      <4>1. Tail(pending[c])[i] <= cur
        BY <1>2, <2>1 DEF PendingOf
      <4>2. Tail(pending[c])[i] \in Nat /\ e \in Nat
        BY <1>2, <1>4, Lookups DEF IInv
      <4>3. e < Tail(pending[c])[i] /\ cur = e
        BY <1>2, <1>6
      <4> QED
        BY <4>1, <4>2, <4>3
    <3>2. Len(Tail(pending[c])) = 0
      <4>1. \A m \in Nat : (\A i \in 1..m : FALSE) => m = 0
        OBVIOUS
      <4> QED
        BY <1>2, <3>1, <4>1, LenProperties
    <3> QED
      BY <1>2, <3>2, EmptySeq
  <2>4. /\ \A d \in Clients : pending'[d] = IF d = c THEN <<>> ELSE pending[d]
        /\ pending' \in [Clients -> Seq(Event)]
    BY <1>2, <1>4, <1>6, <2>3
  <2>5. \A d \in Clients : \A x : InPending(d, x)' => d # c /\ InPending(d, x)
    BY <2>4 DEF InPending
  <2>6. /\ held' \in DecisionSet /\ held'.event = e /\ held'.client = c /\ held'.verdict = v
        /\ held' # NoDecision
    <3>1. NoDecision.event = 0
      BY DEF NoDecision
    <3> QED
      BY <1>1, <1>2, <1>6, <3>1 DEF DecisionSet
  <2>7. TypeOK'
    BY <1>1, <1>3, <1>6, <2>4, <2>6 DEF IInv, TypeOK
  <2>8. NoneTwice'
    BY <1>1, <1>6, Frames
  <2>9. Untraced'
    <3>1. \A x \in Event : Traced(x)' => Traced(x) \/ x = e
      BY <1>1, <1>6, <2>5, <2>6 DEF Traced
    <3>2. e < nextEvent /\ nextEvent \in Nat /\ e \in Nat
      BY <1>2, Lookups DEF IInv, TypeOK
    <3> QED
      BY <1>1, <1>2, <3>1, <3>2 DEF IInv, Untraced
  <2>10. StillToCall'
    <3>1. \A d \in Clients : d # c /\ Untouched(d) => Untouched(d)'
      BY <1>1, <1>6, <2>5, <2>6 DEF Untouched
    <3>2. \A i \in 1..Len(subs) : i > 1 => subs[i] # c
      <4>1. Distinct(subs) /\ subs[1] = c /\ 1 \in 1..Len(subs)
        BY <2>1, Lookups DEF IInv, NoneTwice, LaneShape, Calling
      <4> QED
        BY <4>1 DEF Distinct
    <3> QED
      BY <1>1, <1>6, <2>1, <2>2, <3>1, <3>2, Lookups DEF IInv, StillToCall
  <2>11. OneAnswer'
    <3>1. Underway(held)'
      BY <1>1, <1>3, <2>5, <2>6 DEF Underway
    <3>2. Underway(slot)'
      <4> SUFFICES ASSUME slot # NoDecision, fate[slot.event] = "queued"
                   PROVE  /\ ~InPending(slot.client, slot.event)'
                          /\ slot.verdict # "pass" =>
                               given'[slot.client][slot.event] = slot.verdict
        BY <1>1 DEF Underway
      <4>1. slot.client \in Clients /\ slot.event \in Event
        BY DEF DecisionSet, IInv, TypeOK
      <4>2. ~InPending(slot.client, slot.event)
            /\ (slot.verdict # "pass" => given[slot.client][slot.event] = slot.verdict)
        BY DEF IInv, OneAnswer, Underway
      <4>3. ~(slot.client = c /\ slot.event = e)
        BY <1>2, <4>2
      <4>4. given'[slot.client][slot.event] = given[slot.client][slot.event]
        BY <1>3, <4>1, <4>3
      <4> QED
        BY <1>1, <2>5, <4>1, <4>2, <4>4
    <3>3. verdict = "pass"
      BY <2>1 DEF IInv, OneAnswer
    <3> QED
      BY <1>1, <3>1, <3>2, <3>3 DEF OneAnswer
  <2>12. PendingOrder'
    <3>1. PendingOf(c)'
      BY <2>4 DEF PendingOf
    <3>2. ASSUME NEW d \in Clients, d # c PROVE PendingOf(d)'
      BY <1>1, <1>6, <2>4, <3>2 DEF IInv, PendingOrder, PendingOf, Last
    <3> QED
      BY <3>1, <3>2 DEF PendingOrder
  <2> QED
    BY <1>5, <2>7, <2>8, <2>9, <2>10, <2>11, <2>12 DEF IInv
<1>7. CASE /\ ~(cur = e /\ responder = c)
           /\ expired[c] = e
           /\ expired' = [expired EXCEPT ![c] = 0]
           /\ pending' = [pending EXCEPT ![c] = Tail(@)]
           /\ UNCHANGED <<conn, order, quarantined, strikes, held>>
  <2>1. pending' \in [Clients -> Seq(Event)] /\ expired' \in [Clients -> Event \cup {0}]
    BY <1>2, <1>4, <1>7
  <2>2. TypeOK'
    BY <1>1, <1>3, <1>7, <2>1 DEF IInv, TypeOK
  <2>3. NoneTwice'
    BY <1>1, <1>7, Frames
  <2>4. /\ \A d \in Clients : d # c => pending'[d] = pending[d] /\ expired'[d] = expired[d]
        /\ pending'[c] = Tail(pending[c]) /\ expired'[c] = 0
    BY <1>4, <1>7
  <2>5. pending'[c] \in {<<>>, Tail(pending[c])} /\ expired[c] = e /\ expired'[c] = 0
    BY <1>7, <2>4
  <2>6. Untraced' /\ StillToCall' /\ OneAnswer' /\ PendingOrder'
    <3>1. e = Head(pending[c])
      BY DEF e
    <3> QED
      BY <1>1, <1>3, <1>7, <2>4, <2>5, <3>1, ReplySettled
  <2> QED
    BY <1>5, <2>2, <2>3, <2>6 DEF IInv
<1>8. ASSUME ~(cur = e /\ responder = c), UNCHANGED held,
             NEW why \in {"refused", "late"}, RemoveClient(c, why),
             expired' = expired \/ (expired[c] = e /\ expired' = [expired EXCEPT ![c] = 0])
      PROVE  IInv'
  <2>1. /\ \A d \in Clients : d # c => pending'[d] = pending[d] /\ expired'[d] = expired[d]
        /\ pending'[c] = <<>>
        /\ expired'[c] = expired[c] \/ (expired[c] = e /\ expired'[c] = 0)
    BY <1>4, <1>8, RemovalProps
  <2>2. Untraced' /\ StillToCall' /\ OneAnswer' /\ PendingOrder'
    BY <1>1, <1>3, <1>8, <2>1, ReplySettled DEF e
  <2>3. NoneTwice'
    BY <1>1, <1>8, RemovalStep DEF laneVars
  <2>4. /\ order' \in Seq(Clients) /\ pending' \in [Clients -> Seq(Event)]
        /\ conn' = [conn EXCEPT ![c] = why]
        /\ quarantined' = [quarantined EXCEPT ![c] = FALSE]
    BY <1>8, RemovalProps
  <2>5. expired' \in [Clients -> Event \cup {0}]
    BY <1>4, <1>8
  <2>6. TypeOK'
    BY <1>1, <1>3, <1>8, <2>4, <2>5 DEF IInv, TypeOK
  <2> QED
    BY <1>5, <2>2, <2>3, <2>6 DEF IInv
<1> QED
  BY <1>6, <1>7, <1>8 DEF HandleReply, e

\* The held reply moves into the slot, unchanged or as Pass, or is dropped.
LEMMA PushDecisionStep ==
  ASSUME IInv, PushDecision
  PROVE  IInv'
<1> DEFINE c == held.client
<1>1. /\ held \in DecisionSet /\ held # NoDecision /\ held' = NoDecision
      /\ UNCHANGED <<failures, stalled, expired, given, queue, nextEvent, kind,
                     cancelled, foreign, pc, cur, subs, responder, verdict, decider, fate>>
  BY DEF PushDecision, IInv, TypeOK, seatVars, eventVars, laneVars
<1>2. /\ c \in Clients /\ held.event \in Event /\ held.verdict \in VerdictSet
      /\ NoDecision.event = 0 /\ 0 \notin Event
  BY <1>1, Lookups DEF DecisionSet, NoDecision, IInv
<1>3. \/ slot' = slot
      \/ /\ slot' \in DecisionSet /\ slot'.event = held.event /\ slot'.client = c
         /\ slot'.verdict = held.verdict \/ slot'.verdict = "pass"
  <2>1. [held EXCEPT !.verdict = "pass"] \in DecisionSet
    BY <1>1 DEF DecisionSet, VerdictSet
  <2>2. /\ [held EXCEPT !.verdict = "pass"].event = held.event
        /\ [held EXCEPT !.verdict = "pass"].client = c
        /\ [held EXCEPT !.verdict = "pass"].verdict = "pass"
    BY <1>1 DEF DecisionSet
  <2>3. slot' \in {slot, held, [held EXCEPT !.verdict = "pass"]}
    BY DEF PushDecision
  <2> QED
    BY <1>1, <2>1, <2>2, <2>3
<1>4. \/ UNCHANGED <<conn, order, pending, quarantined>>
      \/ \E why \in {"refused", "seat", "slot"} : RemoveClient(c, why)
  BY DEF PushDecision
<1> HIDE DEF c
<1>5. \A d \in Clients : \A x : InPending(d, x)' => InPending(d, x)
  BY <1>2, <1>4, RemovalProps DEF InPending
<1>6. Untraced'
  <2>1. \A x \in Event : Traced(x)' => Traced(x)
    BY <1>1, <1>2, <1>3, <1>5 DEF Traced
  <2> QED
    BY <1>1, <2>1 DEF IInv, Untraced
<1>7. StillToCall'
  <2>1. \A d \in Clients : Untouched(d) /\ cur # 0 => Untouched(d)'
    BY <1>1, <1>2, <1>3, <1>5 DEF Untouched, c
  <2>2. pc # "idle" => cur # 0
    BY DEF IInv, LaneShape
  <2> QED
    BY <1>1, <2>1, <2>2, Lookups DEF IInv, StillToCall
<1>8. OneAnswer'
  <2>1. Underway(held)'
    BY <1>1 DEF Underway
  <2>2. Underway(slot)'
    <3>1. CASE slot' = slot
      BY <1>1, <1>5, <3>1 DEF IInv, OneAnswer, Underway, TypeOK, DecisionSet
    <3>2. CASE /\ slot' \in DecisionSet /\ slot'.event = held.event /\ slot'.client = c
               /\ slot'.verdict = held.verdict \/ slot'.verdict = "pass"
      <4>1. fate[held.event] = "queued" =>
              /\ ~InPending(c, held.event)
              /\ held.verdict # "pass" => given[c][held.event] = held.verdict
        BY <1>1 DEF IInv, OneAnswer, Underway, c
      <4>2. fate[held.event] = "queued" => ~InPending(slot.client, slot.event)'
        <5>1. InPending(slot.client, slot.event)' => InPending(c, held.event)
          BY <1>2, <1>5, <3>2 DEF InPending
        <5> QED
          BY <4>1, <5>1
      <4> QED
        BY <1>1, <3>2, <4>1, <4>2 DEF Underway
    <3> QED
      BY <1>3, <3>1, <3>2
  <2> QED
    BY <1>1, <1>5, <2>1, <2>2 DEF IInv, OneAnswer, TypeOK
<1>9. slot' \in DecisionSet \cup {NoDecision} /\ held' \in DecisionSet \cup {NoDecision}
  BY <1>1, <1>3 DEF IInv, TypeOK
<1>10. CASE UNCHANGED <<conn, order, pending, quarantined>>
  <2>1. TypeOK'
    BY <1>1, <1>9, <1>10 DEF IInv, TypeOK
  <2>2. LaneShape' /\ NoneTwice' /\ EventOrder' /\ KeysInOrder' /\ PendingOrder'
    BY <1>1, <1>10, Frames
  <2> QED
    BY <1>6, <1>7, <1>8, <2>1, <2>2 DEF IInv
<1>11. ASSUME NEW why \in {"refused", "seat", "slot"}, RemoveClient(c, why)
       PROVE  IInv'
  <2>1. /\ order' \in Seq(Clients) /\ pending' \in [Clients -> Seq(Event)]
        /\ conn' = [conn EXCEPT ![c] = why]
        /\ quarantined' = [quarantined EXCEPT ![c] = FALSE]
    BY <1>2, <1>11, RemovalProps
  <2>2. TypeOK'
    BY <1>1, <1>2, <1>9, <1>11, <2>1 DEF IInv, TypeOK
  <2>3. LaneShape' /\ NoneTwice' /\ EventOrder' /\ KeysInOrder' /\ PendingOrder'
    BY <1>1, <1>2, <1>11, RemovalStep DEF laneVars
  <2> QED
    BY <1>6, <1>7, <1>8, <2>2, <2>3 DEF IInv
<1> QED
  BY <1>4, <1>10, <1>11

\* One failure is taken off the queue.
LEMMA FailureTaken ==
  ASSUME IInv, failures # <<>>, failures' = Tail(failures)
  PROVE  failures' \in Seq(Clients)
  BY EmptySeq, HeadTailProperties DEF IInv, TypeOK

\* A recorded failure quarantines the client's hook, or ends its stream.
LEMMA RecordFailureStep ==
  ASSUME IInv, RecordFailure
  PROVE  IInv'
<1>1. /\ failures # <<>> /\ failures' = Tail(failures)
      /\ UNCHANGED <<expired, held, slot, given, queue, nextEvent, kind, cancelled,
                     foreign, pc, cur, subs, responder, verdict, decider, fate>>
  BY DEF RecordFailure, decisionVars, eventVars, laneVars
<1>2. PICK c \in Clients : c = Head(failures)
  BY <1>1, EmptySeq, HeadTailProperties DEF IInv, TypeOK
<1>3. CASE RemoveClient(c, "struck") /\ stalled' = [stalled EXCEPT ![c] = TRUE]
  <2>1. /\ order' \in Seq(Clients) /\ pending' \in [Clients -> Seq(Event)]
        /\ conn' = [conn EXCEPT ![c] = "struck"]
        /\ quarantined' = [quarantined EXCEPT ![c] = FALSE]
        /\ \A d \in Clients : d # c => (Up(d)' <=> Up(d)) /\ quarantined'[d] = quarantined[d]
        /\ ~Up(c)'
    BY <1>2, <1>3, RemovalProps
  <2>2. stalled' \in [Clients -> BOOLEAN]
    BY <1>3 DEF IInv, TypeOK
  <2>3. failures' \in Seq(Clients)
    BY <1>1, FailureTaken
  <2>4. TypeOK'
    BY <1>1, <1>2, <2>1, <2>2, <2>3 DEF IInv, TypeOK
  <2>5. /\ NoneTwice' /\ LaneShape' /\ EventOrder' /\ KeysInOrder' /\ Untraced' /\ StillToCall'
        /\ OneAnswer' /\ PendingOrder'
    BY <1>1, <1>2, <1>3, RemovalStep DEF laneVars
  <2> QED
    BY <2>3, <2>4, <2>5 DEF IInv
<1>4. CASE /\ UNCHANGED <<conn, order, pending>>
           /\ \/ UNCHANGED <<quarantined, stalled>>
              \/ /\ quarantined' = [quarantined EXCEPT ![c] = TRUE]
                 /\ stalled' = [stalled EXCEPT ![c] = TRUE]
  <2>1. stalled' \in [Clients -> BOOLEAN] /\ quarantined' \in [Clients -> BOOLEAN]
    BY <1>2, <1>4 DEF IInv, TypeOK
  <2>2. failures' \in Seq(Clients)
    BY <1>1, FailureTaken
  <2>3. TypeOK'
    BY <1>1, <1>4, <2>1, <2>2 DEF IInv, TypeOK
  <2>4. /\ NoneTwice' /\ LaneShape' /\ EventOrder' /\ KeysInOrder' /\ Untraced' /\ StillToCall'
        /\ OneAnswer' /\ PendingOrder'
    BY <1>1, <1>4, Frames
  <2> QED
    BY <2>2, <2>3, <2>4 DEF IInv
<1> QED
  BY <1>2, <1>3, <1>4 DEF RecordFailure

\* The quarantine ends.
LEMMA RearmStep ==
  ASSUME IInv, NEW c \in Clients, Rearm(c)
  PROVE  IInv'
<1>1. /\ Up(c) /\ quarantined[c]
      /\ quarantined' = [quarantined EXCEPT ![c] = FALSE]
      /\ stalled' = [stalled EXCEPT ![c] = FALSE]
      /\ UNCHANGED <<conn, order, failures, expired, pending, held, slot, given,
                     queue, nextEvent, kind, cancelled, foreign, pc, cur, subs, responder,
                     verdict, decider, fate>>
  BY DEF Rearm, seatVars, decisionVars, eventVars, laneVars
<1>2. TypeOK'
  BY <1>1 DEF IInv, TypeOK
<1> QED
  BY <1>1, <1>2, Frames DEF IInv

\* The client, or the daemon on behalf of the user, ends a stream.
LEMMA StreamEnds ==
  ASSUME IInv, NEW c \in Clients, Close(c) \/ Revoke(c)
  PROVE  IInv'
<1>1. PICK why \in {"closed", "revoked"} : RemoveClient(c, why)
  BY DEF Close, Revoke
<1>2. /\ UNCHANGED <<failures, expired, held, slot, given, queue, nextEvent, kind,
                     foreign, pc, cur, subs, responder, verdict, decider, fate>>
      /\ stalled' \in {stalled, [stalled EXCEPT ![c] = FALSE]}
      /\ cancelled' \in {cancelled, cancelled \cup InFlight}
  BY DEF Close, Revoke, seatVars, decisionVars, eventVars, laneVars
<1>3. /\ order' \in Seq(Clients) /\ pending' \in [Clients -> Seq(Event)]
      /\ conn' = [conn EXCEPT ![c] = why]
      /\ quarantined' = [quarantined EXCEPT ![c] = FALSE]
  BY <1>1, RemovalProps
<1>4. /\ stalled' \in [Clients -> BOOLEAN]
      /\ \A d \in Clients : d # c => stalled'[d] = stalled[d]
      /\ cancelled' \in SUBSET Event
  BY <1>2 DEF IInv, TypeOK, InFlight
<1>5. TypeOK'
  BY <1>2, <1>3, <1>4 DEF IInv, TypeOK
<1>6. /\ NoneTwice' /\ LaneShape' /\ EventOrder' /\ KeysInOrder' /\ Untraced' /\ StillToCall'
      /\ OneAnswer' /\ PendingOrder'
  BY <1>1, <1>2, <1>4, RemovalStep DEF laneVars
<1> QED
  BY <1>5, <1>6 DEF IInv

\* The panic chord, failing open and a change of the seat flush the lane; they
\* touch none of the streams.
LEMMA FlushStep ==
  ASSUME IInv, Panic \/ ApplyFailOpen \/ SeatChange
  PROVE  IInv'
<1>1. /\ UNCHANGED <<conn, quarantined, failures, stalled, expired, pending, held,
                     slot, given, queue, nextEvent, kind, pc, cur, subs, responder, verdict,
                     decider, fate>>
      /\ order' \in {order, <<>>}
      /\ cancelled' \in {cancelled, cancelled \cup InFlight}
      /\ foreign' \in {foreign, foreign \cup InFlight}
  BY DEF Panic, ApplyFailOpen, SeatChange, clientVars, streamVars, decisionVars, eventVars,
         laneVars
<1>2. order' \in Seq(Clients) /\ Distinct(order')
  <2>1. <<>> \in Seq(Clients) /\ Len(<<>>) = 0
    BY EmptySeq
  <2>2. Distinct(<<>>)
    BY <2>1 DEF Distinct
  <2> QED
    BY <1>1, <2>1, <2>2 DEF IInv, TypeOK, NoneTwice
<1>3. cancelled' \subseteq Event /\ foreign' \subseteq Event
  BY <1>1 DEF IInv, TypeOK, InFlight
<1>4. TypeOK' /\ NoneTwice'
  BY <1>1, <1>2, <1>3 DEF IInv, TypeOK, NoneTwice
<1> QED
  BY <1>1, <1>4, Frames DEF IInv
-----------------------------------------------------------------------------
(* The lane thread                                                         *)

\* The lane goes on to the subscribers after the first.
LEMMA SubsTail ==
  ASSUME IInv, subs # <<>>, subs' = Tail(subs)
  PROVE  /\ subs' \in Seq(Clients)
         /\ Distinct(subs')
         /\ \A i \in 1..Len(subs') : /\ subs'[i] \in Clients /\ subs'[i] # Head(subs)
                                     /\ i + 1 \in 1..Len(subs) /\ i + 1 > 1
                                     /\ subs'[i] = subs[i + 1]
<1>1. /\ Head(subs) = subs[1] /\ Len(subs) \in Nat \ {0} /\ subs' \in Seq(Clients)
      /\ Len(subs') = Len(subs) - 1
      /\ \A i \in 1..(Len(subs) - 1) : subs'[i] = subs[i + 1]
      /\ \A i \in 1..Len(subs) : subs[i] \in Clients
  BY Lookups DEF IInv
<1>2. \A i \in 1..Len(subs') : i + 1 \in 1..Len(subs) /\ i + 1 > 1 /\ subs'[i] = subs[i + 1]
  BY <1>1
<1>3. Distinct(subs) /\ 1 \in 1..Len(subs)
  BY <1>1 DEF IInv, NoneTwice
<1>4. \A i \in 1..Len(subs') : subs'[i] \in Clients /\ subs'[i] # Head(subs)
  BY <1>1, <1>2, <1>3 DEF Distinct
<1>5. Distinct(subs')
  <2> SUFFICES ASSUME NEW i \in 1..Len(subs'), NEW j \in 1..Len(subs'), subs'[i] = subs'[j]
               PROVE  i = j
    BY DEF Distinct
  <2>1. i + 1 = j + 1
    BY <1>2, <1>3 DEF Distinct
  <2> QED
    BY <1>1, <2>1
<1> QED
  BY <1>1, <1>2, <1>4, <1>5

\* When the lane waits for nobody, the last callback of each client is retired.
LEMMA PendingMove ==
  ASSUME IInv, UNCHANGED <<pending, nextEvent, queue, expired>>,
         pc' = "idle" \/ (cur' = cur /\ pc # "idle"), pc' \notin {"wait", "expired"},
         \A c \in Clients : pending[c] # <<>> => expired[c] = Last(c)
  PROVE  PendingOrder'
<1> SUFFICES ASSUME NEW c \in Clients PROVE PendingOf(c)'
  BY DEF PendingOrder
<1>1. PendingOf(c) /\ (pending[c] # <<>> => expired[c] = Last(c)) /\ Last(c)' = Last(c)
  BY DEF IInv, PendingOrder, Last
<1> QED
  BY <1>1 DEF PendingOf

\* The lane takes the oldest event; nobody has seen it.
LEMMA LanePopStep ==
  ASSUME IInv, LanePop
  PROVE  IInv'
<1>1. /\ pc = "idle" /\ queue # <<>> /\ queue' = Tail(queue)
      /\ cur' = Head(queue).event /\ subs' = Head(queue).subs
      /\ verdict' = "pass" /\ decider' = None /\ pc' \in {"finish", "next"}
      /\ UNCHANGED <<conn, order, quarantined, failures, stalled, expired, pending,
                     held, slot, given, nextEvent, kind, cancelled, foreign, responder, fate>>
  BY DEF LanePop, clientVars, seatVars, streamVars, decisionVars
<1>2. /\ queue \in Seq([event : Event, subs : Seq(Clients)])
      /\ Head(queue) = queue[1] /\ Len(queue) \in Nat \ {0}
      /\ Tail(queue) \in Seq([event : Event, subs : Seq(Clients)])
      /\ Len(queue') = Len(queue) - 1
      /\ \A i \in 1..Len(queue') : queue'[i] = queue[i + 1]
  BY <1>1, EmptySeq, HeadTailProperties DEF IInv, TypeOK
<1>3. 1 \in 1..Len(queue) /\ \A i \in 1..Len(queue') :
        i + 1 \in 1..Len(queue) /\ 1 < i + 1 /\ queue'[i] = queue[i + 1]
  BY <1>2
<1>4. /\ cur' = queue[1].event /\ cur' \in Event /\ cur' # 0
      /\ subs' = queue[1].subs /\ subs' \in Seq(Clients)
      /\ cur' < nextEvent /\ fate[cur'] = "queued"
      /\ cur = 0 /\ responder = None
  BY <1>1, <1>2, <1>3, Lookups DEF IInv, EventOrder, LaneShape
<1>5. TypeOK'
  BY <1>1, <1>2, <1>4 DEF IInv, TypeOK, VerdictSet
<1>6. LaneShape'
  BY <1>1, <1>4 DEF LaneShape, Calling
<1>7. NoneTwice'
  BY <1>1, <1>3, <1>4 DEF IInv, NoneTwice
<1>9. EventOrder'
  <2>1. \A i \in 1..Len(queue') : /\ queue'[i].event < nextEvent /\ cur' < queue'[i].event
                                  /\ fate[queue'[i].event] = "queued"
    <3> TAKE i \in 1..Len(queue')
    <3>1. i + 1 \in 1..Len(queue) /\ 1 < i + 1 /\ queue'[i] = queue[i + 1] /\ 1 \in 1..Len(queue)
      BY <1>3
    <3>2. queue[1].event < queue[i + 1].event
      BY <3>1 DEF IInv, EventOrder
    <3>3. queue[i + 1].event < nextEvent /\ fate[queue[i + 1].event] = "queued"
      BY <3>1 DEF IInv, EventOrder
    <3> QED
      BY <1>4, <3>1, <3>2, <3>3
  <2>2. \A i, j \in 1..Len(queue') : i < j => queue'[i].event < queue'[j].event
    <3> TAKE i \in 1..Len(queue'), j \in 1..Len(queue')
    <3> HAVE i < j
    <3>1. i + 1 < j + 1
      BY <1>2
    <3> QED
      BY <1>3, <3>1 DEF IInv, EventOrder
  <2>3. ASSUME NEW e \in Event, fate[e] = "queued"
        PROVE  e = cur' \/ \E i \in 1..Len(queue') : queue'[i].event = e
    <3>1. PICK i \in 1..Len(queue) : queue[i].event = e
      BY <1>4, <2>3, Lookups DEF IInv, EventOrder
    <3>2. i # 1 => i - 1 \in 1..Len(queue') /\ (i - 1) + 1 = i
      BY <1>2
    <3> QED
      BY <1>3, <1>4, <3>1, <3>2
  <2> QED
    BY <1>1, <1>4, <2>1, <2>2, <2>3 DEF IInv, EventOrder
<1>10. KeysInOrder'
  BY <1>1, Frames
<1>11. Untraced'
  <2>1. \A e \in Event : Traced(e)' <=> Traced(e)
    BY <1>1 DEF Traced, InPending
  <2> QED
    BY <1>1, <1>3, <2>1 DEF IInv, Untraced
<1>12. StillToCall'
  <2>1. ~Traced(cur')
    BY <1>3, <1>4 DEF IInv, Untraced
  <2>2. \A d \in Clients : Untouched(d)'
    BY <1>1, <2>1 DEF Traced, Untouched, InPending
  <2>3. \A i \in 1..Len(subs') : subs'[i] \in Clients
    BY <1>4, ElementOfSeq
  <2>4. \A i \in 1..Len(subs') : Untouched(subs[i])'
    BY <2>2, <2>3 DEF Untouched, InPending
  <2> QED
    BY <1>1, <2>4 DEF StillToCall
<1>13. OneAnswer'
  BY <1>1 DEF IInv, OneAnswer, Underway, InPending
<1>14. PendingOrder'
  <2> SUFFICES ASSUME NEW c \in Clients PROVE PendingOf(c)'
    BY DEF PendingOrder
  <2>1. PendingOf(c) /\ (pending[c] # <<>> => expired[c] = Last(c)) /\ Last(c)' = Last(c)
        /\ pending'[c] = pending[c]
    BY <1>1, <1>4, ClientAssumption DEF IInv, PendingOrder, PendingOf, Last
  <2>2. \A i \in 1..Len(pending[c]) : pending[c][i] <= cur'
    <3> TAKE i \in 1..Len(pending[c])
    <3>1. pending[c][i] < cur'
      BY <1>3, <1>4, <2>1 DEF PendingOf
    <3>2. pending[c][i] \in Nat /\ cur' \in Nat
      BY <1>4, Lookups DEF IInv
    <3> QED
      BY <3>1, <3>2
  <2>3. \A i \in 1..Len(pending[c]), j \in 1..Len(queue') : pending[c][i] < queue'[j].event
    BY <1>3, <2>1 DEF PendingOf
  <2> QED
    BY <1>1, <2>1, <2>2, <2>3 DEF PendingOf
<1> QED
  BY <1>5, <1>6, <1>7, <1>9, <1>10, <1>11, <1>12, <1>13, <1>14 DEF IInv

\* A step of the lane that only moves on within its event: to another place,
\* another subscriber, another responder.
LEMMA LaneMoves ==
  ASSUME IInv, pc # "idle", pc' # "idle",
         UNCHANGED <<conn, order, quarantined, held, given, queue, nextEvent, kind,
                     cancelled, foreign, cur, fate>>,
         subs' = subs \/ (subs # <<>> /\ subs' = Tail(subs)),
         responder' = (IF pc' \in {"send", "wait", "expired"} THEN Head(subs') ELSE None),
         Calling' => subs' # <<>>
  PROVE  /\ LaneShape' /\ NoneTwice' /\ EventOrder' /\ KeysInOrder'
         /\ subs' \in Seq(Clients)
         /\ cur' # 0 /\ cur \in Event /\ fate[cur] = "queued"
         /\ UNCHANGED <<slot, expired, pending>> => Untraced'
<1>1. subs' \in Seq(Clients) /\ Distinct(subs')
  BY SubsTail DEF IInv, TypeOK, NoneTwice
<1>2. cur' # 0 /\ cur \in Event /\ fate[cur] = "queued"
  BY DEF IInv, TypeOK, LaneShape, EventOrder
<1>3. LaneShape'
  BY <1>2 DEF LaneShape
<1>4. NoneTwice'
  BY <1>1 DEF IInv, NoneTwice
<1>5. EventOrder' /\ KeysInOrder' /\ (UNCHANGED <<slot, expired, pending>> => Untraced')
  BY Frames
<1> QED
  BY <1>1, <1>2, <1>3, <1>4, <1>5

\* The next subscriber is passed over when it is stalled.
LEMMA LaneNextStep ==
  ASSUME IInv, LaneNext
  PROVE  IInv'
<1>1. /\ pc = "next" /\ pc' \in {"finish", "next", "turn"}
      /\ UNCHANGED <<conn, order, quarantined, failures, stalled, expired, pending,
                     held, slot, given, queue, nextEvent, kind, cancelled, foreign, cur,
                     responder, verdict, decider, fate>>
      /\ subs' = subs \/ (subs # <<>> /\ subs' = Tail(subs))
      /\ pc' = "turn" => subs' = subs /\ subs # <<>> /\ ~stalled[Head(subs)]
  BY DEF LaneNext, clientVars, seatVars, streamVars, decisionVars, eventVars
<1>2. responder = None
  BY <1>1 DEF IInv, LaneShape
<1>3. LaneShape' /\ NoneTwice' /\ EventOrder' /\ KeysInOrder' /\ subs' \in Seq(Clients) /\ Untraced'
  BY <1>1, <1>2, LaneMoves DEF Calling
<1>4. TypeOK'
  BY <1>1, <1>3 DEF IInv, TypeOK
<1>6. StillToCall'
  <2>1. \A d \in Clients : Untouched(d)' <=> Untouched(d)
    BY <1>1 DEF Untouched, InPending
  <2>2. \A i \in 1..Len(subs') : Untouched(subs[i])'
    <3> TAKE i \in 1..Len(subs')
    <3>1. subs'[i] \in Clients /\ Untouched(subs'[i])
      BY <1>1, SubsTail, Lookups DEF IInv, StillToCall
    <3> QED
      BY <1>1, <3>1 DEF Untouched, InPending
  <2> QED
    BY <1>1, <2>2 DEF StillToCall
<1>7. OneAnswer'
  BY <1>1 DEF IInv, OneAnswer, Underway, InPending
<1>8. PendingOrder'
  BY <1>1, <1>2, PendingMove, ClientAssumption DEF IInv, PendingOrder, PendingOf
<1> QED
  BY <1>3, <1>4, <1>6, <1>7, <1>8 DEF IInv

\* The turn is granted by an open stream; otherwise the subscriber is passed over.
LEMMA LaneTurnStep ==
  ASSUME IInv, LaneTurn
  PROVE  IInv'
<1>1. /\ pc = "turn" /\ pc' \in {"finish", "send", "next"}
      /\ UNCHANGED <<conn, order, quarantined, failures, stalled, expired, pending,
                     held, slot, given, queue, nextEvent, kind, cancelled, foreign, cur,
                     verdict, decider, fate>>
      /\ pc' = "finish" => subs' = subs /\ responder' = responder
      /\ pc' = "send" => subs' = subs /\ responder' = Head(subs)
      /\ pc' = "next" => subs' = Tail(subs) /\ responder' = responder
  BY DEF LaneTurn, clientVars, seatVars, streamVars, decisionVars, eventVars
<1>2. responder = None /\ subs # <<>>
  BY <1>1 DEF IInv, LaneShape, Calling
<1>3. LaneShape' /\ NoneTwice' /\ EventOrder' /\ KeysInOrder' /\ subs' \in Seq(Clients) /\ Untraced'
  BY <1>1, <1>2, LaneMoves DEF Calling
<1>4. TypeOK'
  <2>1. responder' \in Clients \cup {None}
    BY <1>1, <1>2, Lookups DEF IInv
  <2> QED
    BY <1>1, <1>3, <2>1 DEF IInv, TypeOK
<1>6. StillToCall'
  <2>1. ASSUME pc' # "finish"
        PROVE  \A i \in 1..Len(subs') : Untouched(subs[i])'
    <3> TAKE i \in 1..Len(subs')
    <3>1. subs'[i] \in Clients /\ Untouched(subs'[i])
      BY <1>1, <1>2, <2>1, SubsTail, Lookups DEF IInv, StillToCall
    <3> QED
      BY <1>1, <3>1 DEF Untouched, InPending
  <2> QED
    BY <1>1, <2>1 DEF StillToCall
<1>7. OneAnswer'
  <2>1. verdict = "pass"
    BY <1>1 DEF IInv, OneAnswer
  <2> QED
    BY <1>1, <2>1 DEF IInv, OneAnswer, Underway, InPending
<1>8. PendingOrder'
  BY <1>1, <1>2, PendingMove, ClientAssumption DEF IInv, PendingOrder, PendingOf
<1> QED
  BY <1>3, <1>4, <1>6, <1>7, <1>8 DEF IInv

\* A failure joins the queue, or is turned into fail-open.
LEMMA PostProps ==
  ASSUME IInv, NEW c \in Clients, PostFailure(c)
  PROVE  failures' \in Seq(Clients)
<1>1. failures \in Seq(Clients)
  BY DEF IInv, TypeOK
<1>2. Append(failures, c) \in Seq(Clients)
  BY <1>1, AppendProperties
<1> QED
  BY <1>1, <1>2 DEF PostFailure

\* A write delivers the callback, or gives the subscriber up.
LEMMA LaneSendStep ==
  ASSUME IInv, LaneSend
  PROVE  IInv'
<1>1. /\ pc = "send"
      /\ UNCHANGED <<conn, order, quarantined, stalled, expired, held, slot, given, queue,
                     nextEvent, kind, cancelled, foreign, cur, verdict, decider, fate>>
  BY DEF LaneSend, clientVars, decisionVars, eventVars
<1>2. PICK c \in Clients : c = Head(subs)
  BY <1>1, Lookups DEF IInv, LaneShape, Calling
<1>3. /\ subs # <<>> /\ responder = c /\ verdict = "pass" /\ subs[1] = c
      /\ 1 \in 1..Len(subs) /\ Untouched(c)
  <2>1. subs # <<>> /\ responder = c /\ verdict = "pass"
    BY <1>1, <1>2 DEF IInv, LaneShape, Calling, OneAnswer
  <2>2. subs[1] = c /\ 1 \in 1..Len(subs)
    BY <1>2, <2>1, Lookups DEF IInv
  <2> QED
    BY <1>1, <2>1, <2>2 DEF IInv, StillToCall
<1>4. \A i \in 1..Len(subs) : subs[i] \in Clients /\ Untouched(subs[i]) /\ (i > 1 => subs[i] # c)
  <2>1. Distinct(subs)
    BY DEF IInv, NoneTwice
  <2> QED
    BY <1>1, <1>3, <2>1, Lookups DEF IInv, StillToCall, Distinct
<1>5. \A d \in Clients : pending[d] # <<>> => expired[d] = Last(d)
  <2>1. ASSUME NEW d \in Clients, pending[d] # <<>> PROVE expired[d] = Last(d)
    <3>1. (cur = Last(d) /\ d = c) \/ expired[d] = Last(d)
      BY <1>3, <2>1 DEF IInv, PendingOrder, PendingOf
    <3>2. Len(pending[d]) \in 1..Len(pending[d])
      BY <2>1, EmptySeq, LenProperties DEF IInv, TypeOK
    <3>3. d = c => cur # Last(d)
      BY <1>3, <3>2 DEF Untouched, InPending, Last
    <3> QED
      BY <3>1, <3>3
  <2> QED
    BY <2>1
<1>6. pending \in [Clients -> Seq(Event)]
  BY DEF IInv, TypeOK
<1>7. CASE /\ Up(c)
           /\ pending' = [pending EXCEPT ![c] = Append(@, cur)]
           /\ pc' = "wait"
           /\ UNCHANGED <<subs, responder, failures, failOpen, trouble>>
  <2>1. /\ LaneShape' /\ NoneTwice' /\ EventOrder' /\ KeysInOrder' /\ cur # 0 /\ cur \in Event
        /\ fate[cur] = "queued"
    BY <1>1, <1>2, <1>3, <1>7, LaneMoves DEF Calling
  <2> DEFINE n == Len(pending[c])
  <2>2. /\ pending' \in [Clients -> Seq(Event)] /\ n \in Nat
        /\ \A d \in Clients : d # c => pending'[d] = pending[d]
        /\ Len(pending'[c]) = n + 1
        /\ \A i \in 1..n : pending'[c][i] = pending[c][i]
        /\ pending'[c][n + 1] = cur
    <3>1. pending'[c] = Append(pending[c], cur) /\ pending[c] \in Seq(Event)
      BY <1>6, <1>7
    <3>2. /\ Append(pending[c], cur) \in Seq(Event) /\ n \in Nat
          /\ Len(pending'[c]) = n + 1
          /\ \A i \in 1..n : pending'[c][i] = pending[c][i]
          /\ pending'[c][n + 1] = cur
      BY <2>1, <3>1, AppendProperties, LenProperties
    <3> QED
      BY <1>6, <1>7, <3>2
  <2>3. \A i \in 1..(n + 1) : \/ i \in 1..n /\ pending'[c][i] = pending[c][i]
                              \/ i = n + 1 /\ pending'[c][i] = cur
    BY <2>2
  <2> HIDE DEF n
  <2>4. \A d \in Clients : \A x : InPending(d, x)' => InPending(d, x) \/ (d = c /\ x = cur)
    BY <2>2, <2>3 DEF InPending, n
  <2>5. TypeOK'
    BY <1>1, <1>7, <2>2 DEF IInv, TypeOK
  <2>7. Untraced'
    <3>1. \A x \in Event : Traced(x)' => Traced(x) \/ x = cur
      BY <1>1, <2>4 DEF Traced
    <3>2. ~(cur >= nextEvent) /\ \A i \in 1..Len(queue) : queue[i].event # cur
      <4>1. cur \in Nat /\ nextEvent \in Nat /\ \A i \in 1..Len(queue) : queue[i].event \in Nat
        BY <2>1, Lookups DEF IInv, TypeOK
      <4>2. cur < nextEvent /\ \A i \in 1..Len(queue) : cur < queue[i].event
        BY DEF IInv, EventOrder
      <4> QED
        BY <4>1, <4>2
    <3> QED
      BY <1>1, <3>1, <3>2 DEF IInv, Untraced
  <2>8. StillToCall'
    <3>1. \A d \in Clients : d # c /\ Untouched(d) => Untouched(d)'
      BY <1>1, <2>4 DEF Untouched
    <3>2. \A i \in 1..Len(subs) : i > 1 => Untouched(subs[i])'
      <4> TAKE i \in 1..Len(subs)
      <4> HAVE i > 1
      <4>1. subs[i] \in Clients /\ subs[i] # c /\ Untouched(subs[i]) /\ subs'[i] = subs[i]
        BY <1>4, <1>7
      <4> QED
        BY <3>1, <4>1 DEF Untouched, InPending
    <3>3. expired'[Head(subs')] # cur'
      BY <1>1, <1>2, <1>3, <1>7 DEF Untouched
    <3> QED
      BY <1>7, <3>2, <3>3 DEF StillToCall
  <2>9. OneAnswer'
    <3>1. ASSUME NEW d \in DecisionSet \cup {NoDecision}, Underway(d), d = held \/ d = slot
          PROVE  Underway(d)'
      <4> SUFFICES ASSUME d # NoDecision, fate[d.event] = "queued"
                   PROVE  /\ ~InPending(d.client, d.event)'
                          /\ d.verdict # "pass" => given[d.client][d.event] = d.verdict
        BY <1>1 DEF Underway
      <4>1. d.client \in Clients
        BY DEF DecisionSet
      <4>2. ~(d.client = c /\ d.event = cur)
        BY <1>3, <3>1 DEF Untouched
      <4> QED
        BY <2>4, <3>1, <4>1, <4>2 DEF Underway
    <3>2. Underway(held)' /\ Underway(slot)'
      BY <1>1, <3>1 DEF IInv, TypeOK, OneAnswer, Underway
    <3> QED
      BY <1>1, <1>3, <3>2 DEF OneAnswer
  <2>10. PendingOrder'
    <3>1. ASSUME NEW d \in Clients, d # c PROVE PendingOf(d)'
      <4>1. PendingOf(d) /\ pending'[d] = pending[d] /\ Last(d)' = Last(d)
            /\ (pending[d] # <<>> => expired[d] = Last(d))
        BY <1>5, <2>2, <3>1 DEF IInv, PendingOrder, Last
      <4> QED
        BY <1>1, <1>2, <1>7, <3>1, <4>1 DEF PendingOf
    <3>2. PendingOf(c)
      BY DEF IInv, PendingOrder
    <3>3. \A i \in 1..n : pending[c][i] < cur /\ pending[c][i] \in Nat
      <4> TAKE i \in 1..n
      <4>1. pending[c][i] <= cur /\ pending[c][i] # cur
        BY <1>1, <1>3, <3>2 DEF PendingOf, Untouched, InPending, n
      <4>2. pending[c][i] \in Nat /\ cur \in Nat
        BY <2>1, Lookups DEF IInv, n
      <4> QED
        BY <4>1, <4>2
    <3>4. \A i, j \in 1..(n + 1) : i < j => pending'[c][i] < pending'[c][j]
      <4> TAKE i \in 1..(n + 1), j \in 1..(n + 1)
      <4> HAVE i < j
      <4>1. i \in 1..n /\ pending'[c][i] = pending[c][i]
        BY <2>2, <2>3
      <4> QED
        BY <2>3, <3>2, <3>3, <4>1 DEF PendingOf, n
    <3>5. \A i \in 1..(n + 1) : /\ pending'[c][i] < nextEvent /\ pending'[c][i] <= cur
                                /\ \A j \in 1..Len(queue) : pending'[c][i] < queue[j].event
      <4> TAKE i \in 1..(n + 1)
      <4>1. CASE i \in 1..n /\ pending'[c][i] = pending[c][i]
        BY <1>1, <3>2, <4>1 DEF PendingOf, n
      <4>2. CASE pending'[c][i] = cur
        <5>1. cur < nextEvent /\ \A j \in 1..Len(queue) : cur < queue[j].event
          BY DEF IInv, EventOrder
        <5>2. cur <= cur
          BY <2>1, Lookups DEF IInv
        <5> QED
          BY <4>2, <5>1, <5>2
      <4> QED
        BY <2>3, <4>1, <4>2
    <3>6. Last(c)' = cur
      BY <2>2 DEF Last
    <3>7. PendingOf(c)'
      BY <1>1, <1>3, <1>7, <2>2, <3>4, <3>5, <3>6 DEF PendingOf
    <3> QED
      BY <3>1, <3>7 DEF PendingOrder
  <2> QED
    BY <2>1, <2>5, <2>7, <2>8, <2>9, <2>10 DEF IInv
<1>8. CASE /\ responder' = None /\ PostFailure(c) /\ subs' = Tail(subs) /\ pc' = "next"
           /\ UNCHANGED pending
  <2>2. subs' \in Seq(Clients) /\ Distinct(subs')
        /\ \A i \in 1..Len(subs') : subs'[i] \in Clients /\ Untouched(subs'[i])
    BY <1>3, <1>4, <1>8, SubsTail
  <2>3. LaneShape' /\ NoneTwice'
    BY <1>1, <1>8, <2>2 DEF IInv, LaneShape, NoneTwice, Calling
  <2>4. EventOrder' /\ KeysInOrder' /\ Untraced'
    BY <1>1, <1>8, Frames
  <2>5. failures' \in Seq(Clients)
    BY <1>8, PostProps
  <2>6. TypeOK'
    BY <1>1, <1>8, <2>2, <2>5 DEF IInv, TypeOK
  <2>8. StillToCall'
    <3>1. \A i \in 1..Len(subs') : Untouched(subs[i])'
      BY <1>1, <1>8, <2>2 DEF Untouched, InPending
    <3> QED
      BY <1>8, <3>1 DEF StillToCall
  <2>9. OneAnswer'
    BY <1>1, <1>3, <1>8 DEF IInv, OneAnswer, Underway, InPending
  <2>10. PendingOrder'
    BY <1>1, <1>5, <1>8, PendingMove
  <2> QED
    BY <2>3, <2>4, <2>6, <2>8, <2>9, <2>10 DEF IInv
<1> QED
  BY <1>2, <1>7, <1>8 DEF LaneSend

\* The callback the lane is in: its client, and that nothing queued is about it.
LEMMA InCall ==
  ASSUME IInv, pc \in {"wait", "expired", "retired"}
  PROVE  /\ subs # <<>> /\ Head(subs) \in Clients /\ verdict = "pass"
         /\ cur # 0 /\ cur \in Event /\ fate[cur] = "queued"
         /\ cur < nextEvent /\ ~(cur >= nextEvent)
         /\ \A i \in 1..Len(queue) : queue[i].event # cur
         /\ \A i \in 1..Len(subs) : i > 1 => subs[i] \in Clients /\ subs[i] # Head(subs)
         /\ responder = (IF pc = "retired" THEN None ELSE Head(subs))
         /\ \A d \in Clients : d # Head(subs) /\ pending[d] # <<>> => expired[d] = Last(d)
<1>1. subs # <<>> /\ verdict = "pass" /\ cur # 0 /\ responder = (IF pc = "retired" THEN None ELSE Head(subs))
  BY DEF IInv, LaneShape, Calling, OneAnswer
<1>2. Head(subs) \in Clients /\ Head(subs) = subs[1] /\ 1 \in 1..Len(subs)
  BY <1>1, Lookups DEF IInv
<1>3. cur \in Event /\ fate[cur] = "queued" /\ cur < nextEvent
  BY <1>1 DEF IInv, TypeOK, EventOrder
<1>4. cur \in Nat /\ nextEvent \in Nat /\ \A i \in 1..Len(queue) : queue[i].event \in Nat
  BY <1>3, Lookups DEF IInv, TypeOK
<1>5. ~(cur >= nextEvent) /\ \A i \in 1..Len(queue) : queue[i].event # cur
  <2>1. \A i \in 1..Len(queue) : cur < queue[i].event
    BY DEF IInv, EventOrder
  <2> QED
    BY <1>3, <1>4, <2>1
<1>6. \A i \in 1..Len(subs) : i > 1 => subs[i] \in Clients /\ subs[i] # Head(subs)
  <2>1. Distinct(subs)
    BY DEF IInv, NoneTwice
  <2> QED
    BY <1>2, <2>1, Lookups DEF IInv, Distinct
<1>7. \A d \in Clients : d # Head(subs) /\ pending[d] # <<>> => expired[d] = Last(d)
  BY <1>1, ClientAssumption DEF IInv, PendingOrder, PendingOf
<1> QED
  BY <1>1, <1>2, <1>3, <1>5, <1>6, <1>7

\* A decision that answers the lane's question ends the call; another is discarded.
LEMMA LaneTakeStep ==
  ASSUME IInv, LaneTake
  PROVE  IInv'
<1>1. /\ pc = "wait" /\ slot # NoDecision /\ slot' = NoDecision
      /\ UNCHANGED <<conn, order, quarantined, failures, expired, pending, held,
                     given, queue, nextEvent, kind, cancelled, foreign, cur, fate>>
  BY DEF LaneTake, clientVars, seatVars, eventVars
<1>2. /\ subs # <<>> /\ Head(subs) \in Clients /\ verdict = "pass" /\ cur # 0 /\ cur \in Event
      /\ fate[cur] = "queued"
      /\ \A i \in 1..Len(subs) : i > 1 => subs[i] \in Clients /\ subs[i] # Head(subs)
      /\ responder = Head(subs)
      /\ \A d \in Clients : d # Head(subs) /\ pending[d] # <<>> => expired[d] = Last(d)
  BY <1>1, InCall
<1>3. PICK c \in Clients : c = Head(subs)
  BY <1>2
<1>4. NoDecision.event = 0 /\ 0 \notin Event /\ slot \in DecisionSet
  BY <1>1, Lookups DEF NoDecision, IInv, TypeOK
<1>5. \A i \in 1..Len(subs) : i > 1 => Untouched(subs[i])
  BY <1>1 DEF IInv, StillToCall
<1>6. \A d \in Clients : Untouched(d) => Untouched(d)'
  BY <1>1, <1>2, <1>4 DEF Untouched, InPending
<1>7. Untraced'
  <2>1. \A x \in Event : Traced(x)' => Traced(x)
    BY <1>1, <1>4 DEF Traced, InPending
  <2> QED
    BY <1>1, <2>1 DEF IInv, Untraced
<1>8. EventOrder' /\ KeysInOrder'
  BY <1>1, Frames
<1>9. Underway(held)' /\ Underway(slot)'
  BY <1>1 DEF IInv, OneAnswer, Underway, InPending
<1>10. CASE /\ Answers(slot, cur, c)
            /\ responder' = None
            /\ stalled' = [stalled EXCEPT ![c] = FALSE]
            /\ subs' = Tail(subs)
            /\ \/ slot.verdict = "pass" /\ pc' = "next" /\ UNCHANGED <<verdict, decider>>
               \/ /\ slot.verdict # "pass"
                  /\ pc' = "finish" /\ verdict' = slot.verdict /\ decider' = slot.client
  <2>1. slot.event = cur /\ slot.client = c /\ slot.verdict \in VerdictSet
    BY <1>4, <1>10 DEF Answers, DecisionSet
  <2>2. ~InPending(c, cur) /\ (slot.verdict # "pass" => given[c][cur] = slot.verdict)
    BY <1>1, <1>2, <2>1 DEF IInv, OneAnswer, Underway
  <2>3. subs' \in Seq(Clients) /\ Distinct(subs')
        /\ \A i \in 1..Len(subs') : subs'[i] \in Clients /\ Untouched(subs'[i])
    BY <1>2, <1>5, <1>10, SubsTail
  <2>4. LaneShape' /\ NoneTwice'
    BY <1>1, <1>2, <1>10, <2>3 DEF IInv, LaneShape, NoneTwice, Calling
  <2>5. stalled' \in [Clients -> BOOLEAN] /\ \A d \in Clients : d # c => stalled'[d] = stalled[d]
    BY <1>10 DEF IInv, TypeOK
  <2>6. TypeOK'
    BY <1>1, <1>10, <2>1, <2>3, <2>5 DEF IInv, TypeOK
  <2>8. StillToCall'
    <3>1. \A i \in 1..Len(subs') : Untouched(subs[i])'
      <4> TAKE i \in 1..Len(subs')
      <4>1. subs'[i] \in Clients /\ Untouched(subs'[i])
        BY <2>3
      <4> QED
        BY <1>6, <4>1 DEF Untouched, InPending
    <3> QED
      BY <1>10, <3>1 DEF StillToCall
  <2>9. OneAnswer'
    <3>1. ASSUME slot.verdict # "pass"
          PROVE  /\ pc' = "finish" /\ decider' # None /\ expired'[decider'] # cur'
                 /\ given'[decider'][cur'] = verdict' /\ ~InPending(decider, cur)'
      <4>1. pc' = "finish" /\ decider' = c /\ verdict' = slot.verdict /\ expired[c] # cur
        BY <1>1, <1>3, <1>10, <2>1, <3>1 DEF IInv, StillToCall
      <4> QED
        BY <1>1, <2>2, <3>1, <4>1, ClientAssumption DEF InPending
    <3> QED
      BY <1>2, <1>9, <1>10, <3>1 DEF OneAnswer
  <2>10. PendingOrder'
    <3>1. pending[c] = <<>>
      <4> SUFFICES ASSUME pending[c] # <<>> PROVE FALSE
        OBVIOUS
      <4>1. Last(c) = cur
        BY <1>1, <1>3 DEF IInv, PendingOrder, PendingOf
      <4>2. Len(pending[c]) \in 1..Len(pending[c])
        BY EmptySeq, LenProperties DEF IInv, TypeOK
      <4> QED
        BY <2>2, <4>1, <4>2 DEF InPending, Last
    <3> QED
      BY <1>1, <1>2, <1>3, <1>10, <3>1, PendingMove
  <2> QED
    BY <1>7, <1>8, <2>4, <2>6, <2>8, <2>9, <2>10 DEF IInv
<1>11. CASE UNCHANGED <<responder, stalled, subs, pc, verdict, decider>>
  <2>1. TypeOK'
    BY <1>1, <1>11 DEF IInv, TypeOK
  <2>2. LaneShape' /\ NoneTwice' /\ PendingOrder'
    BY <1>1, <1>11, Frames
  <2>3. StillToCall'
    <3>1. \A i \in 1..Len(subs) : i > 1 => Untouched(subs[i])'
      <4> TAKE i \in 1..Len(subs)
      <4> HAVE i > 1
      <4>1. subs[i] \in Clients /\ Untouched(subs[i]) /\ subs'[i] = subs[i]
        BY <1>2, <1>5, <1>11
      <4> QED
        BY <1>6, <4>1 DEF Untouched, InPending
    <3> QED
      BY <1>1, <1>11, <3>1 DEF IInv, StillToCall
  <2>4. OneAnswer'
    BY <1>2, <1>9, <1>11 DEF OneAnswer
  <2> QED
    BY <1>7, <1>8, <2>1, <2>2, <2>3, <2>4 DEF IInv
<1> QED
  BY <1>3, <1>10, <1>11 DEF LaneTake

\* The reply is retired.
LEMMA LaneExpireStep ==
  ASSUME IInv, LaneExpire
  PROVE  IInv'
<1>1. /\ pc = "wait" /\ pc' = "expired" /\ expired' = [expired EXCEPT ![Head(subs)] = cur]
      /\ UNCHANGED <<conn, order, quarantined, failures, stalled, pending, held, slot,
                     given, queue, nextEvent, kind, cancelled, foreign, cur, subs, responder,
                     verdict, decider, fate>>
  BY DEF LaneExpire, clientVars, seatVars, decisionVars, eventVars
<1>2. /\ subs # <<>> /\ Head(subs) \in Clients /\ verdict = "pass" /\ cur # 0 /\ cur \in Event
      /\ ~(cur >= nextEvent)
      /\ \A i \in 1..Len(queue) : queue[i].event # cur
      /\ \A i \in 1..Len(subs) : i > 1 => subs[i] \in Clients /\ subs[i] # Head(subs)
      /\ responder = Head(subs)
  BY <1>1, InCall
<1>3. PICK c \in Clients : c = Head(subs)
  BY <1>2
<1>4. /\ expired' \in [Clients -> Event \cup {0}] /\ expired'[c] = cur
      /\ \A d \in Clients : d # c => expired'[d] = expired[d]
  BY <1>1, <1>2, <1>3 DEF IInv, TypeOK
<1>5. TypeOK'
  BY <1>1, <1>4 DEF IInv, TypeOK
<1>6. LaneShape' /\ NoneTwice' /\ EventOrder' /\ KeysInOrder'
  BY <1>1, <1>2, LaneMoves DEF Calling
<1>8. Untraced'
  <2>1. \A x \in Event : Traced(x)' => Traced(x) \/ x = cur
    BY <1>1, <1>4 DEF Traced, InPending
  <2> QED
    BY <1>1, <1>2, <2>1 DEF IInv, Untraced
<1>9. StillToCall'
  <2>1. \A i \in 1..Len(subs) : i > 1 => Untouched(subs[i])'
    <3> TAKE i \in 1..Len(subs)
    <3> HAVE i > 1
    <3>1. subs[i] \in Clients /\ subs[i] # c /\ Untouched(subs[i]) /\ subs'[i] = subs[i]
      BY <1>1, <1>2, <1>3 DEF IInv, StillToCall
    <3> QED
      BY <1>1, <1>4, <3>1 DEF Untouched, InPending
  <2>2. expired'[Head(subs')] = cur'
    BY <1>1, <1>3, <1>4
  <2> QED
    BY <1>1, <2>1, <2>2 DEF StillToCall
<1>10. OneAnswer'
  BY <1>1, <1>2 DEF IInv, OneAnswer, Underway, InPending
<1>11. PendingOrder'
  <2> SUFFICES ASSUME NEW d \in Clients PROVE PendingOf(d)'
    BY DEF PendingOrder
  <2>1. PendingOf(d) /\ Last(d)' = Last(d)
    BY <1>1 DEF IInv, PendingOrder, Last
  <2>2. d = c /\ pending[d] # <<>> => Last(d) = cur
    BY <1>1, <1>3, <2>1 DEF PendingOf
  <2> QED
    BY <1>1, <1>2, <1>3, <1>4, <2>1, <2>2 DEF PendingOf
<1> QED
  BY <1>5, <1>6, <1>8, <1>9, <1>10, <1>11 DEF IInv

\* The responder is cleared when the reply is retired already.
LEMMA LaneClearResponderStep ==
  ASSUME IInv, LaneClearResponder
  PROVE  IInv'
<1>1. /\ pc = "expired" /\ pc' = "retired" /\ responder' = None
      /\ UNCHANGED <<conn, order, quarantined, failures, stalled, expired, pending,
                     held, slot, given, queue, nextEvent, kind, cancelled, foreign, cur, subs,
                     verdict, decider, fate>>
  BY DEF LaneClearResponder, clientVars, seatVars, streamVars, decisionVars, eventVars
<1>2. /\ subs # <<>> /\ Head(subs) \in Clients /\ verdict = "pass"
      /\ \A d \in Clients : d # Head(subs) /\ pending[d] # <<>> => expired[d] = Last(d)
  BY <1>1, InCall
<1>3. LaneShape' /\ NoneTwice' /\ EventOrder' /\ KeysInOrder' /\ Untraced'
  BY <1>1, <1>2, LaneMoves DEF Calling
<1>4. TypeOK'
  BY <1>1 DEF IInv, TypeOK
<1>6. StillToCall'
  BY <1>1 DEF IInv, StillToCall, Untouched, InPending
<1>7. OneAnswer'
  BY <1>1, <1>2 DEF IInv, OneAnswer, Underway, InPending
<1>8. PendingOrder'
  <2>1. pending[Head(subs)] # <<>> => expired[Head(subs)] = Last(Head(subs))
    BY <1>1, <1>2 DEF IInv, PendingOrder, PendingOf, StillToCall
  <2> QED
    BY <1>1, <1>2, <2>1, PendingMove
<1> QED
  BY <1>3, <1>4, <1>6, <1>7, <1>8 DEF IInv

\* The stream is stalled and its failure posted, unless the event was cancelled.
LEMMA LaneStallStep ==
  ASSUME IInv, LaneStall
  PROVE  IInv'
<1>1. /\ pc = "retired"
      /\ UNCHANGED <<conn, order, quarantined, expired, pending, held, slot, given,
                     queue, nextEvent, kind, cancelled, foreign, cur, responder, verdict,
                     decider, fate>>
  BY DEF LaneStall, clientVars, decisionVars, eventVars
<1>2. /\ subs # <<>> /\ Head(subs) \in Clients /\ verdict = "pass" /\ responder = None
      /\ \A d \in Clients : d # Head(subs) /\ pending[d] # <<>> => expired[d] = Last(d)
  BY <1>1, InCall
<1>3. PICK c \in Clients : c = Head(subs)
  BY <1>2
<1>4. \A d \in Clients : pending[d] # <<>> => expired[d] = Last(d)
  BY <1>2, ClientAssumption DEF IInv, PendingOrder, PendingOf
<1>5. CASE /\ pc' = "finish" /\ UNCHANGED <<stalled, subs, failures>>
  <2>1. LaneShape' /\ NoneTwice' /\ EventOrder' /\ KeysInOrder' /\ Untraced'
    BY <1>1, <1>2, <1>5, LaneMoves DEF Calling
  <2>2. TypeOK'
    BY <1>1, <1>5 DEF IInv, TypeOK
  <2>4. StillToCall'
    BY <1>5 DEF StillToCall
  <2>5. OneAnswer'
    BY <1>1, <1>2 DEF IInv, OneAnswer, Underway, InPending
  <2>6. PendingOrder'
    BY <1>1, <1>4, <1>5, PendingMove
  <2> QED
    BY <2>1, <2>2, <2>4, <2>5, <2>6 DEF IInv
<1>6. CASE /\ stalled' = [stalled EXCEPT ![c] = TRUE]
           /\ PostFailure(c) /\ subs' = Tail(subs) /\ pc' = "next"
  <2>1. LaneShape' /\ NoneTwice' /\ EventOrder' /\ KeysInOrder' /\ Untraced' /\ subs' \in Seq(Clients)
    BY <1>1, <1>2, <1>6, LaneMoves DEF Calling
  <2>2. /\ stalled' \in [Clients -> BOOLEAN] /\ stalled'[c] = TRUE
        /\ \A d \in Clients : d # c => stalled'[d] = stalled[d]
    BY <1>6 DEF IInv, TypeOK
  <2>3. failures' \in Seq(Clients)
    BY <1>6, PostProps
  <2>4. TypeOK'
    BY <1>1, <1>6, <2>1, <2>2, <2>3 DEF IInv, TypeOK
  <2>6. StillToCall'
    <3>1. \A i \in 1..Len(subs') : Untouched(subs[i])'
      <4> TAKE i \in 1..Len(subs')
      <4>1. subs'[i] \in Clients /\ Untouched(subs'[i])
        BY <1>1, <1>2, <1>6, SubsTail DEF IInv, StillToCall
      <4> QED
        BY <1>1, <4>1 DEF Untouched, InPending
    <3> QED
      BY <1>6, <3>1 DEF StillToCall
  <2>7. OneAnswer'
    BY <1>1, <1>2 DEF IInv, OneAnswer, Underway, InPending
  <2>8. PendingOrder'
    BY <1>1, <1>4, <1>6, PendingMove
  <2> QED
    BY <2>1, <2>4, <2>6, <2>7, <2>8 DEF IInv
<1> QED
  BY <1>3, <1>5, <1>6 DEF LaneStall

\* What became of the lane's event: it is blocked or replaced only as its verdict says.
LEMMA FinishProps ==
  ASSUME IInv, LaneFinish
  PROVE  /\ pc = "finish" /\ cur \in Event /\ cur # 0
         /\ \E how \in {"passed", "blocked", "modified", "lost", "dropped"} :
              /\ fate' = [fate EXCEPT ![cur] = how]
              /\ how = "blocked" => verdict = "block"
              /\ how = "modified" => verdict = "modify"
<1>1. pc = "finish" /\ cur \in Event /\ cur # 0
  BY DEF LaneFinish, IInv, TypeOK, LaneShape
<1> QED
  BY <1>1 DEF LaneFinish

\* The event is finished; the ones still queued are later ones.
LEMMA LaneFinishStep ==
  ASSUME IInv, LaneFinish
  PROVE  IInv'
<1>1. /\ cur' = 0 /\ subs' = <<>> /\ responder' = None /\ verdict' = "pass" /\ decider' = None
      /\ pc' = "idle" /\ cancelled' = cancelled \ {cur} /\ foreign' = foreign \ {cur}
      /\ given' = [c \in Clients |-> [given[c] EXCEPT ![cur] = "none"]]
      /\ UNCHANGED <<conn, order, quarantined, failures, stalled, expired, pending,
                     held, slot, queue, nextEvent, kind>>
  BY DEF LaneFinish, clientVars, streamVars
<1>2. pc = "finish" /\ cur \in Event /\ cur # 0 /\ responder = None
  BY FinishProps DEF IInv, LaneShape
<1>3. PICK how \in {"passed", "blocked", "modified", "lost", "dropped"} :
        fate' = [fate EXCEPT ![cur] = how]
  BY FinishProps
<1>4. /\ fate' \in [Event -> {"none", "queued", "passed", "blocked", "modified", "lost",
                              "dropped"}]
      /\ fate'[cur] = how /\ how # "queued" /\ how # "none"
      /\ \A e \in Event : e # cur => fate'[e] = fate[e]
  BY <1>2, <1>3 DEF IInv, TypeOK
<1>5. /\ given' \in [Clients -> [Event -> VerdictSet \cup {"none"}]]
      /\ \A c \in Clients, e \in Event : e # cur => given'[c][e] = given[c][e]
  BY <1>1, <1>2 DEF IInv, TypeOK
<1>6. \A i \in 1..Len(queue) : queue[i].event \in Event /\ queue[i].event # cur
                               /\ queue[i].event > cur /\ queue[i].event \in Nat
  <2> TAKE i \in 1..Len(queue)
  <2>1. queue[i].event \in Event /\ queue[i].event \in Nat /\ cur \in Nat /\ cur < queue[i].event
    BY <1>2, Lookups DEF IInv, EventOrder
  <2> QED
    BY <2>1
<1>7. TypeOK'
  BY <1>1, <1>4, <1>5, EmptySeq DEF IInv, TypeOK, VerdictSet
<1>8. LaneShape'
  BY <1>1 DEF LaneShape, Calling
<1>9. NoneTwice'
  <2>1. Distinct(subs')
    BY <1>1, EmptySeq DEF Distinct
  <2> QED
    BY <1>1, <2>1 DEF IInv, NoneTwice
<1>11. EventOrder'
  <2>1. \A i \in 1..Len(queue) : /\ queue[i].event < nextEvent /\ 0 < queue[i].event
                                 /\ fate'[queue[i].event] = "queued"
    <3> TAKE i \in 1..Len(queue)
    <3>1. queue[i].event < nextEvent /\ fate[queue[i].event] = "queued"
      BY DEF IInv, EventOrder
    <3>2. 0 < queue[i].event
      BY <1>6, Lookups DEF IInv
    <3> QED
      BY <1>4, <1>6, <3>1, <3>2
  <2>2. 0 < nextEvent
    BY DEF IInv, TypeOK
  <2>3. \A e \in Event :
          /\ fate'[e] = "queued" => \E i \in 1..Len(queue) : queue[i].event = e
          /\ e >= nextEvent => fate'[e] = "none"
    <3> TAKE e \in Event
    <3>1. fate'[e] = "queued" => \E i \in 1..Len(queue) : queue[i].event = e
      BY <1>4 DEF IInv, EventOrder
    <3>2. ~(cur >= nextEvent)
      <4>1. cur < nextEvent /\ cur \in Nat /\ nextEvent \in Nat
        BY <1>2, Lookups DEF IInv, EventOrder, TypeOK
      <4> QED
        BY <4>1
    <3>3. e >= nextEvent => fate'[e] = "none"
      BY <1>4, <3>2 DEF IInv, EventOrder
    <3> QED
      BY <3>1, <3>3
  <2> QED
    BY <1>1, <2>1, <2>2, <2>3 DEF IInv, EventOrder
<1>12. KeysInOrder'
  <2> SUFFICES ASSUME NEW e \in Event, NEW later \in Event,
                      fate'[e] = "queued", later > e, kind'[later] = "key"
               PROVE  fate'[later] # "passed"
    BY DEF KeysInOrder
  <2>1. e # cur /\ fate[e] = "queued"
    BY <1>4
  <2>2. PICK i \in 1..Len(queue) : queue[i].event = e
    BY <2>1 DEF IInv, EventOrder
  <2>3. later # cur
    <3>1. e > cur /\ e \in Nat /\ cur \in Nat /\ later \in Nat
      BY <1>2, <1>6, <2>2, Lookups DEF IInv
    <3> QED
      BY <3>1
  <2> QED
    BY <1>1, <1>4, <2>1, <2>3 DEF IInv, KeysInOrder
<1>13. Untraced'
  BY <1>1, Frames
<1>14. StillToCall'
  BY <1>1 DEF StillToCall
<1>15. OneAnswer'
  <2>1. ASSUME NEW d \in DecisionSet \cup {NoDecision}, Underway(d)
        PROVE  Underway(d)'
    <3> SUFFICES ASSUME d # NoDecision, fate'[d.event] = "queued"
                 PROVE  /\ ~InPending(d.client, d.event)'
                        /\ d.verdict # "pass" => given'[d.client][d.event] = d.verdict
      BY DEF Underway
    <3>1. d.client \in Clients /\ d.event \in Event
      BY DEF DecisionSet
    <3>2. d.event # cur /\ fate[d.event] = "queued"
      BY <1>4, <3>1
    <3> QED
      BY <1>1, <1>5, <2>1, <3>1, <3>2 DEF Underway, InPending
  <2>2. Underway(held)' /\ Underway(slot)'
    BY <1>1, <2>1 DEF IInv, TypeOK, OneAnswer, Underway
  <2> QED
    BY <1>1, <2>2 DEF OneAnswer
<1>16. PendingOrder'
  BY <1>1, <1>2, PendingMove, ClientAssumption DEF IInv, PendingOrder, PendingOf
<1> QED
  BY <1>7, <1>8, <1>9, <1>11, <1>12, <1>13, <1>14, <1>15, <1>16 DEF IInv
-----------------------------------------------------------------------------
(* The invariant and what it says                                          *)

\* At the start nothing is subscribed, queued or under way.
LEMMA InitIInv ==
  ASSUME Init
  PROVE  IInv
<1>1. /\ order = <<>> /\ subs = <<>> /\ failures = <<>> /\ queue = <<>>
      /\ \A c \in Clients : pending[c] = <<>> /\ expired[c] = 0
      /\ held = NoDecision /\ slot = NoDecision /\ NoDecision.event = 0
      /\ nextEvent = 1 /\ cur = 0 /\ pc = "idle" /\ responder = None /\ verdict = "pass"
      /\ \A e \in Event : fate[e] = "none"
  BY DEF Init, NoDecision
<1>2. Event \subseteq Nat \ {0}
  BY BoundAssumption DEF Event
<1>3. TypeOK
  <2>1. /\ <<>> \in Seq(Clients) /\ <<>> \in Seq(Event)
        /\ <<>> \in Seq([event : Event, subs : Seq(Clients)])
    BY EmptySeq
  <2> QED
    BY <1>1, <2>1 DEF Init, TypeOK, VerdictSet
<1>4. LaneShape /\ NoneTwice
  <2>1. Len(<<>>) = 0
    OBVIOUS
  <2>2. Distinct(<<>>)
    BY <2>1 DEF Distinct
  <2>3. LaneShape
    BY <1>1 DEF LaneShape, Calling
  <2>4. NoneTwice
    BY <1>1, <2>1, <2>2 DEF NoneTwice
  <2> QED
    BY <2>3, <2>4
<1>5. EventOrder /\ KeysInOrder
  <2>1. Len(queue) = 0 /\ \A i \in 1..Len(queue) : FALSE
    BY <1>1
  <2>2. cur < nextEvent /\ cur = 0
    BY <1>1
  <2>3. \A e \in Event : fate[e] # "queued" /\ fate[e] = "none"
    BY <1>1
  <2>4. EventOrder
    BY <2>1, <2>2, <2>3, Zenon DEF EventOrder
  <2>5. KeysInOrder
    BY <1>1 DEF KeysInOrder
  <2> QED
    BY <2>4, <2>5
<1>6. Untraced
  BY <1>1, <1>2 DEF Untraced, Traced, InPending
<1>7. StillToCall /\ OneAnswer /\ PendingOrder
  BY <1>1 DEF StillToCall, OneAnswer, Underway, PendingOrder, PendingOf
<1> QED
  BY <1>3, <1>4, <1>5, <1>6, <1>7 DEF IInv

\* Every step of the main thread and of the lane keeps the invariant.
LEMMA NextIInv ==
  ASSUME IInv, [Next]_vars
  PROVE  IInv'
<1>1. CASE Main
  BY <1>1, DispatchStep, SubscribeStep, UnsubscribeStep, RearmStep, StreamEnds,
     HandleReplyStep, PushDecisionStep, RecordFailureStep, FlushStep DEF Main
<1>2. CASE Lane
  BY <1>2, LanePopStep, LaneNextStep, LaneTurnStep, LaneSendStep, LaneTakeStep, LaneExpireStep,
     LaneClearResponderStep, LaneStallStep, LaneFinishStep DEF Lane
<1>3. CASE UNCHANGED vars
  <2>1. UNCHANGED <<conn, order, quarantined, failures, stalled, expired, pending,
                    held, slot, given, queue, nextEvent, kind, cancelled, foreign, pc, cur, subs,
                    responder, verdict, decider, fate>>
    BY <1>3 DEF vars, clientVars, seatVars, streamVars, decisionVars, eventVars, laneVars
  <2>2. TypeOK'
    BY <2>1 DEF IInv, TypeOK
  <2> QED
    BY <2>1, <2>2, Frames DEF IInv
<1> QED
  BY <1>1, <1>2, <1>3 DEF Next, Finished

\* The invariant holds in every behaviour of one lane and its main thread.
THEOREM InductiveInvariant == Spec => []IInv
  BY InitIInv, NextIInv, PTL DEF Spec

\* What a step does to the fates of the events.
LEMMA FateSteps ==
  ASSUME IInv, Next
  PROVE  \/ fate' = fate
         \/ \E k \in Kinds : Dispatch(k)
         \/ LaneFinish
<1>1. CASE \E k \in Kinds : Dispatch(k)
  BY <1>1
<1>2. CASE LaneFinish
  BY <1>2
<1>3. CASE Main /\ ~(\E k \in Kinds : Dispatch(k))
  BY <1>3 DEF Main, Subscribe, Unsubscribe, Rearm, Close, Revoke, HandleReply, PushDecision,
              RecordFailure, Panic, ApplyFailOpen, SeatChange
<1>4. CASE Lane /\ ~LaneFinish
  BY <1>4 DEF Lane, LanePop, LaneNext, LaneTurn, LaneSend, LaneTake, LaneExpire,
              LaneClearResponder, LaneStall
<1>5. CASE Finished
  BY <1>5 DEF Finished, vars
<1> QED
  BY <1>1, <1>2, <1>3, <1>4, <1>5 DEF Next

\* A dispatched event was in no other state before, and a transition that its
\* lane could not take does not pass.
LEMMA DispatchFate ==
  ASSUME IInv, NEW k \in Kinds, Dispatch(k)
  PROVE  /\ nextEvent \in Event /\ fate[nextEvent] = "none"
         /\ \A e \in Event : e # nextEvent => fate'[e] = fate[e]
         /\ fate'[nextEvent] \in {"queued", "passed", "lost"}
         /\ fate'[nextEvent] = "passed" => kind'[nextEvent] # "key"
<1>1. nextEvent \in Event /\ kind' = [kind EXCEPT ![nextEvent] = k]
  BY BoundAssumption DEF Dispatch, IInv, TypeOK, Event
<1>2. fate[nextEvent] = "none"
  BY <1>1, Lookups DEF IInv, EventOrder
<1>3. PICK how \in {"queued", "passed", "lost"} : /\ fate' = [fate EXCEPT ![nextEvent] = how]
                                                  /\ how = "passed" => k # "key"
  BY DEF Dispatch, Fallback, KeepsLaneOrder
<1> QED
  BY <1>1, <1>2, <1>3 DEF IInv, TypeOK

\* An event is blocked or replaced only by the decision of a client that was
\* asked about this event, was not given up, and said so
\* (lane_wait_for_matching_decision, handle_hook_decision).
THEOREM DecisionsAttributed == Spec => Attributed
<1> DEFINE A == \A e \in Event :
                  (fate[e] = "queued" /\ fate'[e] \in {"blocked", "modified"}) =>
                    /\ decider # None
                    /\ expired[decider] # e
                    /\ given[decider][e] = (IF fate'[e] = "blocked" THEN "block" ELSE "modify")
<1>1. ASSUME IInv, LaneFinish PROVE A
  <2> SUFFICES ASSUME NEW e \in Event, fate[e] = "queued", fate'[e] \in {"blocked", "modified"}
               PROVE  /\ decider # None
                      /\ expired[decider] # e
                      /\ given[decider][e] = (IF fate'[e] = "blocked" THEN "block" ELSE "modify")
    OBVIOUS
  <2>1. PICK how \in {"passed", "blocked", "modified", "lost", "dropped"} :
          /\ fate' = [fate EXCEPT ![cur] = how]
          /\ how = "blocked" => verdict = "block"
          /\ how = "modified" => verdict = "modify"
    BY <1>1, FinishProps
  <2>2. cur \in Event
    BY <1>1, FinishProps
  <2>3. e = cur /\ fate'[e] = how
    BY <1>1, <2>1, <2>2 DEF IInv, TypeOK
  <2>4. verdict # "pass"
    BY <2>1, <2>3
  <2>5. decider # None /\ expired[decider] # cur /\ given[decider][cur] = verdict
    BY <1>1, <2>4 DEF IInv, OneAnswer
  <2> QED
    BY <2>1, <2>3, <2>5
<1>2. ASSUME IInv, NEW k \in Kinds, Dispatch(k) PROVE A
  BY <1>2, DispatchFate
<1>3. IInv /\ [Next]_vars => [A]_vars
  <2> SUFFICES ASSUME IInv, Next PROVE A
    OBVIOUS
  <2>1. CASE fate' = fate
    BY <2>1
  <2> HIDE DEF A
  <2> QED
    BY <1>1, <1>2, <2>1, FateSteps
<1> QED
  BY <1>3, InductiveInvariant, PTL DEF Spec, Attributed

\* Key transitions leave in the order of their arrival, for every number of
\* events, also when the lane is full or fails open (keeps_lane_order).
THEOREM TransitionsInOrder == Spec => TransitionOrder
<1> DEFINE A == \A e \in Event :
                  (fate[e] # "passed" /\ fate'[e] = "passed" /\ kind'[e] = "key") =>
                    \A later \in Event :
                      (later > e /\ kind[later] = "key") => fate[later] # "passed"
<1>1. ASSUME IInv, LaneFinish PROVE A
  <2> SUFFICES ASSUME NEW e \in Event, fate[e] # "passed", fate'[e] = "passed",
                      NEW later \in Event, later > e, kind[later] = "key"
               PROVE  fate[later] # "passed"
    OBVIOUS
  <2>1. cur \in Event /\ \A d \in Event : d # cur => fate'[d] = fate[d]
    BY <1>1, FinishProps DEF IInv, TypeOK
  <2>2. e = cur /\ cur # 0
    BY <1>1, <2>1, FinishProps
  <2>3. fate[e] = "queued"
    BY <1>1, <2>2 DEF IInv, EventOrder
  <2> QED
    BY <1>1, <2>3 DEF IInv, KeysInOrder
<1>2. ASSUME IInv, NEW k \in Kinds, Dispatch(k) PROVE A
  BY <1>2, DispatchFate
<1>3. IInv /\ [Next]_vars => [A]_vars
  <2> SUFFICES ASSUME IInv, Next PROVE A
    OBVIOUS
  <2>1. CASE fate' = fate
    BY <2>1
  <2> HIDE DEF A
  <2> QED
    BY <1>1, <1>2, <2>1, FateSteps
<1> QED
  BY <1>3, InductiveInvariant, PTL DEF Spec, TransitionOrder

\* A client whose only outstanding reply comes late is not taken for a wrong one
\* (handle_hook_decision, hook_send_ref_mark_expired before lane_clear_responder).
THEOREM LateRepliesForgiven == Spec => LateOnlyWhenBehind
<1> DEFINE A == \A c \in Clients : (Up(c) /\ conn'[c] = "late") => Len(pending[c]) > 1
<1>1. ASSUME IInv, NEW d \in Clients, NEW v \in Verdicts, HandleReply(d, v) PROVE A
  <2> SUFFICES ASSUME NEW c \in Clients, Up(c), conn'[c] = "late" PROVE Len(pending[c]) > 1
    OBVIOUS
  <2>1. c = d /\ ~(cur = Head(pending[c]) /\ responder = c) /\ expired[c] # Head(pending[c])
        /\ pending[c] # <<>>
    <3>1. conn \in [Clients -> {"up", "closed", "struck", "late", "seat", "slot", "refused",
                                "revoked"}]
      BY <1>1 DEF IInv, TypeOK
    <3> QED
      BY <1>1, <3>1 DEF HandleReply, RemoveClient, Up
  <2>2. Head(pending[c]) = pending[c][1] /\ Len(pending[c]) \in Nat \ {0}
    BY <1>1, <2>1, OldestCallback
  <2>3. (cur = Last(c) /\ responder = c) \/ expired[c] = Last(c)
    BY <1>1, <2>1 DEF IInv, PendingOrder, PendingOf
  <2>4. Len(pending[c]) # 1
    BY <2>1, <2>2, <2>3 DEF Last
  <2>5. \A n \in Nat \ {0} : n # 1 => n > 1
    OBVIOUS
  <2> QED
    BY <2>2, <2>4, <2>5
<1>2. ASSUME IInv, Next, ~\E c \in Clients, v \in Verdicts : HandleReply(c, v)
      PROVE  \/ conn' = conn
             \/ \E c \in Clients, why \in {"closed", "revoked", "struck", "refused", "seat", "slot"} :
                  conn' = [conn EXCEPT ![c] = why]
  <2>1. CASE Main
    <3>1. CASE PushDecision
      <4>1. held.client \in Clients
        BY <1>2, <3>1 DEF PushDecision, IInv, TypeOK, DecisionSet
      <4> QED
        BY <3>1, <4>1 DEF PushDecision, RemoveClient
    <3>2. CASE RecordFailure
      <4>1. Head(failures) \in Clients
        BY <1>2, <3>2, EmptySeq, HeadTailProperties DEF RecordFailure, IInv, TypeOK
      <4> QED
        BY <3>2, <4>1 DEF RecordFailure, RemoveClient
    <3> QED
      BY <1>2, <2>1, <3>1, <3>2 DEF Main, Dispatch, Subscribe, Unsubscribe, Rearm, Close, Revoke,
           Panic, ApplyFailOpen, SeatChange, RemoveClient, clientVars
  <2>2. CASE Lane
    BY <2>2 DEF Lane, LanePop, LaneNext, LaneTurn, LaneSend, LaneTake, LaneExpire,
                LaneClearResponder, LaneStall, LaneFinish, clientVars
  <2>3. CASE Finished
    BY <2>3 DEF Finished, vars, clientVars
  <2> QED
    BY <1>2, <2>1, <2>2, <2>3 DEF Next
<1>3. IInv /\ [Next]_vars => [A]_vars
  <2> SUFFICES ASSUME IInv, Next PROVE A
    OBVIOUS
  <2>1. CASE \E c \in Clients, v \in Verdicts : HandleReply(c, v)
    <3> HIDE DEF A
    <3> QED
      BY <1>1, <2>1
  <2>2. CASE ~\E c \in Clients, v \in Verdicts : HandleReply(c, v)
    BY <1>2, <2>2 DEF IInv, TypeOK, Up
  <2> QED
    BY <2>1, <2>2
<1> QED
  BY <1>3, InductiveInvariant, PTL DEF Spec, LateOnlyWhenBehind
=============================================================================
