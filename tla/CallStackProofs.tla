--------------------------- MODULE CallStackProofs ---------------------------
(***************************************************************************)
(* Proofs about CallStack, for every set of lanes, stack capacity and      *)
(* number of events.                                                       *)
(*                                                                         *)
(* None of the properties is inductive alone.  Serialised needs frames     *)
(* with distinct ids (end_pump finds the frame it means) and clean slots   *)
(* above the stack (a new frame does not pump); LaneFramesNest needs that  *)
(* a waiting turn is the newest of its lane; NoLostWakeup needs all of it. *)
(***************************************************************************)
EXTENDS CallStack, SequenceTheorems, TLAPS

\* Unused slots are zero: wait_event_turn writes only event_id, so a frame
\* starts out not pumping because complete_event cleared the slot.
CleanSlots == \A i \in Slot : i > depth => calls[i] = NoFrame

\* Frames belong to turns that have entered, each to a turn of its own.
FramesEntered ==
  /\ \A i \in 1..depth : /\ calls[i].event_id \in Event
                         /\ state[calls[i].event_id] = "entered"
  /\ \A i, j \in 1..depth : calls[i].event_id = calls[j].event_id => i = j

\* Queued waiters are turns that have not entered, each queued once.
WaitersWait ==
  /\ \A k \in 1..Len(waiters) : state[waiters[k]] = "waiting"
  /\ \A j, k \in 1..Len(waiters) : waiters[j] = waiters[k] => j = k

\* Event ids not handed out are unused; a used one has a lane.
FreshIds ==
  \A e \in Event : /\ e >= nextEvent => state[e] = "none"
                   /\ state[e] # "none" => lane[e] \in Lanes

\* A lane blocked in wait_event_turn has opened no turn since.
WaitingIsNewest ==
  \A e, f \in Event :
    state[e] = "waiting" /\ Active(f) /\ lane[f] = lane[e] => f <= e

\* end_pump's locals, and the frame it is ending does not pump.
EndingFrame ==
  /\ ending = 0 => ~mainAsleep
  /\ ending # 0 => /\ endIndex \in Slot
                   /\ \A i \in 1..depth :
                        calls[i].event_id = ending => ~calls[i].pumping

\* A frame below the top still pumps or is being ended by the main thread.
BelowTopPumps ==
  valid => \A i \in 1..depth :
             i < depth => calls[i].pumping \/ calls[i].event_id = ending

IInv ==
  /\ TypeOK
  /\ CleanSlots
  /\ FramesEntered
  /\ WaitersWait
  /\ FreshIds
  /\ WaitingIsNewest
  /\ EndingFrame
  /\ BelowTopPumps
  /\ OrdinaryAtBottom
  /\ LaneFramesNest
  /\ NoLostWakeup

-----------------------------------------------------------------------------
(* Lemmas about the operators of the model.                                *)

\* remove_waiter takes out one waiter and keeps the order of the others.
LEMMA RemoveWaiterProps ==
  ASSUME NEW ws \in Seq(Event), NEW k \in 1..Len(ws)
  PROVE  /\ RemoveWaiter(ws, k) \in Seq(Event)
         /\ Len(RemoveWaiter(ws, k)) = Len(ws) - 1
         /\ \A i \in 1..(Len(ws) - 1) :
              RemoveWaiter(ws, k)[i] = IF i < k THEN ws[i] ELSE ws[i + 1]
PROOF
<1> DEFINE a == SubSeq(ws, 1, k - 1)
           b == SubSeq(ws, k + 1, Len(ws))
<1>0. \A i \in 1..Len(ws) : ws[i] \in Event
  BY ElementOfSeq
<1>1. a \in Seq(Event) /\ Len(a) = k - 1 /\ \A i \in 1..(k - 1) : a[i] = ws[i]
  <2>1. /\ a \in Seq(Event)
        /\ Len(a) = IF 1 <= k - 1 THEN (k - 1) - 1 + 1 ELSE 0
        /\ \A i \in 1..((k - 1) - 1 + 1) : a[i] = ws[1 + i - 1]
    <3>1. \A i \in 1..(k - 1) : ws[i] \in Event
      BY <1>0
    <3>2. QED
      BY <3>1, SubSeqProperties
  <2>2. QED
    BY <2>1
<1>2. /\ b \in Seq(Event) /\ Len(b) = Len(ws) - k
      /\ \A i \in 1..(Len(ws) - k) : b[i] = ws[k + i]
  <2>1. /\ b \in Seq(Event)
        /\ Len(b) = IF k + 1 <= Len(ws) THEN Len(ws) - (k + 1) + 1 ELSE 0
        /\ \A i \in 1..(Len(ws) - (k + 1) + 1) : b[i] = ws[(k + 1) + i - 1]
    <3>1. \A i \in (k + 1)..Len(ws) : ws[i] \in Event
      BY <1>0
    <3>2. QED
      BY <3>1, SubSeqProperties
  <2>2. QED
    BY <2>1
<1>3. /\ a \o b \in Seq(Event)
      /\ Len(a \o b) = Len(a) + Len(b)
      /\ \A i \in 1..(Len(a) + Len(b)) :
           (a \o b)[i] = IF i <= Len(a) THEN a[i] ELSE b[i - Len(a)]
  BY <1>1, <1>2, ConcatProperties
<1>4. RemoveWaiter(ws, k) = a \o b
  BY DEF RemoveWaiter
<1> HIDE DEF a, b
<1>5. ASSUME NEW i \in 1..(Len(ws) - 1)
      PROVE  (a \o b)[i] = IF i < k THEN ws[i] ELSE ws[i + 1]
  <2>1. CASE i < k
    BY <1>1, <1>2, <1>3, <2>1
  <2>2. CASE ~(i < k)
    <3>1. i - Len(a) \in 1..(Len(ws) - k)
      BY <1>1, <2>2
    <3>2. (a \o b)[i] = b[i - Len(a)]
      BY <1>1, <1>2, <1>3, <2>2
    <3>3. b[i - Len(a)] = ws[k + (i - Len(a))]
      BY <1>2, <3>1
    <3>4. QED
      BY <1>1, <2>2, <3>2, <3>3
  <2>3. QED
    BY <2>1, <2>2
<1>6. Len(a \o b) = Len(ws) - 1
  BY <1>1, <1>2, <1>3
<1>7. QED
  BY <1>3, <1>4, <1>5, <1>6, Zenon

\* find_call returns 0 exactly when the event has no frame, else its frame.
LEMMA FindCallProps ==
  ASSUME TypeOK, FramesEntered, NEW e
  PROVE  /\ FindCall(e) \in 0..depth
         /\ FindCall(e) # 0 => calls[FindCall(e)].event_id = e
         /\ FindCall(e) = 0 => \A i \in 1..depth : calls[i].event_id # e
PROOF
<1>1. CASE \E i \in 1..depth : calls[i].event_id = e
  <2>1. PICK i \in 1..depth : calls[i].event_id = e
    BY <1>1
  <2>2. \A j \in (i + 1)..depth : calls[j].event_id # e
    BY <2>1 DEF FramesEntered, TypeOK
  <2> DEFINE P(m) == calls[m].event_id = e
                     /\ \A j \in (m + 1)..depth : calls[j].event_id # e
  <2>3. \E m \in 1..depth : P(m)
    BY <2>1, <2>2
  <2>4. (CHOOSE m \in 1..depth : P(m)) \in 1..depth
        /\ P(CHOOSE m \in 1..depth : P(m))
    BY <2>3
  <2>5. FindCall(e) = CHOOSE m \in 1..depth : P(m)
    BY <1>1 DEF FindCall
  <2> HIDE DEF P
  <2>6. FindCall(e) \in 1..depth /\ P(FindCall(e))
    BY <2>4, <2>5
  <2>7. QED
    BY <2>6 DEF P, TypeOK
<1>2. CASE ~ \E i \in 1..depth : calls[i].event_id = e
  BY <1>2 DEF FindCall, TypeOK
<1>3. QED
  BY <1>1, <1>2

\* No waiter of a queue can enter while the top frame does not pump.
LEMMA TopBlocks ==
  ASSUME TypeOK, depth # 0, ~calls[depth].pumping, NEW ws, NEW rec, NEW k
  PROVE  ~CanEnter(ws, rec, k)
PROOF
  BY DEF CanEnter, TypeOK

-----------------------------------------------------------------------------
(* Each action preserves the inductive invariant.                          *)

\* No frame, no waiter and no event: the invariant holds at the start.
LEMMA InitIInv == Init => IInv
PROOF
<1> SUFFICES ASSUME Init PROVE IInv
  OBVIOUS
<1> USE SizeAssumption DEF Init
<1>1. TypeOK
  <2>1. NoFrame \in Frame
    BY DEF Frame, NoFrame
  <2>2. <<>> \in Seq(Event)
    BY EmptySeq
  <2>3. nextEvent \in 1..(MaxEvents + 1) /\ depth \in 0..MaxDepth
        /\ ending \in 0..MaxEvents /\ endIndex \in 0..MaxDepth
    OBVIOUS
  <2>4. QED
    BY <2>1, <2>2, <2>3 DEF TypeOK, TurnState, SendState
<1>2. CleanSlots /\ FramesEntered /\ WaitersWait /\ FreshIds
  BY DEF CleanSlots, FramesEntered, WaitersWait, FreshIds
<1>3. WaitingIsNewest /\ EndingFrame /\ BelowTopPumps /\ OrdinaryAtBottom
      /\ LaneFramesNest
  BY DEF WaitingIsNewest, EndingFrame, BelowTopPumps, OrdinaryAtBottom, LaneFramesNest
<1>4. NoLostWakeup
  BY DEF NoLostWakeup
<1>5. QED
  BY <1>1, <1>2, <1>3, <1>4 DEF IInv

\* complete_event.
LEMMA CompleteTurnStep ==
  ASSUME IInv, NEW e \in Event, CompleteTurn(e)
  PROVE  IInv'
PROOF
<1> USE SizeAssumption DEF IInv
<1> DEFINE k == FindCall(e)
<1>1. /\ k \in 0..depth
      /\ k # 0 => calls[k].event_id = e
      /\ k = 0 => \A i \in 1..depth : calls[i].event_id # e
  BY FindCallProps
<1> HIDE DEF k
<1>2. /\ state[e] = "entered"
      /\ state' = [state EXCEPT ![e] = "done"]
      /\ k # 0 => calls' = FrameRemoved(k) /\ depth' = depth - 1
      /\ k = 0 => calls' = calls /\ depth' = depth
      /\ asleep' = {} /\ mainAsleep' = FALSE
      /\ UNCHANGED <<nextEvent, lane, recursive, waiters, send, acks, ending,
                    endIndex, valid, broadcastDue>>
  BY DEF CompleteTurn, k, Broadcast, stackVars, validVars
<1>3. depth \in Nat /\ depth' \in Nat /\ depth' <= depth /\ depth <= MaxDepth
  BY <1>1, <1>2 DEF TypeOK
\* Where a remaining frame was before.
<1> DEFINE old(i) == IF k # 0 /\ i >= k THEN i + 1 ELSE i
<1>4. ASSUME NEW i \in 1..depth'
      PROVE  /\ old(i) \in 1..depth /\ old(i) >= i
             /\ i < depth' => old(i) < depth
             /\ calls'[i] = calls[old(i)]
             /\ calls'[i].event_id # e
             /\ calls[old(i)].event_id # e
  <2>1. CASE k = 0
    BY <1>1, <1>2, <1>3, <2>1
  <2>2. CASE k # 0
    <3>1. i \in Slot /\ i < depth /\ depth' = depth - 1
      BY <1>1, <1>2, <1>3, <2>2 DEF Slot
    <3>2. calls'[i] = IF i < k THEN calls[i] ELSE calls[i + 1]
      BY <1>2, <2>2, <3>1 DEF FrameRemoved
    <3>3. \A m \in 1..depth : m # k => calls[m].event_id # e
      BY <1>1, <2>2 DEF FramesEntered
    <3>4. old(i) \in 1..depth /\ old(i) # k /\ old(i) >= i
          /\ (i < depth' => old(i) < depth)
      BY <1>1, <1>3, <2>2, <3>1
    <3>5. calls'[i] = calls[old(i)]
      BY <1>1, <1>3, <2>2, <3>2
    <3>6. QED
      BY <3>3, <3>4, <3>5
  <2>3. QED
    BY <2>1, <2>2
<1>4a. ASSUME NEW i \in 1..depth', NEW j \in 1..depth'
       PROVE  /\ i < j => old(i) < old(j)
              /\ old(i) = old(j) => i = j
  BY <1>1, <1>3
<1> HIDE DEF old
<1>5. TypeOK'
  <2>1. calls' \in [Slot -> Frame]
    <3>1. CASE k = 0
      BY <1>2, <3>1 DEF TypeOK
    <3>2. CASE k # 0
      <4>1. ASSUME NEW i \in Slot
            PROVE  (IF i < k THEN calls[i]
                    ELSE IF i < depth THEN calls[i + 1]
                    ELSE IF i = depth THEN NoFrame
                    ELSE calls[i]) \in Frame
        <5>1. calls[i] \in Frame /\ NoFrame \in Frame
          BY DEF TypeOK, Frame, NoFrame
        <5>2. i < depth => calls[i + 1] \in Frame
          BY <1>3 DEF TypeOK, Slot
        <5>3. QED
          BY <5>1, <5>2
      <4>2. QED
        BY <1>2, <3>2, <4>1 DEF FrameRemoved
    <3>3. QED
      BY <3>1, <3>2
  <2>2. depth' \in 0..MaxDepth
    BY <1>3
  <2>3. state' \in [Event -> TurnState]
    BY <1>2 DEF TypeOK, TurnState
  <2>4. QED
    BY <1>2, <2>1, <2>2, <2>3 DEF TypeOK
<1>6. CleanSlots'
  <2>1. CASE k = 0
    BY <1>2, <2>1 DEF CleanSlots
  <2>2. CASE k # 0
    BY <1>1, <1>2, <1>3, <2>2 DEF CleanSlots, FrameRemoved, Slot
  <2>3. QED
    BY <2>1, <2>2
<1>7. FramesEntered'
  <2>1. ASSUME NEW i \in 1..depth'
        PROVE  /\ calls'[i].event_id \in Event
               /\ state'[calls'[i].event_id] = "entered"
    BY <1>2, <1>4 DEF FramesEntered, TypeOK
  <2>2. ASSUME NEW i \in 1..depth', NEW j \in 1..depth',
               calls'[i].event_id = calls'[j].event_id
        PROVE  i = j
    BY <1>4, <1>4a, <2>2 DEF FramesEntered
  <2>3. QED
    BY <2>1, <2>2 DEF FramesEntered
<1>8. WaitersWait'
  BY <1>2, ElementOfSeq DEF WaitersWait, TypeOK
<1>9. FreshIds'
  BY <1>2 DEF FreshIds, TypeOK
<1>10. WaitingIsNewest'
  BY <1>2 DEF WaitingIsNewest, Active, TypeOK
<1>11. EndingFrame'
  BY <1>2, <1>4 DEF EndingFrame
<1>12. BelowTopPumps'
  <2> SUFFICES ASSUME valid, NEW i \in 1..depth', i < depth'
               PROVE  calls'[i].pumping \/ calls'[i].event_id = ending
    BY <1>2 DEF BelowTopPumps
  <2>1. QED
    BY <1>4 DEF BelowTopPumps
<1>13. OrdinaryAtBottom'
  <2> SUFFICES ASSUME NEW i \in 2..depth'
               PROVE  recursive[calls'[i].event_id]
    BY <1>2 DEF OrdinaryAtBottom
  <2>1. i \in 1..depth'
    BY <1>3
  <2>2. old(i) \in 2..depth
    BY <1>3, <1>4, <2>1
  <2>3. QED
    BY <1>4, <2>1, <2>2 DEF OrdinaryAtBottom
<1>14. LaneFramesNest'
  <2> SUFFICES ASSUME NEW i \in 1..depth', NEW j \in 1..depth', i < j,
                      lane[calls'[i].event_id] = lane[calls'[j].event_id]
               PROVE  calls'[i].event_id < calls'[j].event_id
    BY <1>2 DEF LaneFramesNest
  <2>1. QED
    BY <1>4, <1>4a DEF LaneFramesNest
<1>15. NoLostWakeup'
  BY <1>2 DEF NoLostWakeup
<1>16. QED
  BY <1>5, <1>6, <1>7, <1>8, <1>9, <1>10, <1>11, <1>12, <1>13, <1>14, <1>15

\* Entering: the frame is new, on top and not pumping; the others stay.
LEMMA PushFrameProps ==
  ASSUME TypeOK, CleanSlots, depth < MaxDepth, NEW e \in Event, PushFrame(e)
  PROVE  /\ depth' = depth + 1 /\ depth' \in 0..MaxDepth
         /\ calls' \in [Slot -> Frame]
         /\ calls'[depth'] = [event_id |-> e, pumping |-> FALSE]
         /\ \A i \in 1..depth : calls'[i] = calls[i]
         /\ CleanSlots'
PROOF
<1> USE SizeAssumption
<1>1. depth \in Nat /\ depth + 1 \in Slot /\ depth' = depth + 1
  BY DEF TypeOK, Slot, PushFrame
<1>2. calls[depth + 1] = NoFrame
  BY <1>1 DEF CleanSlots
<1>3. calls' = [calls EXCEPT ![depth + 1] = [event_id |-> e, pumping |-> @.pumping]]
  BY DEF PushFrame
<1>4. calls'[depth + 1] = [event_id |-> e, pumping |-> FALSE]
  BY <1>1, <1>2, <1>3 DEF TypeOK, NoFrame
<1>5. \A i \in Slot : i # depth + 1 => calls'[i] = calls[i]
  BY <1>3 DEF TypeOK
<1>6. [event_id |-> e, pumping |-> FALSE] \in Frame
  BY DEF Frame, Event
<1>7. calls' \in [Slot -> Frame]
  BY <1>1, <1>3, <1>4, <1>5, <1>6 DEF TypeOK
<1>8. depth' \in 0..MaxDepth
  BY <1>1
<1>9. \A i \in 1..depth : calls'[i] = calls[i]
  BY <1>1, <1>5 DEF Slot
<1>10. CleanSlots'
  BY <1>1, <1>5 DEF CleanSlots, Slot
<1>11. QED
  BY <1>1, <1>4, <1>7, <1>8, <1>9, <1>10

\* What entering does to the conjuncts about the stack, for a turn e of lane l
\* that is the newest of its lane and, above depth 0, enters a pumping frame.
LEMMA EnterStack ==
  ASSUME IInv, depth < MaxDepth, NEW e \in Event, PushFrame(e),
         state[e] # "entered",
         state' = [state EXCEPT ![e] = "entered"],
         lane' \in [Event -> Lanes \cup {Nobody}],
         \A f \in Event : f # e => lane'[f] = lane[f] /\ recursive'[f] = recursive[f],
         \A f \in Event : state[f] = "entered" /\ lane[f] = lane'[e] => f < e,
         depth = 0 \/ (recursive'[e] /\ calls[depth].pumping), valid, valid' = valid, ending' = ending, endIndex' = endIndex,
         mainAsleep' = mainAsleep, broadcastDue' = broadcastDue
  PROVE  /\ FramesEntered'
         /\ EndingFrame'
         /\ BelowTopPumps'
         /\ OrdinaryAtBottom'
         /\ LaneFramesNest'
         /\ depth' # 0 /\ ~calls'[depth'].pumping
         /\ mainAsleep' => depth' > endIndex' /\ calls'[endIndex'].event_id = ending'
PROOF
<1> USE DEF IInv
<1>1. /\ depth' = depth + 1 /\ depth' \in 0..MaxDepth
      /\ calls' \in [Slot -> Frame]
      /\ calls'[depth'] = [event_id |-> e, pumping |-> FALSE]
      /\ \A i \in 1..depth : calls'[i] = calls[i]
  BY PushFrameProps
<1>2. depth \in Nat /\ depth' \in Nat
  BY <1>1 DEF TypeOK
<1>3. \A i \in 1..depth' : i = depth' \/ i \in 1..depth
  BY <1>1, <1>2
<1>4. calls'[depth'].event_id = e /\ calls'[depth'].pumping = FALSE
  BY <1>1
<1>5. \A i \in 1..depth : calls[i].event_id \in Event /\ calls[i].event_id # e
                          /\ state[calls[i].event_id] = "entered"
  BY DEF FramesEntered
<1>6. FramesEntered'
  <2>1. ASSUME NEW i \in 1..depth'
        PROVE  calls'[i].event_id \in Event /\ state'[calls'[i].event_id] = "entered"
    BY <1>1, <1>3, <1>4, <1>5 DEF TypeOK
  <2>2. ASSUME NEW i \in 1..depth', NEW j \in 1..depth',
               calls'[i].event_id = calls'[j].event_id
        PROVE  i = j
    BY <1>1, <1>3, <1>4, <1>5, <2>2 DEF FramesEntered
  <2>3. QED
    BY <2>1, <2>2 DEF FramesEntered
<1>7. EndingFrame'
  BY <1>1, <1>3, <1>4 DEF EndingFrame
<1>8. BelowTopPumps'
  <2> SUFFICES ASSUME NEW i \in 1..depth', i < depth'
               PROVE  calls'[i].pumping \/ calls'[i].event_id = ending
    BY DEF BelowTopPumps
  <2>1. i \in 1..depth /\ calls'[i] = calls[i]
    BY <1>1, <1>3
  <2>2. CASE i = depth
    BY <1>2, <2>1, <2>2
  <2>3. CASE i # depth
    BY <1>2, <2>1, <2>3 DEF BelowTopPumps
  <2>4. QED
    BY <2>2, <2>3
<1>9. OrdinaryAtBottom'
  <2> SUFFICES ASSUME NEW i \in 2..depth'
               PROVE  recursive'[calls'[i].event_id]
    BY DEF OrdinaryAtBottom
  <2>1. CASE i = depth'
    BY <1>1, <1>2, <1>4, <2>1
  <2>2. CASE i # depth'
    <3>1. i \in 2..depth /\ i \in 1..depth
      BY <1>1, <1>2, <2>2
    <3>2. QED
      BY <1>1, <1>5, <3>1 DEF OrdinaryAtBottom
  <2>3. QED
    BY <2>1, <2>2
<1>10. LaneFramesNest'
  <2> SUFFICES ASSUME NEW i \in 1..depth', NEW j \in 1..depth', i < j,
                      lane'[calls'[i].event_id] = lane'[calls'[j].event_id]
               PROVE  calls'[i].event_id < calls'[j].event_id
    BY DEF LaneFramesNest
  <2>1. i \in 1..depth
    BY <1>2, <1>3
  <2>2. CASE j = depth'
    BY <1>1, <1>4, <1>5, <2>1, <2>2
  <2>3. CASE j \in 1..depth
    BY <1>1, <1>5, <2>1, <2>3 DEF LaneFramesNest
  <2>4. QED
    BY <1>3, <2>2, <2>3
<1>11. mainAsleep' => depth' > endIndex' /\ calls'[endIndex'].event_id = ending'
  <2> SUFFICES ASSUME mainAsleep
               PROVE  depth' > endIndex /\ calls'[endIndex].event_id = ending
    OBVIOUS
  <2>1. depth > endIndex /\ calls[endIndex].event_id = ending
    BY DEF NoLostWakeup
  <2>2. endIndex \in 1..depth
    BY <2>1, <1>2 DEF EndingFrame, TypeOK, Slot
  <2>3. QED
    BY <1>1, <1>2, <2>1, <2>2
<1>12. QED
  BY <1>1, <1>2, <1>4, <1>6, <1>7, <1>8, <1>9, <1>10, <1>11

\* wait_event_turn up to its first wait.
LEMMA RequestTurnStep ==
  ASSUME IInv, NEW l \in Lanes, NEW rec \in BOOLEAN, RequestTurn(l, rec)
  PROVE  IInv'
PROOF
<1> USE SizeAssumption DEF IInv
<1> DEFINE e == nextEvent
           ws == Append(waiters, e)
           rc == [recursive EXCEPT ![e] = rec]
<1>1. /\ valid /\ e \in Event
      /\ MayRequest(l, rec)
      /\ nextEvent' = e + 1
      /\ lane' = [lane EXCEPT ![e] = l]
      /\ recursive' = rc
      /\ UNCHANGED <<send, acks, ending, endIndex, mainAsleep, valid, broadcastDue>>
  BY DEF RequestTurn, TypeOK, Event, mainVars, validVars
<1>2. \/ /\ CanEnter(ws, rc, Len(ws)) /\ PushFrame(e)
         /\ state' = [state EXCEPT ![e] = "entered"]
         /\ UNCHANGED <<waiters, asleep>>
      \/ /\ ~CanEnter(ws, rc, Len(ws))
         /\ waiters' = ws /\ asleep' = asleep \cup {e}
         /\ state' = [state EXCEPT ![e] = "waiting"]
         /\ UNCHANGED <<calls, depth>>
  BY DEF RequestTurn, stackVars, queueVars
<1>3. /\ ws \in Seq(Event) /\ Len(ws) = Len(waiters) + 1
      /\ \A i \in 1..Len(waiters) : ws[i] = waiters[i] /\ waiters[i] \in Event
      /\ ws[Len(ws)] = e
      /\ Len(waiters) \in Nat
  BY <1>1, AppendProperties, ElementOfSeq, LenProperties DEF TypeOK
<1>4. rc[e] = rec /\ \A f \in Event : f # e => rc[f] = recursive[f]
  BY <1>1 DEF TypeOK
<1>5. /\ state[e] = "none"
      /\ \A f \in Event : state[f] # "none" => f < e
  BY <1>1 DEF FreshIds, TypeOK, Event
<1>6. /\ nextEvent' \in 1..(MaxEvents + 1)
      /\ lane' \in [Event -> Lanes \cup {Nobody}]
      /\ recursive' \in [Event -> BOOLEAN]
      /\ state' \in [Event -> TurnState]
  <2>1. nextEvent' \in 1..(MaxEvents + 1)
    BY <1>1 DEF Event
  <2>2. QED
    BY <1>1, <1>2, <2>1 DEF TypeOK, TurnState
<1>7. \A f \in Event : f # e => state'[f] = state[f] /\ lane'[f] = lane[f]
  BY <1>1, <1>2 DEF TypeOK
<1>8. lane'[e] = l /\ state'[e] \in {"entered", "waiting"}
  BY <1>1, <1>2 DEF TypeOK
\* The lane is not waiting: it has no turn open or its newest has entered.
<1>9. \A f \in Event : lane[f] = l /\ Active(f) => state[f] = "entered"
  <2>1. CASE \A f \in Event : lane[f] = l => ~Active(f)
    BY <2>1
  <2>2. CASE \E g \in Event : lane[g] = l /\ Innermost(g) /\ state[g] = "entered"
    <3>1. PICK g \in Event : lane[g] = l /\ Innermost(g) /\ state[g] = "entered"
      BY <2>2
    <3>2. ASSUME NEW f \in Event, lane[f] = l, state[f] = "waiting"
          PROVE  FALSE
      <4>1. f <= g /\ g <= f
        BY <3>1, <3>2 DEF Innermost, Active, WaitingIsNewest
      <4>2. f = g
        BY <4>1 DEF Event
      <4>3. QED
        BY <3>1, <3>2, <4>2
    <3>3. QED
      BY <3>2 DEF Active
  <2>3. QED
    BY <1>1, <2>1, <2>2 DEF MayRequest
<1>10. FreshIds'
  BY <1>1, <1>5, <1>7, <1>8 DEF FreshIds, Event, TypeOK
<1>11. WaitingIsNewest'
  <2> SUFFICES ASSUME NEW g \in Event, NEW f \in Event, state'[g] = "waiting",
                      state'[f] \in {"waiting", "entered"}, lane'[f] = lane'[g]
               PROVE  f <= g
    BY DEF WaitingIsNewest, Active
  <2>1. CASE g = e
    BY <1>1, <1>5, <1>7, <2>1 DEF Event
  <2>2. CASE g # e /\ f = e
    BY <1>7, <1>8, <1>9, <2>2 DEF Active
  <2>3. CASE g # e /\ f # e
    BY <1>7, <2>3 DEF WaitingIsNewest, Active
  <2>4. QED
    BY <2>1, <2>2, <2>3
<1>12. \A i \in 1..depth : calls[i].event_id # e /\ calls[i].event_id \in Event
  BY <1>5 DEF FramesEntered
<1>13. \A k \in 1..Len(waiters) : waiters[k] # e
  BY <1>5 DEF WaitersWait
<1>14. CASE /\ CanEnter(ws, rc, Len(ws)) /\ PushFrame(e)
            /\ state' = [state EXCEPT ![e] = "entered"]
            /\ UNCHANGED <<waiters, asleep>>
  <2>1. /\ depth < MaxDepth
        /\ depth = 0 \/ (recursive'[e] /\ calls[depth].pumping)
    BY <1>1, <1>3, <1>14 DEF CanEnter
  <2>2. \A f \in Event : state[f] = "entered" /\ lane[f] = lane'[e] => f < e
    BY <1>5
  <2>3. \A f \in Event : f # e => lane'[f] = lane[f] /\ recursive'[f] = recursive[f]
    BY <1>1, <1>4, <1>7
  <2>4. /\ FramesEntered' /\ EndingFrame' /\ BelowTopPumps' /\ OrdinaryAtBottom'
        /\ LaneFramesNest'
        /\ depth' # 0 /\ ~calls'[depth'].pumping
        /\ mainAsleep' => depth' > endIndex' /\ calls'[endIndex'].event_id = ending'
    BY <1>1, <1>5, <1>6, <1>14, <2>1, <2>2, <2>3, EnterStack
  <2>5. TypeOK' /\ CleanSlots'
    <3>1. depth' \in 0..MaxDepth /\ calls' \in [Slot -> Frame] /\ CleanSlots'
      BY <1>1, <1>14, <2>1, PushFrameProps
    <3>2. QED
      BY <1>1, <1>6, <1>14, <3>1 DEF TypeOK
  <2>6. WaitersWait'
    BY <1>3, <1>7, <1>13, <1>14 DEF WaitersWait
  <2>7. NoLostWakeup'
    <3>1. \A k \in 1..Len(waiters') : ~CanEnter(waiters, recursive, k)'
      BY <2>4, <2>5, TopBlocks DEF CanEnter, TypeOK
    <3>2. QED
      BY <1>1, <2>4, <3>1 DEF NoLostWakeup
  <2>8. QED
    BY <1>10, <1>11, <2>4, <2>5, <2>6, <2>7
<1>15. CASE /\ ~CanEnter(ws, rc, Len(ws))
            /\ waiters' = ws /\ asleep' = asleep \cup {e}
            /\ state' = [state EXCEPT ![e] = "waiting"]
            /\ UNCHANGED <<calls, depth>>
  <2>1. TypeOK'
    BY <1>1, <1>3, <1>6, <1>15 DEF TypeOK
  <2>2. CleanSlots' /\ EndingFrame' /\ BelowTopPumps'
    BY <1>1, <1>15 DEF CleanSlots, EndingFrame, BelowTopPumps
  <2>3. FramesEntered'
    BY <1>7, <1>12, <1>15 DEF FramesEntered
  <2>4. OrdinaryAtBottom'
    <3> SUFFICES ASSUME NEW i \in 2..depth PROVE recursive'[calls[i].event_id]
      BY <1>15 DEF OrdinaryAtBottom
    <3>1. i \in 1..depth
      BY DEF TypeOK
    <3>2. QED
      BY <1>1, <1>4, <1>12, <3>1 DEF OrdinaryAtBottom
  <2>5. LaneFramesNest'
    BY <1>7, <1>12, <1>15 DEF LaneFramesNest
  <2>6. WaitersWait'
    <3>1. \A k \in 1..Len(ws) : k = Len(ws) \/ k \in 1..Len(waiters)
      BY <1>3
    <3>2. state'[e] = "waiting"
      BY <1>1, <1>15 DEF TypeOK
    <3>3. \A k \in 1..Len(ws) : state'[ws[k]] = "waiting"
      BY <1>3, <1>7, <1>13, <3>1, <3>2 DEF WaitersWait
    <3>4. \A j, k \in 1..Len(ws) : ws[j] = ws[k] => j = k
      BY <1>3, <1>13, <3>1 DEF WaitersWait
    <3>5. QED
      BY <1>15, <3>3, <3>4 DEF WaitersWait
  <2>7. NoLostWakeup'
    \* An older waiter that can enter behind the new one could enter before.
    <3>1. ASSUME NEW k \in 1..Len(waiters), CanEnter(ws, rc, k)
          PROVE  CanEnter(waiters, recursive, k)
      <4>1. rc[ws[k]] = recursive[waiters[k]]
        BY <1>3, <1>4, <1>13
      <4>2. \A j \in 1..Len(waiters) : rc[ws[j]] = recursive[waiters[j]]
        BY <1>3, <1>4, <1>13
      <4>3. IsBestWaiter(waiters, recursive, k)
        <5>1. CASE \E j \in 1..Len(waiters) : recursive[waiters[j]]
          <6>1. \E j \in 1..Len(ws) : rc[ws[j]]
            BY <1>3, <4>2, <5>1
          <6>2. rc[ws[k]] /\ \A j \in 1..(k - 1) : ~rc[ws[j]]
            BY <3>1, <6>1 DEF CanEnter, IsBestWaiter
          <6>3. \A j \in 1..(k - 1) : j \in 1..Len(waiters)
            BY <1>3
          <6>4. QED
            BY <4>1, <4>2, <5>1, <6>2, <6>3 DEF IsBestWaiter
        <5>2. CASE ~ \E j \in 1..Len(waiters) : recursive[waiters[j]]
          <6>1. ~rc[ws[k]]
            BY <4>1, <5>2
          <6>2. ~ \E j \in 1..Len(ws) : rc[ws[j]]
            BY <3>1, <6>1 DEF CanEnter, IsBestWaiter
          <6>3. k = 1
            BY <3>1, <6>2 DEF CanEnter, IsBestWaiter
          <6>4. QED
            BY <5>2, <6>3 DEF IsBestWaiter
        <5>3. QED
          BY <5>1, <5>2
      <4>4. QED
        BY <3>1, <4>1, <4>3 DEF CanEnter
    <3>2. \A k \in 1..Len(ws) : ws[k] \in asleep' => ~CanEnter(ws, rc, k)
      <4> SUFFICES ASSUME NEW k \in 1..Len(ws), ws[k] \in asleep'
                   PROVE  ~CanEnter(ws, rc, k)
        OBVIOUS
      <4>1. CASE k = Len(ws)
        BY <1>15, <4>1
      <4>2. CASE k # Len(ws)
        <5>1. k \in 1..Len(waiters)
          BY <1>3, <4>2
        <5>2. waiters[k] \in asleep
          BY <1>3, <1>13, <1>15, <5>1
        <5>3. ~CanEnter(waiters, recursive, k)
          BY <1>1, <5>1, <5>2 DEF NoLostWakeup
        <5>4. QED
          BY <3>1, <5>1, <5>3
      <4>3. QED
        BY <4>1, <4>2
    <3>3. \A k \in 1..Len(ws) : CanEnter(waiters, recursive, k)' <=> CanEnter(ws, rc, k)
      BY <1>1, <1>15 DEF CanEnter, IsBestWaiter
    <3>4. QED
      BY <1>1, <1>15, <3>2, <3>3 DEF NoLostWakeup
  <2>8. QED
    BY <1>10, <1>11, <2>1, <2>2, <2>3, <2>4, <2>5, <2>6, <2>7
<1>16. QED
  BY <1>2, <1>14, <1>15

\* Whatever becomes of an unlinked waiter, the others still wait, once each.
LEMMA RemovalKeepsWaiters ==
  ASSUME TypeOK, WaitersWait, NEW k \in 1..Len(waiters),
         waiters' = RemoveWaiter(waiters, k),
         \A f \in Event : f # waiters[k] => state'[f] = state[f]
  PROVE  WaitersWait'
PROOF
<1> DEFINE old(i) == IF i < k THEN i ELSE i + 1
<1>1. /\ Len(waiters') = Len(waiters) - 1
      /\ \A i \in 1..(Len(waiters) - 1) :
           waiters'[i] = IF i < k THEN waiters[i] ELSE waiters[i + 1]
  BY RemoveWaiterProps DEF TypeOK
<1>2. Len(waiters) \in Nat
  BY LenProperties DEF TypeOK
<1>3. ASSUME NEW i \in 1..Len(waiters')
      PROVE  old(i) \in 1..Len(waiters) /\ old(i) # k /\ waiters'[i] = waiters[old(i)]
  BY <1>1, <1>2
<1>4. ASSUME NEW i \in 1..Len(waiters'), NEW j \in 1..Len(waiters'), old(i) = old(j)
      PROVE  i = j
  BY <1>1, <1>2, <1>4
<1> HIDE DEF old
<1>5. ASSUME NEW i \in 1..Len(waiters') PROVE state'[waiters'[i]] = "waiting"
  <2>1. waiters[old(i)] # waiters[k] /\ waiters[old(i)] \in Event
    BY <1>3, ElementOfSeq DEF WaitersWait, TypeOK
  <2>2. QED
    BY <1>3, <2>1 DEF WaitersWait
<1>6. ASSUME NEW i \in 1..Len(waiters'), NEW j \in 1..Len(waiters'),
             waiters'[i] = waiters'[j]
      PROVE  i = j
  BY <1>3, <1>4, <1>6 DEF WaitersWait
<1>7. QED
  BY <1>5, <1>6 DEF WaitersWait

\* A woken waiter enters or sleeps again.
LEMMA RetryTurnStep ==
  ASSUME IInv, NEW k \in 1..Len(waiters), RetryTurn(k)
  PROVE  IInv'
PROOF
<1> USE SizeAssumption DEF IInv
<1> DEFINE e == waiters[k]
<1>1. e \in Event /\ state[e] = "waiting"
  BY ElementOfSeq DEF TypeOK, WaitersWait
<1>2. /\ valid
      /\ UNCHANGED <<nextEvent, lane, recursive, send, acks, ending, endIndex,
                     mainAsleep, valid, broadcastDue>>
  BY DEF RetryTurn, mainVars, validVars
<1>3. CASE CanEnter(waiters, recursive, k)
  <2>1. /\ waiters' = RemoveWaiter(waiters, k)
        /\ PushFrame(e)
        /\ state' = [state EXCEPT ![e] = "entered"]
        /\ asleep' = asleep
    BY <1>3 DEF RetryTurn
  <2>2. /\ waiters' \in Seq(Event)
        /\ Len(waiters') = Len(waiters) - 1
        /\ \A i \in 1..(Len(waiters) - 1) :
             waiters'[i] = IF i < k THEN waiters[i] ELSE waiters[i + 1]
    BY <2>1, RemoveWaiterProps DEF TypeOK
  <2>3. /\ depth < MaxDepth
        /\ depth = 0 \/ (recursive'[e] /\ calls[depth].pumping)
    BY <1>2, <1>3 DEF CanEnter
  <2>4. \A f \in Event : state[f] = "entered" /\ lane[f] = lane'[e] => f < e
    BY <1>1, <1>2 DEF WaitingIsNewest, Active, Event
  <2>5. /\ FramesEntered' /\ EndingFrame' /\ BelowTopPumps' /\ OrdinaryAtBottom'
        /\ LaneFramesNest'
        /\ depth' # 0 /\ ~calls'[depth'].pumping
        /\ mainAsleep' => depth' > endIndex' /\ calls'[endIndex'].event_id = ending'
    <3>1. lane' \in [Event -> Lanes \cup {Nobody}] /\ state[e] # "entered"
      BY <1>1, <1>2 DEF TypeOK
    <3>2. \A f \in Event : f # e => lane'[f] = lane[f] /\ recursive'[f] = recursive[f]
      BY <1>2
    <3>3. QED
      BY <1>1, <1>2, <2>1, <2>3, <2>4, <3>1, <3>2, EnterStack
  <2>6. TypeOK' /\ CleanSlots'
    <3>1. depth' \in 0..MaxDepth /\ calls' \in [Slot -> Frame] /\ CleanSlots'
      BY <1>1, <2>1, <2>3, PushFrameProps
    <3>2. state' \in [Event -> TurnState]
      BY <1>1, <2>1 DEF TypeOK, TurnState
    <3>3. QED
      BY <1>2, <2>1, <2>2, <3>1, <3>2 DEF TypeOK
  <2>7. WaitersWait'
    <3>1. \A f \in Event : f # e => state'[f] = state[f]
      BY <2>1 DEF TypeOK
    <3>2. QED
      BY <2>1, <3>1, RemovalKeepsWaiters
  <2>8. FreshIds' /\ WaitingIsNewest'
    BY <1>1, <1>2, <2>1 DEF FreshIds, WaitingIsNewest, Active, TypeOK
  <2>9. NoLostWakeup'
    <3>1. \A j \in 1..Len(waiters') : ~CanEnter(waiters, recursive, j)'
      BY <2>5, <2>6 DEF CanEnter, TypeOK
    <3>2. QED
      BY <1>2, <2>5, <3>1 DEF NoLostWakeup
  <2>10. QED
    BY <2>5, <2>6, <2>7, <2>8, <2>9
<1>4. CASE ~CanEnter(waiters, recursive, k)
  <2>1. asleep' = asleep \cup {e} /\ UNCHANGED <<waiters, state, calls, depth>>
    BY <1>4 DEF RetryTurn, stackVars
  <2>2. TypeOK' /\ CleanSlots' /\ EndingFrame' /\ BelowTopPumps' /\ OrdinaryAtBottom'
    BY <1>1, <1>2, <2>1
       DEF TypeOK, CleanSlots, EndingFrame, BelowTopPumps, OrdinaryAtBottom
  <2>3. FramesEntered' /\ WaitersWait' /\ FreshIds' /\ WaitingIsNewest' /\ LaneFramesNest'
    BY <1>2, <2>1 DEF FramesEntered, WaitersWait, FreshIds, WaitingIsNewest, Active,
                      LaneFramesNest
  <2>4. NoLostWakeup'
    <3>1. \A j \in 1..Len(waiters) : waiters[j] = e => j = k
      BY DEF WaitersWait
    <3>2. \A j \in 1..Len(waiters) :
            CanEnter(waiters, recursive, j)' <=> CanEnter(waiters, recursive, j)
      BY <1>2, <2>1 DEF CanEnter, IsBestWaiter
    <3>3. QED
      BY <1>2, <1>4, <2>1, <3>1, <3>2 DEF NoLostWakeup
  <2>5. QED
    BY <2>2, <2>3, <2>4
<1>5. QED
  BY <1>3, <1>4

\* A waiter leaves without entering.
LEMMA LeaveQueueStep ==
  ASSUME IInv, NEW k \in 1..Len(waiters), LeaveQueue(k)
  PROVE  IInv'
PROOF
<1> USE SizeAssumption DEF IInv
<1> DEFINE e == waiters[k]
<1>1. e \in Event /\ state[e] = "waiting"
  BY ElementOfSeq DEF TypeOK, WaitersWait
<1>2. /\ waiters' = RemoveWaiter(waiters, k)
      /\ state' = [state EXCEPT ![e] = "done"]
      /\ asleep' = {} /\ mainAsleep' = FALSE
      /\ UNCHANGED <<nextEvent, lane, recursive, calls, depth, send, acks, ending,
                     endIndex, valid, broadcastDue>>
  BY DEF LeaveQueue, Broadcast, stackVars, validVars
<1>3. /\ waiters' \in Seq(Event)
      /\ Len(waiters') = Len(waiters) - 1
      /\ \A i \in 1..(Len(waiters) - 1) :
           waiters'[i] = IF i < k THEN waiters[i] ELSE waiters[i + 1]
  BY <1>2, RemoveWaiterProps DEF TypeOK
<1>4. TypeOK'
  <2>1. state' \in [Event -> TurnState]
    BY <1>1, <1>2 DEF TypeOK, TurnState
  <2>2. QED
    BY <1>2, <1>3, <2>1 DEF TypeOK
<1>5. CleanSlots' /\ EndingFrame' /\ BelowTopPumps' /\ OrdinaryAtBottom' /\ LaneFramesNest'
  BY <1>2 DEF CleanSlots, EndingFrame, BelowTopPumps, OrdinaryAtBottom, LaneFramesNest
<1>6. FramesEntered'
  BY <1>1, <1>2 DEF FramesEntered, TypeOK
<1>7. FreshIds' /\ WaitingIsNewest'
  BY <1>1, <1>2 DEF FreshIds, WaitingIsNewest, Active, TypeOK
<1>8. WaitersWait'
  <2>1. \A f \in Event : f # e => state'[f] = state[f]
    BY <1>2 DEF TypeOK
  <2>2. QED
    BY <1>2, <2>1, RemovalKeepsWaiters
<1>9. NoLostWakeup'
  BY <1>2 DEF NoLostWakeup
<1>10. QED
  BY <1>4, <1>5, <1>6, <1>7, <1>8, <1>9

\* The conjuncts about turns do not depend on pumps, acknowledgements and
\* validity.
LEMMA TurnsUnchanged ==
  ASSUME IInv, UNCHANGED <<turnVars, depth, waiters>>,
         \A i \in 1..depth : calls'[i].event_id = calls[i].event_id
  PROVE  /\ FramesEntered' /\ WaitersWait' /\ FreshIds' /\ WaitingIsNewest'
         /\ OrdinaryAtBottom' /\ LaneFramesNest'
PROOF
<1>1. UNCHANGED <<nextEvent, lane, recursive, state, depth, waiters>>
  BY DEF turnVars
<1>2. depth \in Nat
  BY DEF IInv, TypeOK
<1>3. FramesEntered' /\ WaitersWait'
  BY <1>1 DEF IInv, FramesEntered, WaitersWait
<1>4. FreshIds' /\ WaitingIsNewest'
  BY <1>1 DEF IInv, FreshIds, WaitingIsNewest, Active
<1>5. OrdinaryAtBottom'
  <2>1. \A i \in 2..depth : i \in 1..depth
    BY <1>2
  <2>2. QED
    BY <1>1, <2>1 DEF IInv, OrdinaryAtBottom
<1>6. LaneFramesNest'
  BY <1>1 DEF IInv, LaneFramesNest
<1>7. QED
  BY <1>3, <1>4, <1>5, <1>6

\* Whoever clears valid still owes the broadcast.
LEMMA InvalidateKeepsDue ==
  ASSUME TypeOK, NoLostWakeup, NEW t \in Lanes \cup {Main}, InvalidateBy(t),
         asleep' = asleep \/ asleep' = {}, mainAsleep' = mainAsleep \/ mainAsleep' = FALSE
  PROVE  /\ NoLostWakeup' /\ BelowTopPumps' /\ valid' = FALSE
         /\ broadcastDue' \in Lanes \cup {Main, Nobody}
PROOF
<1>1. t # Nobody /\ valid' = FALSE
  BY ThreadAssumption DEF InvalidateBy, Main, Nobody
<1>2. NoLostWakeup'
  BY <1>1 DEF NoLostWakeup, InvalidateBy
<1>3. broadcastDue' \in Lanes \cup {Main, Nobody}
  BY DEF InvalidateBy, TypeOK
<1>4. QED
  BY <1>1, <1>2, <1>3 DEF BelowTopPumps

\* A transaction opens or closes: the stack is only tested.
LEMMA TransactionStep ==
  ASSUME IInv, NEW e \in Event, RunTransaction(e) \/ FinishTransaction(e)
  PROVE  IInv'
PROOF
<1> USE SizeAssumption
<1>1. UNCHANGED <<turnVars, stackVars, queueVars, ending, endIndex, mainAsleep>>
  BY DEF RunTransaction, FinishTransaction, mainVars
<1>2. UNCHANGED <<nextEvent, lane, recursive, state, calls, depth, waiters, asleep,
                  ending, endIndex, mainAsleep>>
  BY <1>1 DEF turnVars, stackVars, queueVars
<1>3. /\ FramesEntered' /\ WaitersWait' /\ FreshIds' /\ WaitingIsNewest'
      /\ OrdinaryAtBottom' /\ LaneFramesNest'
  BY <1>1, <1>2, TurnsUnchanged
<1>4. CleanSlots' /\ EndingFrame'
  BY <1>2 DEF IInv, CleanSlots, EndingFrame
<1>5. lane[e] \in Lanes
  BY DEF RunTransaction, FinishTransaction, Innermost, Active, IInv, FreshIds
<1>6. send' \in [Event -> SendState]
  BY DEF RunTransaction, FinishTransaction, ReleaseOne, IInv, TypeOK, SendState
<1>7. acks' \in Seq(Event)
  <2>1. acks \in Seq(Event) /\ Append(acks, e) \in Seq(Event)
    BY AppendProperties DEF IInv, TypeOK
  <2>2. acks' = acks \/ acks' = Append(acks, e)
    BY DEF RunTransaction, FinishTransaction, ReleaseOne, mainVars
  <2>3. QED
    BY <2>1, <2>2
<1>8. CASE UNCHANGED validVars
  <2>1. TypeOK'
    BY <1>2, <1>6, <1>7, <1>8 DEF IInv, TypeOK, validVars
  <2>2. BelowTopPumps' /\ NoLostWakeup'
    BY <1>2, <1>8 DEF IInv, BelowTopPumps, NoLostWakeup, validVars, CanEnter, IsBestWaiter
  <2>3. QED
    BY <1>3, <1>4, <2>1, <2>2 DEF IInv
<1>9. CASE InvalidateBy(lane[e])
  <2>1. NoLostWakeup' /\ BelowTopPumps' /\ valid' = FALSE
        /\ broadcastDue' \in Lanes \cup {Main, Nobody}
    BY <1>2, <1>5, <1>9, InvalidateKeepsDue DEF IInv
  <2>2. TypeOK'
    BY <1>2, <1>6, <1>7, <2>1 DEF IInv, TypeOK
  <2>3. QED
    BY <1>3, <1>4, <2>1, <2>2 DEF IInv
<1>10. QED
  BY <1>8, <1>9 DEF RunTransaction, FinishTransaction, ReleaseOne

\* begin_pump.
LEMMA BeginPumpStep ==
  ASSUME IInv, NEW e \in Event, BeginPump(e) \/ BeginPumpRefused(e)
  PROVE  IInv'
PROOF
<1> USE SizeAssumption
<1>1. /\ ending = 0 /\ valid /\ depth # 0
      /\ calls[depth].event_id = e
      /\ calls' = [calls EXCEPT ![depth].pumping = TRUE]
      /\ asleep' = {} /\ mainAsleep' = FALSE
      /\ UNCHANGED <<turnVars, depth, waiters, ending, endIndex>>
  BY DEF BeginPump, BeginPumpRefused, StartPump, MainIdle, Broadcast
<1>2. depth \in Slot /\ depth \in Nat
  BY <1>1 DEF IInv, TypeOK, Slot
<1>3. /\ calls' \in [Slot -> Frame]
      /\ \A i \in Slot : calls'[i].event_id = calls[i].event_id
      /\ \A i \in Slot : i # depth => calls'[i] = calls[i]
  BY <1>1, <1>2 DEF IInv, TypeOK, Frame
<1>4. \A i \in 1..depth : i \in Slot
  BY <1>2 DEF Slot
<1>5. /\ FramesEntered' /\ WaitersWait' /\ FreshIds' /\ WaitingIsNewest'
      /\ OrdinaryAtBottom' /\ LaneFramesNest'
  BY <1>1, <1>3, <1>4, TurnsUnchanged
<1>6. /\ valid' \in BOOLEAN /\ broadcastDue' \in Lanes \cup {Main, Nobody}
      /\ send' \in [Event -> SendState] /\ acks' \in Seq(Event)
  <2>1. CASE BeginPump(e)
    BY <2>1 DEF BeginPump, IInv, TypeOK, SendState, validVars
  <2>2. CASE BeginPumpRefused(e)
    <3>1. Append(acks, e) \in Seq(Event)
      BY AppendProperties DEF IInv, TypeOK
    <3>2. QED
      BY <2>2, <3>1 DEF BeginPumpRefused, ReleaseOne, InvalidateBy, IInv, TypeOK,
                        SendState, validVars
  <2>3. QED
    BY <2>1, <2>2
<1>7. TypeOK'
  BY <1>1, <1>3, <1>6 DEF IInv, TypeOK, turnVars
<1>8. CleanSlots' /\ EndingFrame' /\ NoLostWakeup'
  BY <1>1, <1>2, <1>3 DEF IInv, CleanSlots, EndingFrame, NoLostWakeup, Slot
<1>9. BelowTopPumps'
  BY <1>1, <1>2, <1>3, <1>4 DEF IInv, BelowTopPumps
<1>10. QED
  BY <1>5, <1>7, <1>8, <1>9 DEF IInv

\* The reply to a Send: it keeps the stack, and a failure invalidates.
LEMMA SendResultProps ==
  ASSUME TypeOK, NEW e \in Event, NEW ended \in BOOLEAN, SendResult(e, ended)
  PROVE  /\ send' \in [Event -> SendState]
         /\ \/ ended /\ UNCHANGED <<valid, broadcastDue>>
            \/ InvalidateBy(Main)
PROOF
  BY DEF SendResult, TypeOK, SendState, validVars

\* end_pump up to its first wait.
LEMMA EndPumpStep ==
  ASSUME IInv, EndPump
  PROVE  IInv'
PROOF
<1> USE SizeAssumption
<1> DEFINE e == Head(acks)
           k == FindCall(e)
<1>1. e \in Event /\ acks' \in Seq(Event)
  BY HeadTailProperties DEF EndPump, IInv, TypeOK
<1>2. /\ k \in 0..depth
      /\ k # 0 => calls[k].event_id = e
  BY FindCallProps DEF IInv
<1>3. ending = 0 /\ UNCHANGED <<turnVars, depth, waiters>>
  BY DEF EndPump, MainIdle
<1>3a. mainAsleep = FALSE /\ depth \in Nat
  BY <1>3 DEF IInv, EndingFrame, TypeOK
<1>4. CASE valid /\ k # 0 /\ calls[k].pumping
  <2>1. /\ calls' = [calls EXCEPT ![k].pumping = FALSE]
        /\ asleep' = {}
        /\ \/ /\ depth > k /\ ending' = e /\ endIndex' = k /\ mainAsleep' = TRUE
              /\ UNCHANGED <<send, valid, broadcastDue>>
           \/ /\ ~(depth > k) /\ SendResult(e, TRUE)
              /\ UNCHANGED <<ending, endIndex, mainAsleep>>
    BY <1>4 DEF EndPump, validVars
  <2>2. k \in Slot /\ k \in 1..depth
    BY <1>2, <1>4 DEF IInv, TypeOK, Slot
  <2>3. /\ calls' \in [Slot -> Frame]
        /\ \A i \in Slot : calls'[i].event_id = calls[i].event_id
        /\ \A i \in Slot : i # k => calls'[i] = calls[i]
        /\ calls'[k].pumping = FALSE
    BY <2>1, <2>2 DEF IInv, TypeOK, Frame
  <2>4. \A i \in 1..depth : i \in Slot
    BY <1>3a DEF Slot, IInv, TypeOK
  <2>5. /\ FramesEntered' /\ WaitersWait' /\ FreshIds' /\ WaitingIsNewest'
        /\ OrdinaryAtBottom' /\ LaneFramesNest'
    BY <1>3, <2>3, <2>4, TurnsUnchanged
  <2>6. CleanSlots'
    BY <1>3, <1>3a, <2>2, <2>3 DEF IInv, CleanSlots, Slot
  <2>7. \A i \in 1..depth : calls[i].event_id = e => i = k
    BY <1>2, <2>2 DEF IInv, FramesEntered
  <2>8. CASE /\ depth > k /\ ending' = e /\ endIndex' = k /\ mainAsleep' = TRUE
             /\ UNCHANGED <<send, valid, broadcastDue>>
    <3>1. ending' \in 0..MaxEvents /\ endIndex' \in 0..MaxDepth
      BY <1>1, <2>2, <2>8 DEF Event, Slot
    <3>2. TypeOK'
      BY <1>1, <1>3, <2>1, <2>3, <2>8, <3>1 DEF IInv, TypeOK, turnVars
    <3>3. EndingFrame'
      BY <1>1, <1>3, <2>2, <2>3, <2>4, <2>7, <2>8 DEF EndingFrame, Event
    <3>4. BelowTopPumps'
      <4> SUFFICES ASSUME NEW i \in 1..depth, i < depth
                   PROVE  calls'[i].pumping \/ calls'[i].event_id = e
        BY <1>3, <2>8 DEF BelowTopPumps
      <4>1. CASE i = k
        BY <1>2, <1>4, <2>2, <2>3, <4>1
      <4>2. CASE i # k
        <5>1. calls'[i] = calls[i] /\ calls[i].event_id # 0
          BY <2>3, <2>4, <4>2 DEF IInv, FramesEntered, Event
        <5>2. QED
          BY <1>3, <1>4, <5>1 DEF IInv, BelowTopPumps
      <4>3. QED
        BY <4>1, <4>2
    <3>5. NoLostWakeup'
      BY <1>2, <1>3, <1>4, <2>1, <2>2, <2>3, <2>8 DEF NoLostWakeup
    <3>6. QED
      BY <2>5, <2>6, <3>2, <3>3, <3>4, <3>5 DEF IInv
  <2>9. CASE /\ ~(depth > k) /\ SendResult(e, TRUE)
             /\ UNCHANGED <<ending, endIndex, mainAsleep>>
    <3>1. /\ send' \in [Event -> SendState]
          /\ \/ UNCHANGED <<valid, broadcastDue>>
             \/ InvalidateBy(Main)
      BY <1>1, <2>9, SendResultProps DEF IInv
    <3>2. EndingFrame'
      BY <1>3, <2>9 DEF IInv, EndingFrame
    <3>3. k = depth
      BY <1>3a, <2>2, <2>9
    <3>4. CASE UNCHANGED <<valid, broadcastDue>>
      <4>1. TypeOK'
        BY <1>1, <1>3, <2>1, <2>3, <2>9, <3>1, <3>4 DEF IInv, TypeOK, turnVars
      <4>2. BelowTopPumps'
        BY <1>3, <1>3a, <2>3, <2>4, <2>9, <3>3, <3>4 DEF IInv, BelowTopPumps
      <4>3. NoLostWakeup'
        BY <1>3a, <1>4, <2>1, <2>9, <3>4 DEF NoLostWakeup
      <4>4. QED
        BY <2>5, <2>6, <3>2, <4>1, <4>2, <4>3 DEF IInv
    <3>5. CASE InvalidateBy(Main)
      <4>1. NoLostWakeup' /\ BelowTopPumps' /\ valid' = FALSE
            /\ broadcastDue' \in Lanes \cup {Main, Nobody}
        BY <2>1, <2>9, <3>5, InvalidateKeepsDue DEF IInv
      <4>2. TypeOK'
        BY <1>1, <1>3, <2>1, <2>3, <2>9, <3>1, <4>1 DEF IInv, TypeOK, turnVars
      <4>3. QED
        BY <2>5, <2>6, <3>2, <4>1, <4>2 DEF IInv
    <3>6. QED
      BY <3>1, <3>4, <3>5
  <2>10. QED
    BY <2>1, <2>8, <2>9
<1>5. CASE ~(valid /\ k # 0 /\ calls[k].pumping)
  <2>1. /\ SendResult(e, FALSE)
        /\ asleep' = asleep \/ asleep' = {}
        /\ UNCHANGED <<calls, ending, endIndex, mainAsleep>>
    BY <1>5 DEF EndPump
  <2>2. send' \in [Event -> SendState] /\ InvalidateBy(Main)
    BY <1>1, <2>1, SendResultProps DEF IInv
  <2>3. NoLostWakeup' /\ BelowTopPumps' /\ valid' = FALSE
        /\ broadcastDue' \in Lanes \cup {Main, Nobody}
    BY <2>1, <2>2, InvalidateKeepsDue DEF IInv
  <2>4. /\ FramesEntered' /\ WaitersWait' /\ FreshIds' /\ WaitingIsNewest'
        /\ OrdinaryAtBottom' /\ LaneFramesNest'
    BY <1>3, <2>1, TurnsUnchanged
  <2>5. CleanSlots' /\ EndingFrame'
    BY <1>3, <2>1 DEF IInv, CleanSlots, EndingFrame
  <2>6. TypeOK'
    BY <1>1, <1>3, <2>1, <2>2, <2>3 DEF IInv, TypeOK, turnVars
  <2>7. QED
    BY <2>3, <2>4, <2>5, <2>6 DEF IInv
<1>6. QED
  BY <1>4, <1>5

\* end_pump after a broadcast.
LEMMA EndPumpWakeStep ==
  ASSUME IInv, EndPumpWake
  PROVE  IInv'
PROOF
<1> USE SizeAssumption
<1> DEFINE holds == calls[endIndex].event_id = ending
<1>1. /\ ending # 0 /\ mainAsleep = FALSE
      /\ UNCHANGED <<turnVars, calls, depth, waiters, acks>>
  BY DEF EndPumpWake, stackVars, IInv, TypeOK
<1>2. ending \in Event /\ endIndex \in Slot /\ depth \in Nat
  BY <1>1 DEF IInv, TypeOK, EndingFrame, Event
<1>3. /\ FramesEntered' /\ WaitersWait' /\ FreshIds' /\ WaitingIsNewest'
      /\ OrdinaryAtBottom' /\ LaneFramesNest'
  BY <1>1, TurnsUnchanged
<1>4. CleanSlots'
  BY <1>1 DEF IInv, CleanSlots
<1>5. CASE valid /\ depth > endIndex /\ holds
  <2>1. /\ mainAsleep' = TRUE
        /\ UNCHANGED <<send, asleep, ending, endIndex, valid, broadcastDue>>
    BY <1>5 DEF EndPumpWake, validVars
  <2>2. TypeOK'
    BY <1>1, <2>1 DEF IInv, TypeOK, turnVars
  <2>3. EndingFrame' /\ BelowTopPumps'
    BY <1>1, <2>1 DEF IInv, EndingFrame, BelowTopPumps
  <2>4. NoLostWakeup'
    BY <1>1, <1>5, <2>1
       DEF IInv, NoLostWakeup, CanEnter, IsBestWaiter, turnVars
  <2>5. QED
    BY <1>3, <1>4, <2>2, <2>3, <2>4 DEF IInv
<1>6. CASE ~(valid /\ depth > endIndex /\ holds)
  <2> DEFINE ended == valid /\ depth = endIndex /\ holds
  <2>1. /\ SendResult(ending, ended)
        /\ asleep' = {} /\ ending' = 0 /\ endIndex' = 0 /\ mainAsleep' = mainAsleep
    BY <1>6 DEF EndPumpWake
  <2>2. ended \in BOOLEAN
    BY DEF IInv, TypeOK
  <2>3. /\ send' \in [Event -> SendState]
        /\ \/ ended /\ UNCHANGED <<valid, broadcastDue>>
           \/ InvalidateBy(Main)
    BY <1>2, <2>1, <2>2, SendResultProps DEF IInv
  <2>4. EndingFrame'
    BY <1>1, <2>1 DEF EndingFrame
  <2>5. ending' \in 0..MaxEvents /\ endIndex' \in 0..MaxDepth
    BY <2>1
  <2>6. CASE ended /\ UNCHANGED <<valid, broadcastDue>>
    <3>1. TypeOK'
      BY <1>1, <2>1, <2>3, <2>5, <2>6 DEF IInv, TypeOK, turnVars
    <3>2. BelowTopPumps'
      <4> SUFFICES ASSUME NEW i \in 1..depth, i < depth
                   PROVE  calls[i].pumping
        BY <1>1, <2>1 DEF BelowTopPumps
      <4>1. depth \in 1..depth /\ calls[depth].event_id = ending
        BY <1>2, <2>6 DEF Slot
      <4>2. calls[i].event_id # ending
        BY <1>2, <4>1 DEF IInv, FramesEntered
      <4>3. QED
        BY <2>6, <4>2 DEF IInv, BelowTopPumps
    <3>3. NoLostWakeup'
      BY <1>1, <2>1, <2>6 DEF NoLostWakeup
    <3>4. QED
      BY <1>3, <1>4, <2>4, <3>1, <3>2, <3>3 DEF IInv
  <2>7. CASE InvalidateBy(Main)
    <3>1. NoLostWakeup' /\ BelowTopPumps' /\ valid' = FALSE
          /\ broadcastDue' \in Lanes \cup {Main, Nobody}
      BY <2>1, <2>7, InvalidateKeepsDue DEF IInv
    <3>2. TypeOK'
      BY <1>1, <2>1, <2>3, <2>5, <3>1 DEF IInv, TypeOK, turnVars
    <3>3. QED
      BY <1>3, <1>4, <2>4, <3>1, <3>2 DEF IInv
  <2>8. QED
    BY <2>3, <2>6, <2>7
<1>7. QED
  BY <1>5, <1>6

\* hook_send_ref_invalidate by the main thread, and its broadcast.
LEMMA InvalidateStep ==
  ASSUME IInv, Invalidate \/ InvalidateBroadcast
  PROVE  IInv'
PROOF
<1>1. CASE Invalidate
  <2>1. /\ InvalidateBy(Main)
        /\ UNCHANGED <<turnVars, calls, depth, waiters, asleep, acks, ending,
                       endIndex, mainAsleep, send>>
    BY <1>1 DEF Invalidate, stackVars, queueVars, mainVars
  <2>2. NoLostWakeup' /\ BelowTopPumps' /\ valid' = FALSE
        /\ broadcastDue' \in Lanes \cup {Main, Nobody}
    BY <2>1, InvalidateKeepsDue DEF IInv
  <2>3. /\ FramesEntered' /\ WaitersWait' /\ FreshIds' /\ WaitingIsNewest'
        /\ OrdinaryAtBottom' /\ LaneFramesNest'
    BY <2>1, TurnsUnchanged
  <2>4. TypeOK' /\ CleanSlots' /\ EndingFrame'
    BY <2>1, <2>2 DEF IInv, TypeOK, CleanSlots, EndingFrame, turnVars
  <2>5. QED
    BY <2>2, <2>3, <2>4 DEF IInv
<1>2. CASE InvalidateBroadcast
  <2>1. /\ broadcastDue' = Nobody /\ asleep' = {} /\ mainAsleep' = FALSE
        /\ UNCHANGED <<turnVars, calls, depth, waiters, send, acks, ending,
                       endIndex, valid>>
    BY <1>2 DEF InvalidateBroadcast, Broadcast, stackVars
  <2>2. /\ FramesEntered' /\ WaitersWait' /\ FreshIds' /\ WaitingIsNewest'
        /\ OrdinaryAtBottom' /\ LaneFramesNest'
    BY <2>1, TurnsUnchanged
  <2>3. TypeOK' /\ CleanSlots' /\ EndingFrame'
    BY <2>1 DEF IInv, TypeOK, CleanSlots, EndingFrame, turnVars
  <2>4. BelowTopPumps' /\ NoLostWakeup'
    BY <2>1 DEF IInv, BelowTopPumps, NoLostWakeup
  <2>5. QED
    BY <2>2, <2>3, <2>4 DEF IInv
<1>3. QED
  BY <1>1, <1>2

\* A stuttering step keeps the invariant.
LEMMA StutterStep ==
  ASSUME IInv, UNCHANGED vars
  PROVE  IInv'
PROOF
<1>1. UNCHANGED <<turnVars, calls, depth, waiters, asleep, acks, ending, endIndex,
                  mainAsleep, valid, broadcastDue, send>>
  BY DEF vars, stackVars, queueVars, mainVars, validVars
<1>2. /\ FramesEntered' /\ WaitersWait' /\ FreshIds' /\ WaitingIsNewest'
      /\ OrdinaryAtBottom' /\ LaneFramesNest'
  BY <1>1, TurnsUnchanged
<1>3. TypeOK' /\ CleanSlots' /\ EndingFrame' /\ BelowTopPumps'
  BY <1>1 DEF IInv, TypeOK, CleanSlots, EndingFrame, BelowTopPumps, turnVars
<1>4. NoLostWakeup'
  BY <1>1 DEF IInv, NoLostWakeup, CanEnter, IsBestWaiter, turnVars
<1>5. QED
  BY <1>2, <1>3, <1>4 DEF IInv

-----------------------------------------------------------------------------
(* The theorems.                                                           *)

\* The inductive invariant holds in every reachable state of the stream.
THEOREM InductiveInvariant == Spec => []IInv
PROOF
<1>1. IInv /\ [Next]_vars => IInv'
  <2> SUFFICES ASSUME IInv, [Next]_vars PROVE IInv'
    OBVIOUS
  <2>1. ASSUME NEW l \in Lanes, NEW rec \in BOOLEAN, RequestTurn(l, rec) PROVE IInv'
    BY <2>1, RequestTurnStep
  <2>2. ASSUME NEW k \in 1..Len(waiters), RetryTurn(k) \/ LeaveQueue(k) PROVE IInv'
    BY <2>2, RetryTurnStep, LeaveQueueStep
  <2>3. ASSUME NEW e \in Event,
               CompleteTurn(e) \/ RunTransaction(e) \/ FinishTransaction(e)
        PROVE  IInv'
    BY <2>3, CompleteTurnStep, TransactionStep
  <2>4. ASSUME NEW e \in Event, BeginPump(e) \/ BeginPumpRefused(e) PROVE IInv'
    BY <2>4, BeginPumpStep
  <2>5. CASE EndPump \/ EndPumpWake
    BY <2>5, EndPumpStep, EndPumpWakeStep
  <2>6. CASE Invalidate \/ InvalidateBroadcast
    BY <2>6, InvalidateStep
  <2>7. CASE Finished \/ UNCHANGED vars
    BY <2>7, StutterStep DEF Finished
  <2>8. QED
    BY <2>1, <2>2, <2>3, <2>4, <2>5, <2>6, <2>7 DEF Next, LaneStep, MainStep
<1>2. QED
  BY <1>1, InitIInv, PTL DEF Spec

\* The state of a callback stream is always well formed.
THEOREM TypeCorrect == Spec => []TypeOK
PROOF
<1>1. IInv => TypeOK
  BY DEF IInv
<1>2. QED
  BY <1>1, InductiveInvariant, PTL

\* Ordinary turns enter only an empty stack, and lanes' frames nest.
THEOREM StackOrder == Spec => [](OrdinaryAtBottom /\ LaneFramesNest)
PROOF
<1>1. IInv => OrdinaryAtBottom /\ LaneFramesNest
  BY DEF IInv
<1>2. QED
  BY <1>1, InductiveInvariant, PTL

\* The stream's condition variable loses no wakeup.
THEOREM WakeupsNotLost == Spec => []NoLostWakeup
PROOF
<1>1. IInv => NoLostWakeup
  BY DEF IInv
<1>2. QED
  BY <1>1, InductiveInvariant, PTL

\* A Send's reply is published only once its callback is the innermost frame
\* again and may issue its next Send.
THEOREM ResumedOnTop == Spec => ResumeOnTop
PROOF
<1> DEFINE Resumes(e) == send[e] = "acked" /\ send'[e] = "none"
           OnTop(e) == /\ depth' # 0
                       /\ calls'[depth'] = [event_id |-> e, pumping |-> FALSE]
<1>1. ASSUME IInv, Next, NEW e \in Event, Resumes(e)
      PROVE  OnTop(e)
  <2> USE SizeAssumption
  <2>1. send[e] = "acked" /\ send'[e] = "none"
    BY <1>1
  <2>2. EndPump \/ EndPumpWake
    <3>1. send' # send
      BY <2>1
    <3>2. \A f \in Event : /\ ~RunTransaction(f) /\ ~FinishTransaction(f)
                            /\ ~BeginPump(f) /\ ~BeginPumpRefused(f)
      <4> SUFFICES ASSUME NEW f \in Event,
                          \/ RunTransaction(f) \/ FinishTransaction(f)
                          \/ BeginPump(f) \/ BeginPumpRefused(f)
                   PROVE  FALSE
        OBVIOUS
      <4>1. \E v \in {"queued", "running", "acked", "unsent"} :
              send' = [send EXCEPT ![f] = v]
        BY DEF RunTransaction, FinishTransaction, BeginPump, BeginPumpRefused, ReleaseOne
      <4>2. QED
        BY <1>1, <2>1, <4>1 DEF IInv, TypeOK
    <3>3. \A l \in Lanes, rec \in BOOLEAN : ~RequestTurn(l, rec)
      BY <3>1 DEF RequestTurn
    <3>4. \A k \in 1..Len(waiters) : ~RetryTurn(k) /\ ~LeaveQueue(k)
      BY <3>1 DEF RetryTurn, LeaveQueue
    <3>5. \A f \in Event : ~CompleteTurn(f)
      BY <3>1 DEF CompleteTurn
    <3>6. ~Invalidate /\ ~InvalidateBroadcast /\ ~Finished
      BY <3>1 DEF Invalidate, InvalidateBroadcast, Finished, vars
    <3>7. QED
      BY <1>1, <3>2, <3>3, <3>4, <3>5, <3>6 DEF Next, LaneStep, MainStep
  \* The reply belongs to the completion being ended.
  <2>3. ASSUME NEW f \in Event, NEW ended \in BOOLEAN, SendResult(f, ended)
        PROVE  f = e /\ ended = TRUE
    BY <1>1, <2>1, <2>3 DEF SendResult, IInv, TypeOK
  <2>4. CASE EndPump
    <3> DEFINE h == Head(acks)
               k == FindCall(h)
    <3>1. h \in Event
      <4>1. acks \in Seq(Event) /\ acks # <<>>
        BY <1>1, <2>4 DEF EndPump, IInv, TypeOK
      <4>2. QED
        BY <4>1, HeadTailProperties
    <3>2. SendResult(h, TRUE) \/ SendResult(h, FALSE) \/ send' = send
      BY <2>4 DEF EndPump
    <3>3. h = e /\ ~SendResult(h, FALSE)
      BY <2>1, <2>3, <3>1, <3>2
    <3>4. /\ valid /\ k # 0 /\ calls[k].pumping
          /\ calls' = [calls EXCEPT ![k].pumping = FALSE]
          /\ ~(depth > k)
      BY <2>1, <2>4, <3>3 DEF EndPump
    <3>5. k \in 1..depth /\ calls[k].event_id = h
      BY <1>1, <3>4, FindCallProps DEF IInv, TypeOK
    <3>6. k = depth /\ depth' = depth /\ k \in Slot
      BY <1>1, <2>4, <3>4, <3>5 DEF EndPump, IInv, TypeOK, Slot
    <3>7. calls'[k] = [event_id |-> h, pumping |-> FALSE]
      <4>1. calls'[k] = [calls[k] EXCEPT !.pumping = FALSE]
        BY <1>1, <3>4, <3>6 DEF IInv, TypeOK
      <4>2. calls[k] \in Frame
        BY <1>1, <3>6 DEF IInv, TypeOK
      <4>3. QED
        BY <3>5, <4>1, <4>2 DEF Frame
    <3>8. QED
      BY <3>3, <3>4, <3>6, <3>7
  <2>5. CASE EndPumpWake
    <3>1. ending \in Event /\ endIndex \in Slot /\ UNCHANGED <<calls, depth>>
      BY <1>1, <2>5 DEF EndPumpWake, stackVars, IInv, TypeOK, EndingFrame, Event
    <3>2. SendResult(ending, valid /\ depth = endIndex /\ calls[endIndex].event_id = ending)
      BY <2>1, <2>5 DEF EndPumpWake
    <3>3. ending = e /\ (valid /\ depth = endIndex /\ calls[endIndex].event_id = ending)
      BY <1>1, <2>3, <3>1, <3>2 DEF IInv, TypeOK
    <3>4. depth \in 1..depth /\ calls[depth] \in Frame /\ calls[depth].event_id = e
      BY <1>1, <3>1, <3>3 DEF IInv, TypeOK, Slot
    <3>5. calls[depth].pumping = FALSE
      BY <1>1, <2>5, <3>3, <3>4 DEF EndPumpWake, IInv, EndingFrame, Frame
    <3>6. calls[depth] = [event_id |-> e, pumping |-> FALSE]
      BY <3>4, <3>5 DEF Frame
    <3>7. QED
      BY <3>1, <3>4, <3>6
  <2>6. QED
    BY <2>2, <2>4, <2>5
<1>2. IInv /\ [Next]_vars => [\A e \in Event : Resumes(e) => OnTop(e)]_vars
  BY <1>1
<1>3. QED
  BY <1>2, InductiveInvariant, PTL DEF Spec, ResumeOnTop

-----------------------------------------------------------------------------
(* What the frames say about the callbacks' Sends.                         *)

\* Queued acknowledgements belong to Sends that wait for one, each to its own,
\* and the one whose pump is being ended has left the queue.
AckQueue ==
  /\ \A j \in 1..Len(acks) : send[acks[j]] = "acked"
  /\ \A i, j \in 1..Len(acks) : acks[i] = acks[j] => i = j
  /\ ending # 0 => /\ send[ending] = "acked"
                   /\ \A j \in 1..Len(acks) : acks[j] # ending

\* A pumping frame's callback has an outstanding Send.
PumpInSend ==
  valid => \A i \in 1..depth : calls[i].pumping => InSend(calls[i].event_id)

SendInv == AckQueue /\ PumpInSend

\* A step that leaves the Sends alone keeps SendInv if it makes no frame pump.
LEMMA NoNewPump ==
  ASSUME SendInv, UNCHANGED <<send, acks, ending>>, valid' => valid,
         \A i \in 1..depth' : calls'[i].pumping =>
            \E j \in 1..depth : calls[j] = calls'[i]
  PROVE  SendInv'
PROOF
<1>1. AckQueue'
  BY DEF SendInv, AckQueue
<1>2. PumpInSend'
  BY DEF SendInv, PumpInSend, InSend
<1>3. QED
  BY <1>1, <1>2 DEF SendInv

\* Steps of turns that send nothing keep SendInv.
LEMMA TurnsKeepSendInv ==
  ASSUME IInv, SendInv,
         \/ \E l \in Lanes, rec \in BOOLEAN : RequestTurn(l, rec)
         \/ \E k \in 1..Len(waiters) : RetryTurn(k) \/ LeaveQueue(k)
         \/ \E e \in Event : CompleteTurn(e)
  PROVE  SendInv'
PROOF
<1> USE SizeAssumption
<1>1. UNCHANGED <<send, acks, ending, valid>>
  BY DEF RequestTurn, RetryTurn, LeaveQueue, CompleteTurn, mainVars, validVars
<1>2. depth \in Nat /\ \A i \in 1..depth : i \in Slot
  BY DEF IInv, TypeOK, Slot
<1>3. CASE UNCHANGED <<calls, depth>>
  BY <1>1, <1>3, NoNewPump
<1>4. ASSUME NEW e \in Event, PushFrame(e), depth < MaxDepth
      PROVE  SendInv'
  <2>1. /\ depth' = depth + 1
        /\ calls'[depth'] = [event_id |-> e, pumping |-> FALSE]
        /\ \A i \in 1..depth : calls'[i] = calls[i]
    BY <1>4, PushFrameProps DEF IInv
  <2>2. ASSUME NEW i \in 1..depth', calls'[i].pumping
        PROVE  \E j \in 1..depth : calls[j] = calls'[i]
    <3>1. i # depth'
      BY <2>1, <2>2
    <3>2. i \in 1..depth
      BY <1>2, <2>1, <3>1
    <3>3. QED
      BY <2>1, <3>2
  <2>3. QED
    BY <1>1, <2>2, NoNewPump
<1>5. ASSUME NEW e \in Event, FindCall(e) # 0,
             calls' = FrameRemoved(FindCall(e)), depth' = depth - 1
      PROVE  SendInv'
  <2> DEFINE k == FindCall(e)
  <2>1. k \in 1..depth
    BY <1>5, FindCallProps DEF IInv
  <2> HIDE DEF k
  <2>2. ASSUME NEW i \in 1..depth'
        PROVE  \E j \in 1..depth : calls[j] = calls'[i]
    <3>1. i \in Slot /\ i < depth /\ i + 1 \in 1..depth /\ i \in 1..depth
      BY <1>2, <1>5
    <3>2. calls'[i] = IF i < k THEN calls[i] ELSE calls[i + 1]
      BY <1>5, <3>1 DEF FrameRemoved, k
    <3>3. QED
      BY <3>1, <3>2
  <2>3. QED
    BY <1>1, <2>2, NoNewPump
<1>6. ASSUME NEW l \in Lanes, NEW rec \in BOOLEAN, RequestTurn(l, rec)
      PROVE  SendInv'
  <2>1. nextEvent \in Event
    BY <1>6 DEF RequestTurn, IInv, TypeOK, Event
  <2>2. \/ PushFrame(nextEvent) /\ depth < MaxDepth
        \/ UNCHANGED <<calls, depth>>
    BY <1>6 DEF RequestTurn, CanEnter, stackVars
  <2>3. QED
    BY <1>3, <1>4, <2>1, <2>2
<1>7. ASSUME NEW k \in 1..Len(waiters), RetryTurn(k) \/ LeaveQueue(k)
      PROVE  SendInv'
  <2>1. waiters[k] \in Event
    BY ElementOfSeq DEF IInv, TypeOK
  <2>2. \/ PushFrame(waiters[k]) /\ depth < MaxDepth
        \/ UNCHANGED <<calls, depth>>
    BY <1>7 DEF RetryTurn, LeaveQueue, CanEnter, stackVars
  <2>3. QED
    BY <1>3, <1>4, <2>1, <2>2
<1>8. ASSUME NEW e \in Event, CompleteTurn(e)
      PROVE  SendInv'
  <2>1. \/ /\ FindCall(e) # 0 /\ calls' = FrameRemoved(FindCall(e))
           /\ depth' = depth - 1
        \/ UNCHANGED <<calls, depth>>
    BY <1>8 DEF CompleteTurn, stackVars
  <2>2. QED
    BY <1>3, <1>5, <2>1
<1>9. QED
  BY <1>6, <1>7, <1>8

\* Acknowledging a Send: its command is new in the queue.
LEMMA ReleaseOneKeepsAcks ==
  ASSUME IInv, AckQueue, NEW e \in Event, NEW t, send[e] # "acked",
         ReleaseOne(t, e), ending' = ending
  PROVE  AckQueue'
PROOF
<1> USE SizeAssumption
<1>1. /\ send \in [Event -> SendState] /\ acks \in Seq(Event)
      /\ Len(acks) \in Nat /\ \A j \in 1..Len(acks) : acks[j] \in Event
      /\ ending # 0 => ending \in Event
  BY ElementOfSeq, LenProperties DEF IInv, TypeOK, Event
<1>2. \A j \in 1..Len(acks) : acks[j] # e
  BY DEF AckQueue
<1>3. ending # e
  BY DEF AckQueue, Event
<1>4. CASE acks' = Append(acks, e) /\ send' = [send EXCEPT ![e] = "acked"]
  <2>1. /\ Len(acks') = Len(acks) + 1 /\ acks'[Len(acks) + 1] = e
        /\ \A j \in 1..Len(acks) : acks'[j] = acks[j]
    BY <1>1, <1>4, AppendProperties
  <2>2. \A f \in Event : send'[f] = IF f = e THEN "acked" ELSE send[f]
    BY <1>1, <1>4
  <2>3. ASSUME NEW j \in 1..Len(acks')
        PROVE  /\ send'[acks'[j]] = "acked"
               /\ ending' # 0 => acks'[j] # ending'
    <3>1. CASE j \in 1..Len(acks)
      BY <1>1, <2>1, <2>2, <3>1 DEF AckQueue
    <3>2. CASE j = Len(acks) + 1
      BY <1>3, <2>1, <2>2, <3>2
    <3>3. QED
      BY <1>1, <2>1, <3>1, <3>2
  <2>4. ASSUME NEW i \in 1..Len(acks'), NEW j \in 1..Len(acks'), acks'[i] = acks'[j]
        PROVE  i = j
    <3>1. CASE i \in 1..Len(acks) /\ j \in 1..Len(acks)
      BY <2>1, <2>4, <3>1 DEF AckQueue
    <3>2. CASE i \notin 1..Len(acks) /\ j \in 1..Len(acks)
      BY <1>1, <1>2, <2>1, <2>4, <3>2
    <3>3. CASE i \in 1..Len(acks) /\ j \notin 1..Len(acks)
      BY <1>1, <1>2, <2>1, <2>4, <3>3
    <3>4. QED
      BY <1>1, <2>1, <3>1, <3>2, <3>3
  <2>5. ending' # 0 => send'[ending'] = "acked"
    BY <1>1, <2>2 DEF AckQueue
  <2>6. QED
    BY <2>3, <2>4, <2>5 DEF AckQueue
<1>5. CASE send' = [send EXCEPT ![e] = "unsent"] /\ UNCHANGED acks
  BY <1>1, <1>2, <1>3, <1>5 DEF AckQueue
<1>6. QED
  BY <1>4, <1>5 DEF ReleaseOne

\* begin_pump, and the lane running and finishing a transaction.
LEMMA TransactionsKeepSendInv ==
  ASSUME IInv, SendInv, NEW e \in Event,
         \/ BeginPump(e) \/ BeginPumpRefused(e)
         \/ RunTransaction(e) \/ FinishTransaction(e)
  PROVE  SendInv'
PROOF
<1> USE SizeAssumption
<1>1. /\ send \in [Event -> SendState] /\ acks \in Seq(Event)
      /\ \A j \in 1..Len(acks) : acks[j] \in Event
      /\ depth \in Nat /\ depth' = depth /\ ending' = ending
      /\ ending # 0 => ending \in Event
  <2>1. depth' = depth /\ ending' = ending
    BY DEF BeginPump, BeginPumpRefused, StartPump, RunTransaction,
           FinishTransaction, stackVars, mainVars
  <2>2. QED
    BY <2>1, ElementOfSeq DEF IInv, TypeOK, Event
<1>2. \A i \in 1..depth : i \in Slot /\ calls[i].event_id \in Event
  BY DEF IInv, TypeOK, Slot, FramesEntered
<1>3. send[e] # "acked"
  BY DEF BeginPump, BeginPumpRefused, StartPump, RunTransaction, FinishTransaction
<1> DEFINE Sending == {"queued", "running", "acked"}
           Starts == BeginPump(e) \/ RunTransaction(e)
<1>4. Starts \/ \E t \in Lanes \cup {Main, Nobody} : ReleaseOne(t, e)
  BY DEF BeginPumpRefused, FinishTransaction, IInv, TypeOK
<1>5. Starts => /\ acks' = acks /\ valid' = valid
                /\ \E v \in {"queued", "running"} : send' = [send EXCEPT ![e] = v]
  BY DEF BeginPump, RunTransaction, mainVars, validVars
<1> HIDE DEF Starts
<1>6. AckQueue'
  <2>1. CASE Starts
    <3>1. \A f \in Event : send[f] = "acked" => send'[f] = "acked"
      BY <1>1, <1>3, <1>5, <2>1
    <3>2. QED
      BY <1>1, <1>5, <2>1, <3>1 DEF SendInv, AckQueue
  <2>2. QED
    BY <1>1, <1>3, <1>4, <2>1, ReleaseOneKeepsAcks DEF SendInv
\* On a stream that stays valid the Sends in progress stay in progress.
<1>7. ASSUME valid'
      PROVE  /\ valid
             /\ \A f \in Event : InSend(f) \/ f = e => send'[f] \in Sending
  <2>1. CASE Starts
    BY <1>1, <1>5, <1>7, <2>1 DEF InSend
  <2>2. ASSUME NEW t, ReleaseOne(t, e)
        PROVE  /\ valid
               /\ \A f \in Event : InSend(f) \/ f = e => send'[f] \in Sending
    BY <1>1, <1>7, <2>2 DEF InSend, ReleaseOne, InvalidateBy, validVars
  <2>3. QED
    BY <1>4, <2>1, <2>2
<1>8. \A i \in 1..depth : /\ calls'[i].event_id = calls[i].event_id
                          /\ calls'[i].pumping => calls[i].pumping \/ calls[i].event_id = e
  <2>1. CASE RunTransaction(e) \/ FinishTransaction(e)
    BY <2>1 DEF RunTransaction, FinishTransaction, stackVars
  <2>2. CASE StartPump(e)
    <3>1. /\ calls' = [calls EXCEPT ![depth].pumping = TRUE]
          /\ calls[depth].event_id = e /\ depth \in Slot
      BY <1>1, <1>2, <2>2 DEF StartPump
    <3>2. ASSUME NEW i \in 1..depth
          PROVE  /\ calls'[i].event_id = calls[i].event_id
                 /\ i # depth => calls'[i] = calls[i]
      BY <1>2, <3>1 DEF IInv, TypeOK, Frame
    <3>3. QED
      BY <3>1, <3>2
  <2>3. QED
    BY <2>1, <2>2 DEF BeginPump, BeginPumpRefused
<1>9. PumpInSend'
  <2> SUFFICES ASSUME valid', NEW i \in 1..depth, calls'[i].pumping
               PROVE  send'[calls'[i].event_id] \in Sending
    BY <1>1 DEF PumpInSend, InSend
  <2>1. InSend(calls[i].event_id) \/ calls[i].event_id = e
    BY <1>7, <1>8 DEF SendInv, PumpInSend
  <2>2. QED
    BY <1>2, <1>7, <1>8, <2>1
<1>10. QED
  BY <1>6, <1>9 DEF SendInv

\* The main thread ending a pump.
LEMMA EndPumpKeepsSendInv ==
  ASSUME IInv, SendInv, EndPump
  PROVE  SendInv'
PROOF
<1> USE SizeAssumption
<1> DEFINE e == Head(acks)
           k == FindCall(e)
<1>1. /\ send \in [Event -> SendState] /\ acks \in Seq(Event) /\ acks # <<>>
      /\ ending = 0 /\ acks' = Tail(acks) /\ depth' = depth /\ depth \in Nat
  BY DEF IInv, TypeOK, EndPump, MainIdle
<1>2. /\ e \in Event /\ Len(acks) \in Nat /\ Len(acks) >= 1 /\ e = acks[1]
      /\ Len(acks') = Len(acks) - 1
      /\ \A j \in 1..(Len(acks) - 1) : acks'[j] = acks[j + 1]
  BY <1>1, HeadTailProperties, LenProperties, EmptySeq
<1>3. /\ send[e] = "acked"
      /\ \A j \in 1..Len(acks') : /\ send[acks'[j]] = "acked" /\ acks'[j] # e
                                  /\ acks'[j] \in Event
      /\ \A i, j \in 1..Len(acks') : acks'[i] = acks'[j] => i = j
  <2>1. \A j \in 1..Len(acks') : j \in Nat /\ j + 1 \in 1..Len(acks) /\ j + 1 # 1
                                 /\ acks'[j] = acks[j + 1]
    BY <1>2
  <2>2. \A j \in 1..Len(acks) : acks[j] \in Event
    BY <1>1, ElementOfSeq
  <2>3. 1 \in 1..Len(acks)
    BY <1>2
  <2>4. ASSUME NEW j \in 1..Len(acks')
        PROVE  send[acks'[j]] = "acked" /\ acks'[j] # e /\ acks'[j] \in Event
    BY <1>2, <2>1, <2>2, <2>3 DEF SendInv, AckQueue
  <2>5. ASSUME NEW i \in 1..Len(acks'), NEW j \in 1..Len(acks'), acks'[i] = acks'[j]
        PROVE  i = j
    <3>1. i + 1 = j + 1
      BY <2>1, <2>5 DEF SendInv, AckQueue
    <3>2. QED
      BY <2>1, <3>1
  <2>6. send[e] = "acked"
    BY <1>2, <2>3 DEF SendInv, AckQueue
  <2>7. QED
    BY <2>4, <2>5, <2>6
<1>4. k \in 0..depth /\ (k # 0 => calls[k].event_id = e)
  BY FindCallProps DEF IInv
<1> HIDE DEF e, k
\* The reply changes the Send of e only.
<1>5. ASSUME NEW ended \in BOOLEAN, SendResult(e, ended)
      PROVE  /\ \A f \in Event : f # e => send'[f] = send[f]
             /\ valid' => valid /\ send' = [send EXCEPT ![e] = "none"]
  BY <1>1, <1>5 DEF SendResult, InvalidateBy, validVars
<1>6. AckQueue'
  <2>1. CASE UNCHANGED send
    <3>1. ending' = 0 \/ ending' = e
      BY <1>1 DEF EndPump, e
    <3>2. QED
      BY <1>2, <1>3, <2>1, <3>1 DEF AckQueue, Event
  <2>2. CASE ending' = 0 /\ \A f \in Event : f # e => send'[f] = send[f]
    BY <1>3, <2>2 DEF AckQueue
  <2>3. \/ UNCHANGED send
        \/ ending' = 0 /\ \E ended \in BOOLEAN : SendResult(e, ended)
    BY <1>1 DEF EndPump, e
  <2>4. QED
    BY <1>5, <2>1, <2>2, <2>3
<1>7. PumpInSend'
  <2>1. CASE valid /\ k # 0 /\ calls[k].pumping
    <3>1. calls' = [calls EXCEPT ![k].pumping = FALSE]
      BY <2>1 DEF EndPump, e, k
    <3>2. k \in 1..depth /\ \A i \in 1..depth : i \in Slot /\ calls[i].event_id \in Event
      BY <1>1, <1>4, <2>1 DEF IInv, TypeOK, Slot, FramesEntered
    <3>3. \A i \in 1..depth : calls'[i].pumping =>
             /\ i # k /\ calls'[i] = calls[i]
      BY <3>1, <3>2 DEF IInv, TypeOK, Frame
    <3>4. \A i \in 1..depth : i # k => calls[i].event_id # e
      BY <1>4, <2>1, <3>2 DEF IInv, FramesEntered
    <3>5. valid' => \A f \in Event : f # e => send'[f] = send[f]
      <4>1. UNCHANGED send \/ SendResult(e, TRUE)
        BY <2>1 DEF EndPump, e, k
      <4>2. QED
        BY <1>5, <4>1
    <3>6. QED
      BY <1>1, <2>1, <3>2, <3>3, <3>4, <3>5 DEF SendInv, PumpInSend, InSend
  <2>2. CASE ~(valid /\ k # 0 /\ calls[k].pumping)
    <3>1. SendResult(e, FALSE)
      BY <2>2 DEF EndPump, e, k
    <3>2. QED
      BY <3>1 DEF SendResult, InvalidateBy, PumpInSend
  <2>3. QED
    BY <2>1, <2>2
<1>8. QED
  BY <1>6, <1>7 DEF SendInv

\* The main thread resumes in end_pump: SendInv is kept.
LEMMA EndPumpWakeKeepsSendInv ==
  ASSUME IInv, SendInv, EndPumpWake
  PROVE  SendInv'
PROOF
<1> USE SizeAssumption
<1>1. /\ send \in [Event -> SendState] /\ acks' = acks /\ ending # 0
      /\ ending \in Event /\ UNCHANGED <<calls, depth>>
      /\ depth \in Nat /\ acks \in Seq(Event)
  BY DEF EndPumpWake, IInv, TypeOK, Event, stackVars
<1>2. \A j \in 1..Len(acks) : acks[j] \in Event /\ acks[j] # ending
  BY <1>1, ElementOfSeq DEF SendInv, AckQueue
<1>3. CASE UNCHANGED <<send, ending, valid>>
  BY <1>1, <1>3, NoNewPump
<1>4. ASSUME NEW ended \in BOOLEAN, SendResult(ending, ended), ending' = 0,
             ended = (valid /\ depth = endIndex /\ calls[endIndex].event_id = ending)
      PROVE  SendInv'
  <2>1. \A f \in Event : f # ending => send'[f] = send[f]
    BY <1>1, <1>4 DEF SendResult
  <2>2. AckQueue'
    BY <1>1, <1>2, <1>4, <2>1 DEF SendInv, AckQueue
  <2>3. PumpInSend'
    <3>1. CASE valid'
      <4>1. valid
        BY <1>4, <3>1 DEF SendResult, InvalidateBy, validVars
      <4>2. \A i \in 1..depth : calls[i].pumping => calls[i].event_id # ending
        BY <1>1 DEF IInv, EndingFrame
      <4>3. \A i \in 1..depth : calls[i].event_id \in Event
        BY DEF IInv, FramesEntered
      <4>4. QED
        BY <1>1, <2>1, <4>1, <4>2, <4>3 DEF SendInv, PumpInSend, InSend
    <3>2. CASE ~valid'
      BY <3>2 DEF PumpInSend
    <3>3. QED
      BY <3>1, <3>2
  <2>4. QED
    BY <2>2, <2>3 DEF SendInv
<1>5. QED
  <2>1. CASE valid /\ depth > endIndex /\ calls[endIndex].event_id = ending
    BY <1>3, <2>1 DEF EndPumpWake, validVars
  <2>2. CASE ~(valid /\ depth > endIndex /\ calls[endIndex].event_id = ending)
    <3> DEFINE ended == valid /\ depth = endIndex /\ calls[endIndex].event_id = ending
    <3>1. SendResult(ending, ended) /\ ending' = 0
      BY <2>2 DEF EndPumpWake
    <3>2. ended \in BOOLEAN
      OBVIOUS
    <3>3. QED
      BY <1>4, <3>1, <3>2
  <2>3. QED
    BY <2>1, <2>2

\* At most one callback of a script runs at a time, for any number of lanes
\* and events and any stack capacity.
THEOREM SerialisedCallbacks == Spec => []Serialised
PROOF
<1>1. Init => SendInv
  BY EmptySeq, LenProperties DEF Init, SendInv, AckQueue, PumpInSend
<1>2. IInv /\ SendInv /\ [Next]_vars => SendInv'
  <2> SUFFICES ASSUME IInv, SendInv, [Next]_vars PROVE SendInv'
    OBVIOUS
  <2>1. CASE \/ \E l \in Lanes, rec \in BOOLEAN : RequestTurn(l, rec)
             \/ \E k \in 1..Len(waiters) : RetryTurn(k) \/ LeaveQueue(k)
             \/ \E e \in Event : CompleteTurn(e)
    BY <2>1, TurnsKeepSendInv
  <2>2. ASSUME NEW e \in Event,
               \/ BeginPump(e) \/ BeginPumpRefused(e)
               \/ RunTransaction(e) \/ FinishTransaction(e)
        PROVE  SendInv'
    BY <2>2, TransactionsKeepSendInv
  <2>3. CASE EndPump \/ EndPumpWake
    BY <2>3, EndPumpKeepsSendInv, EndPumpWakeKeepsSendInv
  <2>4. CASE Invalidate \/ InvalidateBroadcast \/ Finished \/ UNCHANGED vars
    <3>1. UNCHANGED <<send, acks, ending, calls, depth>> /\ (valid' => valid)
      BY <2>4 DEF Invalidate, InvalidateBroadcast, Finished, vars, mainVars,
                  stackVars, validVars, InvalidateBy
    <3>2. QED
      BY <3>1, NoNewPump
  <2>5. QED
    BY <2>1, <2>2, <2>3, <2>4 DEF Next, LaneStep, MainStep
<1>3. IInv /\ SendInv => Serialised
  <2> SUFFICES ASSUME IInv, SendInv, valid, NEW i \in 1..depth, i < depth
               PROVE  InSend(calls[i].event_id)
    BY DEF Serialised
  <2>1. CASE calls[i].pumping
    BY <2>1 DEF SendInv, PumpInSend
  <2>2. CASE calls[i].event_id = ending
    <3>1. ending # 0
      BY <2>2, SizeAssumption DEF IInv, FramesEntered, Event
    <3>2. QED
      BY <2>2, <3>1 DEF SendInv, AckQueue, InSend
  <2>3. QED
    BY <2>1, <2>2 DEF IInv, BelowTopPumps
<1>4. QED
  BY <1>1, <1>2, <1>3, InductiveInvariant, PTL DEF Spec

=============================================================================
