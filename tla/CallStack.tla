------------------------------ MODULE CallStack ------------------------------
(***************************************************************************)
(* The turn protocol of one callback stream (connection_ref.c): the call   *)
(* stack on which the keyboard lane, the mouse lane and the daemon's main  *)
(* thread serialise the callbacks of one client script, and the "pump"     *)
(* that lets a callback be re-entered while it is blocked in a synchronous *)
(* Send.                                                                   *)
(*                                                                         *)
(* Three kinds of thread share the stream.  A lane thread waits for a turn *)
(* (hook_send_ref_wait_event_turn), is the owner of the frame it entered,  *)
(* and completes it; while it waits for the decision it drains the nested  *)
(* transactions of that callback.  The main thread starts a nested Send    *)
(* (begin_pump) and, when its acknowledgement command arrives, ends it     *)
(* (end_pump), which may sleep on the stream's condition variable.         *)
(*                                                                         *)
(* The condition variable is modelled, not assumed: a thread that sleeps   *)
(* takes no step until a broadcast removes it from "asleep".               *)
(***************************************************************************)
EXTENDS Integers, Sequences

CONSTANTS
  Lanes,      \* the lane threads (keyboard, mouse)
  MaxEvents,  \* bound on the number of turns requested in one behaviour
  MaxDepth    \* KSI_MAX_HOOK_CALL_DEPTH

ASSUME SizeAssumption ==
  /\ MaxEvents \in Nat
  /\ MaxDepth \in Nat \ {0}

Main == "main"                 \* the daemon's main thread
Nobody == "nobody"

ASSUME ThreadAssumption == Main \notin Lanes /\ Nobody \notin Lanes

VARIABLES
  valid,         \* ref->valid
  broadcastDue,  \* thread that cleared valid and has not yet broadcast
  calls,         \* ref->calls, the fixed array of frames
  depth,         \* ref->call_depth
  waiters,       \* ref->waiters, the FIFO of turns waiting to enter
  asleep,        \* waiting turns blocked in pthread_cond_timedwait
  nextEvent,     \* the next event id the daemon hands out
  lane,          \* lane[e]: the lane thread that processes event e
  recursive,     \* recursive[e]: event e has nesting depth > 0
  state,         \* state[e]: progress of event e's turn on this stream
  send,          \* send[e]: progress of the nested Send issued by callback e
  acks,          \* SYNTH_ACK commands of this stream queued to the main thread
  ending,        \* event whose end_pump the main thread is executing, or 0
  endIndex,      \* end_pump's local variable index
  mainAsleep     \* main is blocked in end_pump's pthread_cond_wait

turnVars == <<nextEvent, lane, recursive, state>>
stackVars == <<calls, depth>>
queueVars == <<waiters, asleep>>
mainVars == <<acks, ending, endIndex, mainAsleep>>
validVars == <<valid, broadcastDue>>
vars == <<turnVars, stackVars, queueVars, mainVars, validVars, send>>

Event == 1..MaxEvents
Slot == 1..MaxDepth

Frame == [event_id : 0..MaxEvents, pumping : BOOLEAN]
NoFrame == [event_id |-> 0, pumping |-> FALSE]

\* Progress of a turn: not requested, in wait_event_turn, on the stack, over.
TurnState == {"none", "waiting", "entered", "done"}

\* Progress of a callback's Send: none outstanding, queued to its lane, its
\* nested events running on the lane, acknowledged to the main thread.  No reply
\* follows an "unsent" one (full command ring, failed write) or a "lost" one
\* (end_pump returned false).
SendState == {"none", "queued", "running", "acked", "unsent", "lost"}

\* The callback of event e has an outstanding Send.
InSend(e) == send[e] \in {"queued", "running", "acked"}

TypeOK ==
  /\ valid \in BOOLEAN
  /\ broadcastDue \in Lanes \cup {Main, Nobody}
  /\ calls \in [Slot -> Frame]
  /\ depth \in 0..MaxDepth
  /\ waiters \in Seq(Event)
  /\ asleep \subseteq Event
  /\ nextEvent \in 1..(MaxEvents + 1)
  /\ lane \in [Event -> Lanes \cup {Nobody}]
  /\ recursive \in [Event -> BOOLEAN]
  /\ state \in [Event -> TurnState]
  /\ send \in [Event -> SendState]
  /\ acks \in Seq(Event)
  /\ ending \in 0..MaxEvents
  /\ endIndex \in 0..MaxDepth
  /\ mainAsleep \in BOOLEAN

Init ==
  /\ valid = TRUE
  /\ broadcastDue = Nobody
  /\ calls = [i \in Slot |-> NoFrame]
  /\ depth = 0
  /\ waiters = <<>>
  /\ asleep = {}
  /\ nextEvent = 1
  /\ lane = [e \in Event |-> Nobody]
  /\ recursive = [e \in Event |-> FALSE]
  /\ state = [e \in Event |-> "none"]
  /\ send = [e \in Event |-> "none"]
  /\ acks = <<>>
  /\ ending = 0
  /\ endIndex = 0
  /\ mainAsleep = FALSE

-----------------------------------------------------------------------------
(* The waiter list and the stack.                                          *)

\* Mutant of Broadcast: a signal that reaches the waiting turns only.
BroadcastTurns ==
  /\ asleep' = {}
  /\ UNCHANGED mainAsleep

\* pthread_cond_broadcast: every sleeper will re-evaluate its condition.
Broadcast ==
  /\ asleep' = {}
  /\ mainAsleep' = FALSE

\* best_waiter: the first recursive waiter of queue ws, else its head.
IsBestWaiter(ws, rec, i) ==
  IF \E j \in 1..Len(ws) : rec[ws[j]]
    THEN rec[ws[i]] /\ \A j \in 1..(i - 1) : ~rec[ws[j]]
    ELSE i = 1

\* waiter_can_enter.
CanEnter(ws, rec, i) ==
  /\ depth < MaxDepth
  /\ IsBestWaiter(ws, rec, i)
  /\ \/ depth = 0
     \/ rec[ws[i]] /\ calls[depth].pumping

\* Unlinking the waiter at position k (remove_waiter).
RemoveWaiter(ws, k) == SubSeq(ws, 1, k - 1) \o SubSeq(ws, k + 1, Len(ws))

\* Entering writes only the frame's id; "pumping" keeps the value the slot had.
PushFrame(e) ==
  /\ calls' = [calls EXCEPT ![depth + 1] = [event_id |-> e, pumping |-> @.pumping]]
  /\ depth' = depth + 1

\* find_call: the innermost frame of event e, or 0.
FindCall(e) ==
  IF \E i \in 1..depth : calls[i].event_id = e
    THEN CHOOSE i \in 1..depth :
           calls[i].event_id = e /\ \A j \in (i + 1)..depth : calls[j].event_id # e
    ELSE 0

\* Mutant of FrameRemoved: the freed slot keeps its old contents.
FrameRemovedUncleared(k) ==
  [i \in Slot |-> IF i >= k /\ i < depth THEN calls[i + 1] ELSE calls[i]]

\* The stack after complete_event removed frame k and cleared the last slot.
FrameRemoved(k) ==
  [i \in Slot |-> IF i < k THEN calls[i]
                  ELSE IF i < depth THEN calls[i + 1]
                  ELSE IF i = depth THEN NoFrame
                  ELSE calls[i]]

-----------------------------------------------------------------------------
(* Lane threads.                                                           *)

Active(e) == state[e] \in {"waiting", "entered"}

\* The turns lane l has open on this stream nest, and their ids increase.
Innermost(e) ==
  /\ Active(e)
  /\ \A f \in Event : Active(f) /\ lane[f] = lane[e] => f <= e

\* A thread between clearing valid and broadcasting does nothing else.
Runs(t) == broadcastDue # t

\* A lane outside every turn of this stream may request an ordinary turn, or a
\* recursive one for a Send of another client.  Inside a turn it requests
\* another only while it runs the nested transaction of that callback.
MayRequest(l, rec) ==
  \/ \A e \in Event : lane[e] = l => ~Active(e)
  \/ rec /\ \E e \in Event : /\ lane[e] = l
                             /\ Innermost(e)
                             /\ state[e] = "entered"
                             /\ send[e] = "running"

\* hook_send_ref_wait_event_turn up to its first wait: link the waiter and
\* enter at once if it may.
RequestTurn(l, rec) ==
  LET e == nextEvent
      ws == Append(waiters, e)
  IN /\ Runs(l)
     /\ valid
     /\ e <= MaxEvents
     /\ MayRequest(l, rec)
     /\ nextEvent' = e + 1
     /\ lane' = [lane EXCEPT ![e] = l]
     /\ recursive' = [recursive EXCEPT ![e] = rec]
     /\ IF CanEnter(ws, [recursive EXCEPT ![e] = rec], Len(ws))
          THEN /\ PushFrame(e)
               /\ state' = [state EXCEPT ![e] = "entered"]
               /\ UNCHANGED queueVars
          ELSE /\ waiters' = ws
               /\ asleep' = asleep \cup {e}
               /\ state' = [state EXCEPT ![e] = "waiting"]
               /\ UNCHANGED stackVars
     /\ UNCHANGED <<send, mainVars, validVars>>

\* A waiter woken by a broadcast tests its condition again.
RetryTurn(k) ==
  LET e == waiters[k]
  IN /\ Runs(lane[e])
     /\ e \notin asleep
     /\ valid
     /\ IF CanEnter(waiters, recursive, k)
          THEN /\ waiters' = RemoveWaiter(waiters, k)
               /\ PushFrame(e)
               /\ state' = [state EXCEPT ![e] = "entered"]
               /\ UNCHANGED asleep
          ELSE /\ asleep' = asleep \cup {e}
               /\ UNCHANGED <<waiters, state, stackVars>>
     /\ UNCHANGED <<nextEvent, lane, recursive, send, mainVars, validVars>>

\* Mutant of LeaveQueue: the leaving waiter does not broadcast.
LeaveQueueSilently(k) ==
  LET e == waiters[k]
  IN /\ Runs(lane[e])
     /\ waiters' = RemoveWaiter(waiters, k)
     /\ state' = [state EXCEPT ![e] = "done"]
     /\ asleep' = asleep \ {e}
     /\ UNCHANGED <<nextEvent, lane, recursive, stackVars, send, acks, ending,
                    endIndex, mainAsleep, validVars>>

\* The timed wait expired, or a woken waiter found the stream invalid: the
\* waiter leaves the queue without entering and broadcasts.  The caller skips
\* this subscriber.
LeaveQueue(k) ==
  LET e == waiters[k]
  IN /\ Runs(lane[e])
     /\ waiters' = RemoveWaiter(waiters, k)
     /\ state' = [state EXCEPT ![e] = "done"]
     /\ Broadcast
     /\ UNCHANGED <<nextEvent, lane, recursive, stackVars, send, acks, ending,
                    endIndex, validVars>>

\* The subscriber was called: decided, timed out or cancelled.  The lane calls
\* hook_send_ref_complete_event.  It is not inside the callback's transaction.
CompleteTurn(e) ==
  LET k == FindCall(e)
  IN /\ Runs(lane[e])
     /\ state[e] = "entered"
     /\ Innermost(e)
     /\ send[e] # "running"
     /\ state' = [state EXCEPT ![e] = "done"]
     /\ IF k # 0
          THEN calls' = FrameRemoved(k) /\ depth' = depth - 1
          ELSE UNCHANGED stackVars
     /\ Broadcast
     /\ UNCHANGED <<nextEvent, lane, recursive, waiters, send, acks, ending,
                    endIndex, validVars>>

\* lane_wait_for_matching_decision pops the transaction of the callback it is
\* waiting for: the parent is active, so its events run on this lane.
RunTransaction(e) ==
  /\ Runs(lane[e])
  /\ send[e] = "queued"
  /\ state[e] = "entered"
  /\ Innermost(e)
  /\ send' = [send EXCEPT ![e] = "running"]
  /\ UNCHANGED <<turnVars, stackVars, queueVars, mainVars, validVars>>

\* hook_send_ref_invalidate by thread t: its broadcast is a step of its own.
InvalidateBy(t) ==
  /\ valid' = FALSE
  /\ broadcastDue' = IF valid THEN t ELSE broadcastDue

\* synth_completion_release_one by thread t: the completion becomes a SYNTH_ACK
\* command, or, when the command ring is full, the stream is invalidated.
ReleaseOne(t, e) ==
  \/ /\ acks' = Append(acks, e)
     /\ send' = [send EXCEPT ![e] = "acked"]
     /\ UNCHANGED validVars
  \/ /\ InvalidateBy(t)
     /\ send' = [send EXCEPT ![e] = "unsent"]
     /\ UNCHANGED acks

\* The end of the transaction.  One whose parent is gone fails open first, when
\* the lane next drains its nested queue.
FinishTransaction(e) ==
  /\ Runs(lane[e])
  /\ \/ send[e] = "running" /\ Innermost(e)
     \/ /\ send[e] = "queued" /\ state[e] = "done"
        /\ \A f \in Event : lane[f] = lane[e] => state[f] # "waiting"
  /\ ReleaseOne(lane[e], e)
  /\ UNCHANGED <<turnVars, stackVars, queueVars, ending, endIndex, mainAsleep>>

-----------------------------------------------------------------------------
(* The main thread.                                                        *)

MainIdle == ending = 0 /\ Runs(Main)

\* hook_send_ref_begin_pump succeeds: the stack's top is the callback, whose
\* lane waits for its decision.
StartPump(e) ==
  /\ MainIdle
  /\ valid
  /\ send[e] = "none"
  /\ state[e] = "entered"
  /\ depth # 0
  /\ calls[depth].event_id = e
  /\ ~calls[depth].pumping
  /\ calls' = [calls EXCEPT ![depth].pumping = TRUE]
  /\ Broadcast
  /\ UNCHANGED <<turnVars, depth, waiters, ending, endIndex>>

\* handle_synthesize_input on the callback connection: the transaction is queued
\* to the callback's lane.
BeginPump(e) ==
  /\ StartPump(e)
  /\ send' = [send EXCEPT ![e] = "queued"]
  /\ UNCHANGED <<acks, validVars>>

\* The same, but an event cannot be created or the nested queue is full: the
\* completion fails at once, with the pump already open.
BeginPumpRefused(e) ==
  /\ StartPump(e)
  /\ ReleaseOne(Main, e)

\* synth_completion_send_result once end_pump returned: reply, which may fail
\* and then invalidates, or invalidate because the pump could not be ended.
SendResult(e, ended) ==
  \/ /\ ended
     /\ send' = [send EXCEPT ![e] = "none"]
     /\ UNCHANGED validVars
  \/ /\ send' = [send EXCEPT ![e] = IF ended THEN "unsent" ELSE "lost"]
     /\ InvalidateBy(Main)

\* Mutant of EndPump: the reply does not wait for entered descendants.
EndPumpAtOnce ==
  LET e == Head(acks)
      k == FindCall(e)
      ended == valid /\ k # 0 /\ calls[k].pumping
  IN /\ MainIdle
     /\ acks # <<>>
     /\ acks' = Tail(acks)
     /\ SendResult(e, ended)
     /\ calls' = IF ended THEN [calls EXCEPT ![k].pumping = FALSE] ELSE calls
     /\ asleep' = {}
     /\ UNCHANGED <<turnVars, depth, waiters, ending, endIndex, mainAsleep>>

\* Process a SYNTH_ACK command: the part of hook_send_ref_end_pump up to its
\* first wait.
EndPump ==
  LET e == Head(acks)
      k == FindCall(e)
  IN /\ MainIdle
     /\ acks # <<>>
     /\ acks' = Tail(acks)
     /\ IF valid /\ k # 0 /\ calls[k].pumping
          THEN /\ calls' = [calls EXCEPT ![k].pumping = FALSE]
               /\ asleep' = {}
               /\ IF depth > k
                    THEN /\ ending' = e
                         /\ endIndex' = k
                         /\ mainAsleep' = TRUE
                         /\ UNCHANGED <<send, validVars>>
                    ELSE /\ SendResult(e, TRUE)
                         /\ UNCHANGED <<ending, endIndex, mainAsleep>>
          ELSE /\ SendResult(e, FALSE)
               /\ asleep' = IF valid THEN {} ELSE asleep
               /\ UNCHANGED <<calls, ending, endIndex, mainAsleep>>
     /\ UNCHANGED <<turnVars, depth, waiters>>

\* end_pump's wait loop after a broadcast.
EndPumpWake ==
  LET frameHolds == calls[endIndex].event_id = ending
  IN /\ ending # 0
     /\ ~mainAsleep
     /\ IF valid /\ depth > endIndex /\ frameHolds
          THEN /\ mainAsleep' = TRUE
               /\ UNCHANGED <<send, asleep, ending, endIndex, validVars>>
          ELSE /\ SendResult(ending, valid /\ depth = endIndex /\ frameHolds)
               /\ asleep' = {}
               /\ ending' = 0
               /\ endIndex' = 0
               /\ UNCHANGED mainAsleep
     /\ UNCHANGED <<turnVars, stackVars, waiters, acks>>

\* The main thread drops the client or revokes its permission.
Invalidate ==
  /\ MainIdle
  /\ valid
  /\ InvalidateBy(Main)
  /\ UNCHANGED <<turnVars, stackVars, queueVars, mainVars, send>>

\* The second half of hook_send_ref_invalidate.
InvalidateBroadcast ==
  /\ broadcastDue # Nobody
  /\ broadcastDue' = Nobody
  /\ Broadcast
  /\ UNCHANGED <<turnVars, stackVars, waiters, send, acks, ending, endIndex, valid>>

-----------------------------------------------------------------------------
\* Every turn the bound allows has been taken: nothing is left to do.
Finished ==
  /\ nextEvent > MaxEvents \/ ~valid
  /\ \A e \in Event : ~Active(e) /\ send[e] \in {"none", "unsent", "lost"}
  /\ ending = 0
  /\ broadcastDue = Nobody
  /\ UNCHANGED vars

LaneStep ==
  \/ \E k \in 1..Len(waiters) : RetryTurn(k) \/ LeaveQueue(k)
  \/ \E e \in Event : CompleteTurn(e) \/ RunTransaction(e) \/ FinishTransaction(e)

MainStep == EndPump \/ EndPumpWake

Next ==
  \/ \E l \in Lanes, rec \in BOOLEAN : RequestTurn(l, rec)
  \/ LaneStep
  \/ \E e \in Event : BeginPump(e) \/ BeginPumpRefused(e)
  \/ MainStep
  \/ Invalidate
  \/ InvalidateBroadcast
  \/ Finished

Spec == Init /\ [][Next]_vars

\* Threads are scheduled: a lane takes its timeouts and finishes what it
\* started, the main thread processes its commands, a broadcast that is due
\* happens.  Clients owe nothing: no fairness on requests or Sends.
Fairness ==
  /\ \A l \in Lanes : WF_vars(\E e \in Event : lane[e] = l /\
        (CompleteTurn(e) \/ RunTransaction(e) \/ FinishTransaction(e)))
  /\ \A l \in Lanes : WF_vars(\E k \in 1..Len(waiters) : lane[waiters[k]] = l /\
        (RetryTurn(k) \/ LeaveQueue(k)))
  /\ WF_vars(MainStep)
  /\ WF_vars(InvalidateBroadcast)

FairSpec == Spec /\ Fairness

-----------------------------------------------------------------------------
(* Properties.                                                             *)

\* At most one callback of the script runs at a time: the callback of every
\* frame below the top is blocked in a Send it has not been answered yet
\* (waiter_can_enter admits a turn above a frame only while it pumps, and
\* end_pump answers only when the frame is on top again).
Serialised ==
  valid => \A i \in 1..depth : i < depth => InSend(calls[i].event_id)

\* "Ordinary callbacks enter only at depth zero" (ksi_hook_send_ref): above the
\* bottom frame there are recursive turns only, also after complete_event has
\* moved frames down.
OrdinaryAtBottom ==
  \A i \in 2..depth : recursive[calls[i].event_id]

\* No lost wakeup: whenever a turn sleeps in wait_event_turn it could not enter
\* now, the main thread sleeps in end_pump only while descendants remain, and
\* nobody sleeps on an invalid stream unless its broadcast is still to come.
NoLostWakeup ==
  /\ valid =>
       /\ \A k \in 1..Len(waiters) :
            waiters[k] \in asleep => ~CanEnter(waiters, recursive, k)
       /\ mainAsleep => depth > endIndex /\ calls[endIndex].event_id = ending
  /\ ~valid /\ broadcastDue = Nobody => asleep = {} /\ ~mainAsleep

\* The frames of one lane lie on the stack in the order in which that lane's
\* callbacks nest, however complete_event shifts them.
LaneFramesNest ==
  \A i, j \in 1..depth :
    i < j /\ lane[calls[i].event_id] = lane[calls[j].event_id]
      => calls[i].event_id < calls[j].event_id

\* A Send's reply is published only when its callback is again the innermost
\* frame and resumable, so that it may issue its next Send at once
\* (synth_completion_send_result).
ResumeOnTop ==
  [][\A e \in Event : send[e] = "acked" /\ send'[e] = "none"
       => /\ depth' # 0
          /\ calls'[depth'] = [event_id |-> e, pumping |-> FALSE]]_vars

\* The lanes' callback deadlines keep end_pump bounded: the main thread never
\* sleeps in it for ever.
EndPumpReturns == (ending # 0) ~> (ending = 0)

=============================================================================
