------------------------------- MODULE Ingest -------------------------------
(***************************************************************************)
(* From evdev events to packets (linux_devices.c, handle_input_event and   *)
(* below): what the reader makes of one source's events.                   *)
(*                                                                         *)
(* A report is a run of events that ends with SYN_REPORT.  Each event      *)
(* becomes a fragment for one of two lanes: the keyboard lane writes to    *)
(* the sink, the mouse lane to the source's clone.  Pointer motion is held *)
(* back and sent as one fragment, a scan code is held back to ride with    *)
(* its key, and the SYN_REPORT itself goes to the lanes that have a part   *)
(* of the report, or rides in a fragment that is all of it.  What the      *)
(* reader looks ahead at, the end of its budget in the middle of a report, *)
(* BlockInput, and an evdev buffer that overflows all meet in these steps. *)
(*                                                                         *)
(* One source is modelled, as the reader keeps nothing of one source in    *)
(* another.  When its grab changes is in Devices; what happens to a        *)
(* fragment after this is in Forward and HookLane.  LEDs, switches, the    *)
(* idle clock, the panic chord, timestamps and SYN_MT_REPORT, which goes   *)
(* to the lanes of its report and does not end it, are left out.           *)
(***************************************************************************)
EXTENDS Integers, Sequences, FiniteSets, SequencesExt

CONSTANTS
  Kinds,       \* what the source may be: sets of Traits
  KeyboardKeys, Buttons, \* is_keyboard_key_code, is_mouse_button_code
  OtherKeys,   \* pointer codes that are neither, such as a pen's barrel button
  Contacts,    \* is_contact_code: those a resting pen or thumb keeps down
  Reports,     \* the reports it sends, as sequences of <<type, code, value>>
  MaxReports,  \* bound on reports in one behaviour
  MaxQueue,    \* bound on events evdev and libevdev hold
  MaxDrops,    \* bound on overflows in one behaviour
  MaxChanges   \* bound on grab and BlockInput changes in one

\* keyboard_candidate, mouse_candidate, mouse_hook_candidate,
\* mouse_block_candidate and high_resolution_wheel.
Traits == {"keyboard", "mouse", "hook", "block", "hires"}

Keys == KeyboardKeys \cup Buttons \cup OtherKeys
Classes == {"keyboard", "mouse"}
Syn == <<"syn", "report", 0>>
Dropped == <<"syn", "dropped", 0>>

\* Key codes are the source's own; of the other codes the reader tells a few apart.
Events ==
  ({"key"} \X Keys \X {0, 1})
  \cup ({"syn", "scan", "rel", "abs"} \X
          {"report", "dropped", "of", "x", "y", "wheel", "wheel_hi", "other"} \X Int)

ASSUME KeyAssumption == IsFiniteSet(Keys) /\ Contacts \subseteq OtherKeys

ASSUME KindAssumption ==
  /\ Kinds \subseteq SUBSET Traits
  /\ \A t \in Kinds : "hook" \in t => {"mouse", "block"} \subseteq t

ASSUME ReportAssumption == \A r \in Reports : r \in Seq(Events) /\ r # <<>> /\ Last(r) = Syn

ASSUME BoundAssumption == {MaxReports, MaxQueue, MaxDrops, MaxChanges} \subseteq Nat

VARIABLES
  kind,    \* what the source is
  dev,     \* what the reader and libevdev keep of it, and the history, see Idle
  down,    \* the keys the source has down now
  reading, \* read_device_events is in its loop
  grabbing, \* set_device_grab found the source free and is about to grab it
  blocks,  \* block_input_mask
  used     \* how much of each bound is used

vars == <<kind, dev, down, reading, grabbing, blocks, used>>

-----------------------------------------------------------------------------
(* The source as the reader keeps it *)

\* unread, burst and known are libevdev's: its queue with evdev's behind it, what
\* is left of a synchronization, and the key state it has reported.  open and
\* held are what was handed on: lanes with a part of a report that has no end
\* yet, and raw keys pressed on the outputs.  at, sent and since order a
\* report's events: the one being handled, the newest handed on, and the oldest
\* motion held back.
Idle ==
  [grabbed |-> FALSE, unread |-> <<>>, burst |-> <<>>, known |-> {}, buffered |-> <<>>,
   synchronizing |-> FALSE, x |-> 0, y |-> 0, rel |-> FALSE, abs |-> FALSE,
   scan |-> FALSE, lanes |-> {}, owed |-> {},
   open |-> {}, held |-> {}, at |-> 0, sent |-> 0, since |-> 0]

\* discard_pending_report
Discarded(d) ==
  [d EXCEPT !.rel = FALSE, !.abs = FALSE, !.x = 0, !.y = 0, !.scan = FALSE, !.lanes = {}, !.since = 0]

Turn(keys, e) == IF e[3] = 0 THEN keys \ {e[2]} ELSE keys \cup {e[2]}

-----------------------------------------------------------------------------
(* Reading: next_device_event and buffer_next_device_event *)

\* What libevdev reports after an overflow: every key it had wrong, then an end.
Burst(known) ==
  LET wrong == SetToSeq((known \ down) \cup (down \ known))
  IN IF wrong = <<>> THEN <<>>
     ELSE [i \in 1..Len(wrong) |-> <<"key", wrong[i], IF wrong[i] \in down THEN 1 ELSE 0>>]
          \o <<Syn>>

\* The event goes to the buffer; without one there is nothing to read now.
Got(d, e) ==
  [d EXCEPT !.buffered = <<e>>, !.known = IF e[1] = "key" THEN Turn(@, e) ELSE @]

\* A mutant: the lanes are forgotten with the motion.
FetchForgetting(d) ==
  IF d.burst # <<>> THEN [Got(d, Head(d.burst)) EXCEPT !.burst = Tail(@)]
  ELSE IF d.unread = <<>> THEN [d EXCEPT !.synchronizing = FALSE]
  ELSE IF Head(d.unread) # Dropped
       THEN [Got(d, Head(d.unread)) EXCEPT !.unread = Tail(@), !.synchronizing = FALSE]
  ELSE LET b == Burst(d.known)
           s == [Discarded(d) EXCEPT !.unread = <<>>]
       IN IF b = <<>> THEN [s EXCEPT !.synchronizing = FALSE]
          ELSE [Got(s, Head(b)) EXCEPT !.burst = Tail(b), !.synchronizing = TRUE]

\* A synchronization drops what is queued and what is held back.  Fragments that
\* went out still need an end: their lanes stay marked.
Fetch(d) ==
  IF d.burst # <<>> THEN [Got(d, Head(d.burst)) EXCEPT !.burst = Tail(@)]
  ELSE IF d.unread = <<>> THEN [d EXCEPT !.synchronizing = FALSE]
  ELSE IF Head(d.unread) # Dropped
       THEN [Got(d, Head(d.unread)) EXCEPT !.unread = Tail(@), !.synchronizing = FALSE]
  ELSE LET b == Burst(d.known)
           s == [Discarded(d) EXCEPT !.unread = <<>>, !.lanes = d.lanes]
       IN IF b = <<>> THEN [s EXCEPT !.synchronizing = FALSE]
          ELSE [Got(s, Head(b)) EXCEPT !.burst = Tail(b), !.synchronizing = TRUE]

Peeked(d) == IF d.buffered # <<>> THEN d ELSE Fetch(d)

-----------------------------------------------------------------------------
(* Packets *)

Hooks(d, lane) == d.grabbed /\ (lane = "mouse" => "hook" \in kind)

\* mark_forward_report_lane: the lane still needs this report's SYN_REPORT.
Mark(d, lane, events, end) ==
  IF events = <<>> \/ end \/ ~d.grabbed THEN d ELSE [d EXCEPT !.lanes = @ \cup {lane}]

\* A packet is handed on (history).
Sent(d, lane, events, end) ==
  [d EXCEPT !.open = IF end \/ events = <<Syn>> THEN @ \ {lane}
                     ELSE IF events = <<>> THEN @ ELSE @ \cup {lane},
            !.sent = d.at]

\* forward_fragment: the packet of one event, and whether it ends the report,
\* which is so when it is all of it.
Fragment(d, e) ==
  LET next == Peeked(d)
      looks == e[1] \in {"key", "rel"} /\ d.grabbed /\ d.lanes = {}
      after == IF looks THEN [next EXCEPT !.scan = FALSE] ELSE [d EXCEPT !.scan = FALSE]
  IN [dev |-> after,
      events |-> (IF d.scan /\ e[1] = "key" THEN <<<<"scan", "of", 0>>>> ELSE <<>>) \o <<e>>,
      end |-> looks /\ next.buffered = <<Syn>>]

\* deliver_physical_event, for hooks and observers.
Deliver(d, lane, e) ==
  IF ~Hooks(d, lane) THEN [d EXCEPT !.sent = d.at]
  ELSE LET f == Fragment(d, e)
       IN Sent(Mark(f.dev, lane, f.events, f.end), lane, f.events, f.end)

\* One of the two moves dispatch_pending_mouse_move sends.
DeliverMove(d, events, end) ==
  IF ~Hooks(d, "mouse") THEN d
  ELSE [Sent(Mark(d, "mouse", events, end), "mouse", events, end) EXCEPT !.sent = d.sent]

\* dispatch_pending_mouse_move: motion held back goes out; the move that ends a
\* report with no other part on the mouse lane carries its end.
FlushMoves(d, reportEnd) ==
  LET end == reportEnd /\ "mouse" \notin d.lanes
      moved == SelectSeq(<<<<"rel", "x", d.x>>, <<"rel", "y", d.y>>>>, LAMBDA e : e[3] # 0)
      r == IF ~d.rel THEN d
           ELSE DeliverMove([d EXCEPT !.rel = FALSE, !.x = 0, !.y = 0], moved, end /\ ~d.abs)
      a == IF ~r.abs THEN r
           ELSE DeliverMove([r EXCEPT !.abs = FALSE],
                            <<<<"abs", "x", 0>>, <<"abs", "y", 0>>>>, end)
  IN [a EXCEPT !.since = 0]

HoldBack(d) == [d EXCEPT !.since = IF @ = 0 THEN d.at ELSE @]
QueueRelativeMotion(d, e) ==
  [HoldBack(d) EXCEPT !.rel = TRUE, !.x = IF e[2] = "x" THEN @ + e[3] ELSE @,
                      !.y = IF e[2] = "y" THEN @ + e[3] ELSE @]
QueueAbsoluteMotion(d) == [HoldBack(d) EXCEPT !.abs = TRUE]

-----------------------------------------------------------------------------
(* Events without a hook *)

\* Forwarding rebuilds legacy steps from the high-resolution value.
Shadowed(e) == e[1] = "rel" /\ e[2] = "wheel" /\ "hires" \in kind

RawLane(e) ==
  IF "keyboard" \in kind /\ ((e[1] = "key" /\ e[2] \in KeyboardKeys)
                             \/ (e[1] = "scan" /\ e[2] = "of"))
  THEN "keyboard" ELSE "mouse"

RawClass(e) ==
  IF "keyboard" \notin kind
     \/ ("block" \in kind /\ (e[1] \in {"rel", "abs"} \/ (e[1] = "key" /\ e[2] \notin KeyboardKeys)))
  THEN "mouse" ELSE "keyboard"

ForwardRaw(d, lane, e) ==
  LET f == Fragment(d, e)
      s == Mark(Sent(f.dev, lane, f.events, f.end), lane, f.events, f.end)
  IN [s EXCEPT !.held = IF e[1] = "key" THEN Turn(@, e) ELSE @]

\* A mutant: BlockInput stops releases.
ForwardUnhandledBlocked(d, e) ==
  LET toLane(s, lane) == IF lane \in d.lanes THEN ForwardRaw(s, lane, e) ELSE s
  IN IF ~d.grabbed \/ Shadowed(e) THEN d
     ELSE IF e = Syn THEN [toLane(toLane(d, "keyboard"), "mouse") EXCEPT !.lanes = {}]
     ELSE IF RawClass(e) \in blocks THEN d
     ELSE ForwardRaw(d, RawLane(e), e)

\* forward_unhandled_event: SYN_REPORT goes to the lanes that wait for it, and
\* BlockInput stops everything but releases.
ForwardUnhandled(d, e) ==
  LET toLane(s, lane) == IF lane \in d.lanes THEN ForwardRaw(s, lane, e) ELSE s
  IN IF ~d.grabbed \/ Shadowed(e) THEN d
     ELSE IF e = Syn
          THEN [toLane(toLane(d, "keyboard"), "mouse") EXCEPT !.lanes = {}]
     ELSE IF RawClass(e) \in blocks /\ ~(e[1] = "key" /\ e[3] = 0) THEN d
     ELSE ForwardRaw(d, RawLane(e), e)

\* A mutant: the reader forgets a release that the output queue refused.
ReleaseOnce(d, e, taken) ==
  IF d.grabbed \/ e[3] # 0 \/ e[2] \notin d.owed THEN d
  ELSE [d EXCEPT !.owed = @ \ {e[2]}, !.held = IF taken THEN @ \ {e[2]} ELSE @]

\* A key held when the source was ungrabbed ends on its outputs now, if the
\* output queue has room; a refused release stays owed.
ReleaseAfterUngrab(d, e, taken) ==
  IF d.grabbed \/ e[3] # 0 \/ e[2] \notin d.owed \/ ~taken THEN d
  ELSE [d EXCEPT !.owed = @ \ {e[2]}, !.held = @ \ {e[2]}]

\* settle_ungrab_holds: owed releases of keys that are up, except those the queue
\* refuses (all of them if the key state cannot be read).
Settled(d, refused) ==
  LET gone == (d.owed \ down) \ refused
  IN [d EXCEPT !.owed = @ \ gone, !.held = @ \ gone]

-----------------------------------------------------------------------------
(* handle_input_event *)

\* dispatch_keyboard_event and dispatch_mouse_button_event
DispatchKeyboardEvent(d, e) == Deliver(d, "keyboard", e)
DispatchMouseButtonEvent(d, e) == Deliver(d, "mouse", e)

\* A mutant: a key does not wait for the motion before it.
OnKeyAtOnce(d, e, taken) ==
  LET o == ReleaseAfterUngrab(d, e, taken)
  IN IF "mouse" \in kind /\ e[2] \in Buttons
     THEN LET b == DispatchMouseButtonEvent(o, e)
          IN IF "hook" \in kind THEN b ELSE ForwardUnhandled(b, e)
     ELSE IF "keyboard" \in kind /\ e[2] \in KeyboardKeys THEN DispatchKeyboardEvent(o, e)
     ELSE ForwardUnhandled(o, e)

\* Motion before a key goes out before it.
OnKey(d, e, taken) ==
  LET o == FlushMoves(ReleaseAfterUngrab(d, e, taken), FALSE)
  IN IF "mouse" \in kind /\ e[2] \in Buttons
     THEN LET b == DispatchMouseButtonEvent(o, e)
          IN IF "hook" \in kind THEN b ELSE ForwardUnhandled(b, e)
     ELSE IF "keyboard" \in kind /\ e[2] \in KeyboardKeys THEN DispatchKeyboardEvent(o, e)
     ELSE ForwardUnhandled(o, e)

\* A wheel step goes out behind the motion before it.
OnRelative(d, e) ==
  IF e[2] \in {"x", "y"} THEN QueueRelativeMotion(d, e)
  ELSE IF Shadowed(e) THEN d
  ELSE Deliver(FlushMoves(d, FALSE), "mouse", e)

\* The end of a report, with motion and a blocked key's scan code out of the way.
OnReportEnd(d) ==
  [ForwardUnhandled([FlushMoves(d, TRUE) EXCEPT !.scan = FALSE], Syn) EXCEPT
     !.at = 0, !.sent = 0]

HandleInputEvent(d, e, taken) ==
  LET candidate == kind \cap {"keyboard", "mouse"} # {}
      scanned == Peeked(d)
  IN IF e = Syn /\ candidate THEN OnReportEnd(d)
     ELSE IF e = Syn THEN [ForwardUnhandled(d, e) EXCEPT !.at = 0, !.sent = 0]
     ELSE IF e[1] = "key" /\ candidate THEN OnKey(d, e, taken)
     ELSE IF e[1] = "key" THEN ForwardUnhandled(ReleaseAfterUngrab(d, e, taken), e)
     ELSE IF ~candidate THEN ForwardUnhandled(d, e)
     ELSE IF e[1] = "rel" /\ e[2] # "other" /\ "hook" \in kind THEN OnRelative(d, e)
     ELSE IF e[1] = "abs" /\ e[2] \in {"x", "y"} /\ "hook" \in kind THEN QueueAbsoluteMotion(d)
     ELSE IF e[1] = "scan" /\ e[2] = "of" /\ d.grabbed
          THEN IF scanned.buffered # <<>> /\ Head(scanned.buffered)[1] = "key"
               THEN [scanned EXCEPT !.scan = TRUE]
               ELSE ForwardUnhandled(FlushMoves(scanned, FALSE), e)
     ELSE ForwardUnhandled(FlushMoves(d, FALSE), e)

-----------------------------------------------------------------------------
(* Actions of the reader *)

Count(what) == used' = [used EXCEPT ![what] = @ + 1]

\* One round of read_device_events' loop; the output queue takes or refuses.
Handle ==
  LET p == Peeked(dev)
  IN /\ ~grabbing /\ p.buffered # <<>>
     /\ \E taken \in BOOLEAN :
          dev' = HandleInputEvent([p EXCEPT !.buffered = <<>>, !.at = @ + 1], Head(p.buffered), taken)
     /\ reading' = TRUE
     /\ UNCHANGED <<kind, down, grabbing, blocks, used>>

\* The loop ends: nothing is left to read, or the budget is used up, which may be
\* after any event.  Motion does not wait for the next pass.
EndPass ==
  /\ reading
  /\ dev' = FlushMoves(IF dev.buffered = <<>> /\ Peeked(dev).buffered = <<>> THEN Peeked(dev) ELSE dev, FALSE)
  /\ reading' = FALSE
  /\ UNCHANGED <<kind, down, grabbing, blocks, used>>

\* ksi_linux_devices_peek_oldest_pending_event
PeekOldest ==
  /\ ~reading /\ dev.grabbed /\ dev.buffered = <<>>
  /\ dev' = Peeked(dev)
  /\ UNCHANGED <<kind, down, reading, grabbing, blocks, used>>

\* ksi_linux_devices_retry_incomplete_grabs settles what is owed.
SettleUngrabHolds ==
  /\ ~reading /\ ~grabbing /\ ~dev.grabbed /\ dev.owed \ down # {}
  /\ \E refused \in SUBSET (dev.owed \ down) : dev' = Settled(dev, refused)
  /\ UNCHANGED <<kind, down, reading, grabbing, blocks, used>>

\* set_device_grab, on: it settles what is owed, and goes on unless a key other
\* than a contact is down or a release is still owed.  The drain before it is
\* bounded, so events may be queued.
StartGrab ==
  /\ ~reading /\ ~grabbing /\ ~dev.grabbed
  /\ used.changes < MaxChanges /\ Count("changes")
  /\ \E refused \in SUBSET (dev.owed \ down) : dev' = Settled(dev, refused)
  /\ grabbing' = (down \subseteq Contacts /\ dev'.owed = {})
  /\ UNCHANGED <<kind, down, reading, blocks>>

\* EVIOCGRAB, behind what arrived since the look; another program may have it.
TakeGrab ==
  /\ grabbing
  /\ \/ dev' = [Discarded(dev) EXCEPT !.grabbed = TRUE]
     \/ dev' = dev
  /\ grabbing' = FALSE
  /\ UNCHANGED <<kind, down, reading, blocks, used>>

\* set_device_grab, off: the outputs keep what the source holds, which is owed
\* from now on, and end the reports that were open (Forward).
EndGrab ==
  /\ ~reading /\ dev.grabbed
  /\ used.changes < MaxChanges /\ Count("changes")
  /\ dev' = [Discarded(dev) EXCEPT !.grabbed = FALSE, !.owed = dev.held, !.open = {}]
  /\ UNCHANGED <<kind, down, reading, grabbing, blocks>>

SetBlocks ==
  /\ ~reading /\ ~grabbing /\ used.changes < MaxChanges /\ Count("changes")
  /\ blocks' \in SUBSET Classes \ {blocks}
  /\ UNCHANGED <<kind, dev, down, reading, grabbing>>

-----------------------------------------------------------------------------
(* The source *)

\* A report arrives whole; its keys turn over.
Arrive(r) ==
  LET codes == {r[i][2] : i \in {j \in DOMAIN r : r[j][1] = "key"}}
      turned == [i \in DOMAIN r |-> IF r[i][1] # "key" THEN r[i]
                                    ELSE <<"key", r[i][2], IF r[i][2] \in down THEN 0 ELSE 1>>]
  IN /\ used.reports < MaxReports /\ Count("reports")
     /\ Len(dev.unread) + Len(r) =< MaxQueue
     /\ down' = (down \ codes) \cup (codes \ down)
     /\ dev' = [dev EXCEPT !.unread = @ \o turned]
     /\ UNCHANGED <<kind, reading, grabbing, blocks>>

\* evdev's buffer overflows: what libevdev has not read yet is lost.
Overflow ==
  /\ used.drops < MaxDrops /\ Count("drops")
  /\ \E i \in 0..Len(dev.unread) :
       dev' = [dev EXCEPT !.unread = SubSeq(@, 1, i) \o <<Dropped>>]
  /\ UNCHANGED <<kind, down, reading, grabbing, blocks>>

-----------------------------------------------------------------------------

Init ==
  /\ kind \in Kinds
  /\ dev = Idle /\ down = {} /\ reading = FALSE /\ grabbing = FALSE /\ blocks = {}
  /\ used = [reports |-> 0, drops |-> 0, changes |-> 0]

Next ==
  \/ Handle \/ EndPass \/ PeekOldest
  \/ SettleUngrabHolds \/ StartGrab \/ TakeGrab \/ EndGrab \/ SetBlocks \/ Overflow
  \/ \E r \in Reports : Arrive(r)

Spec == Init /\ [][Next]_vars

-----------------------------------------------------------------------------
(* Properties *)

\* Each lane that carries part of a report also carries its SYN_REPORT: a lane
\* with a fragment that has no end yet is marked, whatever the reader looked
\* ahead at, wherever its budget ran out and whatever evdev dropped in between.
\* Without an end the desktop would not act on the fragment.
LanesGetTheirEnd == dev.grabbed => dev.open \subseteq dev.lanes

\* Hooks and observers see a report's input in the order the source sent it:
\* nothing overtakes motion that is held back, so a click lands where the pointer
\* was, and no motion is held back past its report or its pass.
InOrder ==
  /\ dev.rel \/ dev.abs => dev.since > dev.sent
  /\ dev.at = 0 \/ ~reading => ~dev.rel /\ ~dev.abs

\* What the raw path pressed on the outputs is going to end there.  While the
\* source is grabbed the key is down on it, or its release is the next event,
\* whatever BlockInput and an overflow did; once it is not, the release is owed,
\* and stays owed when the output queue refuses it or another grab is asked for.
RawHoldsEnd ==
  \A k \in dev.held :
    IF dev.grabbed THEN k \in dev.known \/ dev.buffered = <<<<"key", k, 0>>>>
    ELSE k \in dev.owed
=============================================================================
