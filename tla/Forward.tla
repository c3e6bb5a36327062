------------------------------ MODULE Forward ------------------------------
(***************************************************************************)
(* Forwarding (linux_forward.c): where a grabbed source's input goes.      *)
(*                                                                         *)
(* Every keyboard shares one output for its keyboard keys, the sink, which *)
(* holds a key while any source or synthesis does; whatever else a source  *)
(* reports goes to its own clone.  The main thread (the reader) opens and  *)
(* closes sources and begins and ends their grabs; the hook lanes decide   *)
(* what passes; the sequencer writes.  Key state is kept at two positions  *)
(* of the output queue: as admitted output will leave it ("enq") and as    *)
(* written output has left it ("app").  A grab's end and a source's close  *)
(* reach the two views at one queue position, except that a full queue     *)
(* cannot order them and they reach the written view at once.              *)
(*                                                                         *)
(* Each action is one critical section of the queue's mutex or of          *)
(* devices_mutex.  A request for fail open ends a behaviour here: what the *)
(* daemon does then is part of OutputQueue.  Repeats change no key state   *)
(* and are left out, as are wheel steps and switches.                      *)
(***************************************************************************)
EXTENDS Integers, Sequences, FiniteSets, SequencesExt, FiniteSetsExt

CONSTANTS
  Sources,       \* physical devices that can be grabbed
  SourceKeys,    \* SourceKeys[s]: the keys and buttons of s
  Keyboards,     \* sources with keyboard keys
  SinkKeys,      \* codes that are keyboard keys (ksi_linux_key_code_is_keyboard)
  Plain,         \* the ones of those retyped when pressed again while held
  Slots,         \* KSI_MAX_FORWARDING_DEVICES
  Capacity,      \* KSI_MAX_OUTPUT_ACTIONS
  Reserve,       \* KSI_OUTPUT_CLEANUP_RESERVE
  MaxInputs,     \* bound on reports, synthetic inputs and grab changes in one behaviour
  MaxFaults      \* bound on failing writes in one

None == "none"

Keys == UNION {SourceKeys[s] : s \in Sources}

ASSUME KeyAssumption ==
  /\ Keyboards \subseteq Sources /\ Plain \subseteq SinkKeys
  /\ None \notin Sources /\ None \notin Keys

ASSUME BoundAssumption ==
  /\ Slots \in Nat \ {0} /\ Capacity \in Nat \ {0} /\ Reserve \in 0..Capacity
  /\ MaxInputs \in Nat /\ MaxFaults \in Nat

VARIABLES
  fwd,       \* linux_forward.c's state, see Forwarding
  serial,    \* next_serial
  target,    \* target[s]: the reader's forwarding_target, 0 while s has none
  grabbed,   \* sources held by EVIOCGRAB
  down,      \* down[s]: keys physically down
  owed,      \* owed[s]: ungrab_held_keys, releases the outputs still wait for
  lane,      \* lane[c]: packets waiting for a hook decision, c in Classes
  queue,     \* q->actions
  refused,   \* fail open was requested: physical input found the queue full
  forced,    \* an end or a close found the queue full (history)
  inputs,    \* how much of MaxInputs is used
  faults     \* how much of MaxFaults is used

vars == <<fwd, serial, target, grabbed, down, owed, lane, queue, refused, forced,
          inputs, faults>>
reader == <<target, grabbed, down, owed>>

Views == {"enq", "app"}
Classes == {"keyboard", "mouse"}

-----------------------------------------------------------------------------
(* The forwarding table and the sink.                                      *)

NoKeys == [out |-> {}, src |-> {}, disp |-> {}]

\* forwarding_device; a free slot is all zero.  born, the target it
\* was opened with, is a history field.
FreeSlot == [source |-> None, born |-> 0, open |-> FALSE, closing |-> FALSE, clone |-> FALSE,
             failed |-> FALSE, retiring |-> FALSE, sinkOpen |-> FALSE,
             cloneOpen |-> FALSE, target |-> [v \in Views |-> 0],
             keys |-> [v \in Views |-> NoKeys]]

\* sink is the shared keyboard: attached (fd), failed, the keys it holds down.
\* claims are synthesis's holds in each view.
Forwarding == [dev |-> [i \in 1..Slots |-> FreeSlot], fd |-> TRUE, failed |-> FALSE,
               down |-> {}, claims |-> [v \in Views |-> {}]]

Live(d) == d.open /\ ~d.retiring

HasClone(s) == ~(s \in Keyboards /\ SourceKeys[s] \subseteq SinkKeys)

\* The slot ksi_linux_forward_open fills in.
OpenSlot(s, t) ==
  [FreeSlot EXCEPT !.source = s, !.born = t, !.open = TRUE, !.clone = HasClone(s),
                   !.target = [v \in Views |-> t]]

OnSink(d) == IF d.source \in Keyboards THEN SinkKeys ELSE {}

\* A target carries its slot and grows with every grab of any source.
NewTarget(n, i) == n * (Slots + 1) + i
SlotOf(t) == t % (Slots + 1)

\* find_device_locked: the slot t names in a view, or 0.
Find(f, t, v) ==
  IF t # 0 /\ f.dev[SlotOf(t)].target[v] = t /\ ~f.dev[SlotOf(t)].retiring
  THEN SlotOf(t) ELSE 0

ForwardFailed(f, t) == Find(f, t, "enq") = 0 \/ f.dev[Find(f, t, "enq")].failed

SinkReady(f) == f.fd /\ ~f.failed

\* sink_wants_locked
Wanted(f) ==
  f.claims["app"] \cup
    UNION {f.dev[i].keys["app"].out \cap OnSink(f.dev[i]) : i \in {j \in 1..Slots : Live(f.dev[j])}}

\* Which of a step's writes fail: those of sink keys, and those to clones.
NoFault == [sink |-> {}, clones |-> {}]

\* Writes the wanted state of each key of ks to the sink.  A failed or missing
\* sink applies no release, and its presses count as applied.
SinkWrite(f, ks, x) ==
  LET lost == IF SinkReady(f) THEN ks \cap x.sink ELSE ks
      broke == SinkReady(f) /\ lost # {}
  IN [f EXCEPT !.down = (@ \ (ks \ lost)) \cup (ks \cap Wanted(f)),
               !.failed = @ \/ broke]

\* needs_repress_locked: keys the sink holds that a new press types again.
NeedsRepress(f) == Plain \cap f.down

\* tap_locked: released and pressed again, which leaves the key down.
Tap(f, k, x) == SinkWrite(f, {k}, x)

\* reconcile_locked
Reconcile(f, ks, x) ==
  SinkWrite(f, {k \in ks : (k \in Wanted(f)) # (k \in f.down)}, x)

\* write_locked: the clones of is are written; a failure is latched.
CloneWrite(f, is, x) ==
  [f EXCEPT !.dev = [i \in 1..Slots |->
     [f.dev[i] EXCEPT !.failed = @ \/ i \in is \cap x.clones]]]

\* What set_output_locked writes once the written view's out sets changed: the
\* sink keys of ks, and the clones of the slots in is.
Settled(f, v, ks, is, x) ==
  IF v = "enq" THEN f
  ELSE CloneWrite(Reconcile(f, ks \cap SinkKeys, x), {i \in is : f.dev[i].clone}, x)

\* release_outputs_locked for the slots in is; keep[i] is what slot i keeps.
ReleaseOutputs(f, is, v, keep, x) ==
  LET gone(i) == IF i \in is THEN f.dev[i].keys[v].out \ keep[i] ELSE {}
      kept(i) == IF i \in is THEN keep[i] ELSE Keys
      g == [f EXCEPT !.dev = [i \in 1..Slots |->
              [f.dev[i] EXCEPT !.keys[v].out = @ \ gone(i), !.keys[v].disp = @ \cap kept(i)]]]
  IN Settled(g, v, UNION {gone(i) : i \in is},
             {i \in is : gone(i) \ OnSink(f.dev[i]) # {}}, x)

\* A mutant: the report a grab's end cuts short is left open.
EndReportsNever(f, i) == f

\* end_open_reports_locked
EndReports(f, i) == [f EXCEPT !.dev[i].sinkOpen = FALSE, !.dev[i].cloneOpen = FALSE]

\* end_grab_locked: the source keeps the holds in keep; nothing is restored.
EndGrabLocked(f, i, v, keep, x) ==
  LET g == IF v = "app" THEN EndReports(f, i) ELSE f
      h == ReleaseOutputs(g, {i}, v, [j \in 1..Slots |-> keep], x)
  IN [h EXCEPT !.dev[i].keys[v].disp = {}]

\* A mutant: an end that arrives after a later one is applied too.
ApplyEndAlways(f, next, held, x) ==
  LET i == SlotOf(next)
      keep == IF held = {None} THEN f.dev[i].keys["app"].src ELSE held
  IN IF ~Live(f.dev[i]) THEN f
     ELSE [EndGrabLocked(f, i, "app", keep, x) EXCEPT !.dev[i].target["app"] = next]

\* A mutant: a late end keeps nothing where admitted output kept the holds.
ApplyEndKeepsNothing(f, next, held, x) ==
  LET i == SlotOf(next)
  IN IF ~(Live(f.dev[i]) /\ f.dev[i].target["app"] < next) THEN f
     ELSE [EndGrabLocked(f, i, "app", held \ {None}, x) EXCEPT !.dev[i].target["app"] = next]

\* ksi_linux_forward_apply_end_grab; held is {None} where the code passes NULL.
ApplyEndGrab(f, next, held, x) ==
  LET i == SlotOf(next)
      keep == IF held = {None} THEN f.dev[i].keys["app"].src ELSE held
  IN IF ~(Live(f.dev[i]) /\ f.dev[i].target["app"] < next) THEN f
     ELSE [EndGrabLocked(f, i, "app", keep, x) EXCEPT !.dev[i].target["app"] = next]

\* ksi_linux_forward_close: admitted output forgets the source.
CloseEnqueued(f, t) ==
  LET i == Find(f, t, "enq")
  IN IF i = 0 THEN f
     ELSE [f EXCEPT !.dev[i].keys["enq"] = NoKeys, !.dev[i].target["enq"] = 0,
                    !.dev[i].closing = TRUE]

\* ksi_linux_forward_apply_close: a clone retires until its readers drained it,
\* a source without one frees its slot at once.
ApplyClose(f, t, x) ==
  LET i == SlotOf(t)
      g == ReleaseOutputs(EndReports(f, i), {i}, "app", [j \in 1..Slots |-> {}], x)
  IN IF ~(f.dev[i].closing /\ Live(f.dev[i])) THEN f
     ELSE IF g.dev[i].clone
          THEN [g EXCEPT !.dev[i].keys = [v \in Views |-> NoKeys], !.dev[i].retiring = TRUE]
          ELSE [g EXCEPT !.dev[i] = FreeSlot]

-----------------------------------------------------------------------------
(* Packets.                                                                *)

\* One fragment of a report: a key transition, or with key None the SYN that
\* ends a report of several fragments.  end: it carries its report's SYN.
Packet(t, class, key, press, end) ==
  [target |-> t, class |-> class, key |-> key, press |-> press, end |-> end,
   suppressed |-> FALSE]

IsRelease(p) == p.key # None /\ ~p.press

Turned(ks, k, on) == IF on THEN ks \cup {k} ELSE ks \ {k}

\* note_keys with source: a released source leaves nothing to restore.
NoteSource(f, p, v) ==
  LET i == Find(f, p.target, v)
  IN IF i = 0 THEN f
     ELSE [f EXCEPT !.dev[i].keys[v].src = Turned(@, p.key, p.press),
                    !.dev[i].keys[v].disp = IF p.press THEN @ ELSE @ \ {p.key}]

\* note_keys without source: admitted output.
NoteOutput(f, p) ==
  LET i == Find(f, p.target, "enq")
  IN IF i = 0 \/ p.key = None THEN f
     ELSE [f EXCEPT !.dev[i].keys["enq"].out = Turned(@, p.key, p.press)]

\* ksi_linux_synth_physical_release: a passed key-up ends synthesis's hold.
PhysicalRelease(f, p, v, x) ==
  IF ~IsRelease(p) \/ p.suppressed THEN f
  ELSE LET g == [f EXCEPT !.claims[v] = @ \ {p.key}]
       IN IF v = "app" /\ p.key \in f.claims[v] THEN Reconcile(g, {p.key}, x) ELSE g

\* ksi_linux_forward_write to a clone: a failed write still notes a press.
WriteClone(f, i, p, x) ==
  LET ok == ~f.dev[i].failed /\ i \notin x.clones
      g == [CloneWrite(f, {i}, x) EXCEPT !.dev[i].cloneOpen = ~p.end]
  IN IF p.key # None /\ (ok \/ p.press)
     THEN [g EXCEPT !.dev[i].keys["app"].out = Turned(@, p.key, p.press)] ELSE g

\* ksi_linux_forward_write to the sink, which changes when the first holder
\* presses or the last releases, and retypes a key it already holds.
WriteSink(f, i, p, x) ==
  LET repress == p.press /\ p.key \in NeedsRepress(f)
      g == IF p.key = None THEN f
           ELSE [f EXCEPT !.dev[i].keys["app"].out = Turned(@, p.key, p.press)]
  IN IF p.key # None /\ ~repress /\ ((p.key \in Wanted(g)) = (p.key \in g.down)) THEN g
     ELSE [SinkWrite(g, {p.key} \ {None}, x) EXCEPT !.dev[i].sinkOpen = ~p.end]

\* ksi_linux_forward_write.  Releasing what the source does not hold only
\* reconciles the sink.
Write(f, p, x) ==
  LET i == Find(f, p.target, "app")
  IN IF i = 0 THEN f
     ELSE IF IF p.class = "mouse" THEN ~f.dev[i].clone ELSE f.dev[i].source \notin Keyboards THEN f
     ELSE IF IsRelease(p) /\ p.key \notin f.dev[i].keys["app"].out
          THEN IF p.class = "mouse" THEN f ELSE Reconcile(f, {p.key}, x)
     ELSE IF p.class = "mouse" THEN WriteClone(f, i, p, x)
     ELSE WriteSink(f, i, p, x)

\* shift_key: moves k between every source's held and displaced sets.
Shift(f, k, v, restore, x) ==
  LET is == {i \in 1..Slots : Live(f.dev[i]) /\
               k \in (IF restore THEN f.dev[i].keys[v].disp ELSE f.dev[i].keys[v].out)}
      g == [f EXCEPT !.dev = [i \in 1..Slots |-> IF i \notin is THEN f.dev[i] ELSE
              [f.dev[i] EXCEPT
                 !.keys[v].disp = Turned(@, k, ~restore /\ k \in f.dev[i].keys[v].src),
                 !.keys[v].out = Turned(@, k, restore)]]]
  IN Settled(g, v, {k}, {i \in is : k \notin OnSink(f.dev[i])}, x)

\* apply_key (linux_synth.c): a synthetic press restores a displaced hold or
\* claims the key; a release ends the claim, or else the key everywhere.
ApplyKey(f, k, press, v, x) ==
  IF press
  THEN IF \E i \in 1..Slots : Live(f.dev[i]) /\ k \in f.dev[i].keys[v].disp
       THEN Shift(f, k, v, TRUE, x)
       ELSE [f EXCEPT !.claims[v] = @ \cup {k}]
  ELSE IF k \in f.claims[v] THEN [f EXCEPT !.claims[v] = @ \ {k}]
  ELSE Shift(f, k, v, FALSE, x)

\* send_key_code: ksi_linux_forward_sink_repress retypes a held key, then the
\* sink follows the claims (update_generic_key).
SendKey(f, k, press, x) ==
  LET retype == press /\ k \in NeedsRepress(f) \ f.claims["app"]
      g == IF retype THEN Tap(f, k, x) ELSE f
  IN Reconcile(ApplyKey(g, k, press, "app", x), {k}, x)

\* ksi_linux_synth_release_all: synthesis lets go of everything.
ClearSynth(f, x) == Reconcile([f EXCEPT !.claims["app"] = {}], f.claims["app"], x)

AllSlots(f) == {i \in 1..Slots : Live(f.dev[i])}

ReleaseAll(f, v, x) == ReleaseOutputs(f, AllSlots(f), v, [i \in 1..Slots |-> {}], x)

\* ksi_linux_forward_attach_sink: the old sink goes, and the desktop releases
\* what it held; ok says whether a new one could be created.
AttachSink(f, ok) ==
  [f EXCEPT !.fd = ok, !.failed = FALSE, !.down = {}, !.claims["app"] = {}]

-----------------------------------------------------------------------------
(* The output queue.                                                       *)

NoPacket == Packet(0, "keyboard", None, FALSE, FALSE)

\* by is the opening of the source that queued an end or a close (history).
Action(type, p, next, by) == [type |-> type, pkt |-> p, next |-> next, by |-> by]

HasRoom(cleanup) == Len(queue) < Capacity - (IF cleanup THEN 0 ELSE Reserve)

Input == inputs < MaxInputs /\ inputs' = inputs + 1

Faults ==
  IF faults = MaxFaults THEN {NoFault}
  ELSE [sink : SUBSET (SinkKeys \cap Keys), clones : SUBSET {i \in 1..Slots : fwd.dev[i].clone}]

\* Spends the fault bound when a write of this step failed.
Spend ==
  LET broke == (fwd'.failed /\ ~fwd.failed)
               \/ \E i \in 1..Slots : fwd'.dev[i].failed /\ ~fwd.dev[i].failed
  IN faults' = IF broke THEN faults + 1 ELSE faults

\* output_queue_push_packet with SOURCE_STATE for each packet of ps that moves
\* a key; they may use the reserve.
PushStates(f, ps) ==
  [q |-> [j \in DOMAIN ps |-> Action("state", ps[j], 0, 0)],
   f |-> FoldLeft(LAMBDA g, p : NoteSource(g, p, "enq"), f, ps)]

\* output_queue_push_packet with REPLAY, admitted.
AdmitReplay(f, p) == PhysicalRelease(NoteOutput(f, p), p, "enq", NoFault)

-----------------------------------------------------------------------------
(* The reader.                                                             *)

\* ensure_forwarding for a source without usable outputs: a failed one is
\* retired first (Close), then ksi_linux_forward_open takes the first free slot.
Open(s) ==
  LET free == {i \in 1..Slots : ~fwd.dev[i].open}
      i == Min(free)
      t == NewTarget(serial, i)
  IN /\ target[s] = 0 /\ free # {} /\ Input
     /\ fwd' = [fwd EXCEPT !.dev[i] = OpenSlot(s, t)]
     /\ serial' = serial + 1 /\ target' = [target EXCEPT ![s] = t]
     /\ UNCHANGED <<grabbed, down, owed, lane, queue, refused, forced, faults>>

\* set_device_grab(on): never while a key is down or a release is owed, and
\* only to outputs that work.
Grab(s) ==
  /\ s \notin grabbed /\ ~ForwardFailed(fwd, target[s])
  /\ s \in Keyboards => SinkReady(fwd)
  /\ down[s] = {} /\ owed[s] = {} /\ Input
  /\ grabbed' = grabbed \cup {s}
  /\ UNCHANGED <<fwd, serial, target, down, owed, lane, queue, refused, forced, faults>>

\* A mutant: a grab that cannot be queued ends in the admitted view only.
EndGrabUnforced(f, next, kept, x) == f

\* The written half of output_queue_push_end_grab on a full queue: written
\* output keeps what admitted output kept, not what its lagging view would.
EndGrabForced(f, next, kept, x) == ApplyEndGrab(f, next, kept, x)

\* output_queue_push_end_grab: ksi_linux_forward_end_grab moves admitted output
\* to the next target; kept is what the source still holds.
EndGrab(s, x) ==
  LET i == Find(fwd, target[s], "enq")
      kept == fwd.dev[i].keys["enq"].src
      next == NewTarget(serial, i)
      f == [EndGrabLocked(fwd, i, "enq", kept, x) EXCEPT !.dev[i].target["enq"] = next]
  IN IF i = 0
     THEN owed' = [owed EXCEPT ![s] = {}] /\ UNCHANGED <<fwd, serial, target, queue, forced>>
     ELSE /\ serial' = serial + 1
          /\ target' = [target EXCEPT ![s] = next]
          /\ owed' = [owed EXCEPT ![s] = kept]
          /\ forced' = (forced \/ ~HasRoom(TRUE))
          /\ IF HasRoom(TRUE)
             THEN queue' = Append(queue, Action("end", NoPacket, next, fwd.dev[i].born)) /\ fwd' = f
             ELSE fwd' = EndGrabForced(f, next, kept, x) /\ UNCHANGED queue

\* set_device_grab(off): the end of demand, or a dead output failing open.
Ungrab(s) ==
  /\ s \in grabbed /\ Input
  /\ \E x \in Faults : EndGrab(s, x) /\ Spend
  /\ grabbed' = grabbed \ {s}
  /\ UNCHANGED <<down, lane, refused>>

\* output_queue_push_close
PushClose(s, x) ==
  LET f == CloseEnqueued(fwd, target[s])
  IN /\ forced' = (forced \/ ~HasRoom(TRUE))
     /\ IF HasRoom(TRUE)
        THEN queue' = Append(queue, Action("close", NoPacket, target[s], fwd.dev[SlotOf(target[s])].born)) /\ fwd' = f
        ELSE fwd' = ApplyClose(f, target[s], x) /\ UNCHANGED queue

\* close_forwarding_device: s was unplugged, or its failed clone is replaced
\* once it is ungrabbed.
Close(s) ==
  /\ target[s] # 0 /\ Input
  /\ \E x \in Faults : PushClose(s, x) /\ Spend
  /\ target' = [target EXCEPT ![s] = 0] /\ owed' = [owed EXCEPT ![s] = {}]
  /\ \/ down' = [down EXCEPT ![s] = {}] /\ grabbed' = grabbed \ {s}
     \/ s \notin grabbed /\ ForwardFailed(fwd, target[s]) /\ UNCHANGED <<down, grabbed>>
  /\ UNCHANGED <<serial, lane, refused>>

ClassOf(s, k) == IF s \in Keyboards /\ k \in SinkKeys THEN "keyboard" ELSE "mouse"

\* What a report of ks adds to lane c: its fragments, and the report's SYN when
\* no fragment could carry it.
Fragments(s, ks, press, c) ==
  LET own == SetToSeq({k \in ks : ClassOf(s, k) = c})
      single == Cardinality(ks) = 1
      frags == [j \in DOMAIN own |-> Packet(target[s], c, own[j], press, single)]
  IN frags \o (IF own = <<>> \/ single THEN <<>>
               ELSE <<Packet(target[s], c, None, FALSE, TRUE)>>)

\* A report of a grabbed source: daemon_handle_hook_event queues what the source
\* did (push_source_state) and hands each fragment to its lane.
GrabbedReport(s, ks, press) ==
  LET frags == [c \in Classes |-> Fragments(s, ks, press, c)]
      moves == SelectSeq(frags["keyboard"] \o frags["mouse"], LAMBDA p : p.key # None)
      pushed == PushStates(fwd, moves)
  IN /\ s \in grabbed
     /\ IF Len(queue) + Len(moves) > Capacity
        THEN refused' = TRUE /\ UNCHANGED <<fwd, queue, lane>>
        ELSE /\ fwd' = pushed.f /\ queue' = queue \o pushed.q
             /\ lane' = [c \in Classes |-> lane[c] \o frags[c]]
             /\ UNCHANGED refused
     /\ UNCHANGED owed

\* forward_release_after_ungrab: both actions are queued or the release stays
\* owed; a release may use the reserve.
ForwardRelease(s, k) ==
  LET p == Packet(target[s], ClassOf(s, k), k, FALSE, TRUE)
      f == NoteSource(fwd, p, "enq")
  IN CASE Len(queue) + 2 <= Capacity ->
            /\ queue' = queue \o <<Action("state", p, 0, 0), Action("replay", p, 0, 0)>>
            /\ fwd' = AdmitReplay(f, p)
            /\ owed' = [owed EXCEPT ![s] = @ \ {k}]
       [] Len(queue) + 1 = Capacity ->
            /\ queue' = Append(queue, Action("state", p, 0, 0)) /\ fwd' = f
            /\ UNCHANGED owed
       [] OTHER -> UNCHANGED <<queue, fwd, owed>>

\* A report of an ungrabbed source reaches the desktop by its own node; a
\* release the outputs wait for is forwarded as well; those come one a report here.
UngrabbedReport(s, ks, press) ==
  /\ s \notin grabbed
  /\ IF ~press /\ Cardinality(ks) = 1 /\ ks \subseteq owed[s]
     THEN ForwardRelease(s, CHOOSE k \in ks : TRUE)
     ELSE /\ press \/ ks \cap owed[s] = {}
          /\ UNCHANGED <<queue, fwd, owed>>
  /\ UNCHANGED <<lane, refused>>

Report(s, ks, press) ==
  /\ IF press THEN ks \cap down[s] = {} ELSE ks \subseteq down[s]
  /\ Input
  /\ down' = [down EXCEPT ![s] = IF press THEN @ \cup ks ELSE @ \ ks]
  /\ GrabbedReport(s, ks, press) \/ UngrabbedReport(s, ks, press)
  /\ UNCHANGED <<serial, target, grabbed, forced, faults>>

\* settle_ungrab_holds: the kernel's key state settles what is still owed.
Settle(s, k) ==
  /\ s \notin grabbed /\ k \in owed[s] \ down[s]
  /\ ForwardRelease(s, k)
  /\ UNCHANGED <<serial, target, grabbed, down, lane, refused, forced, inputs, faults>>

-----------------------------------------------------------------------------
(* The hook lanes, synthesis and the sequencer.                            *)

\* emit_decision of a lane's oldest packet: passed, or suppressed; a suppressed
\* release still reaches the outputs.
Decide(c) ==
  LET p == Head(lane[c])
      q == [p EXCEPT !.suppressed = TRUE]
      push(r) == IF HasRoom(IsRelease(r))
                 THEN /\ queue' = Append(queue, Action("replay", r, 0, 0))
                      /\ fwd' = AdmitReplay(fwd, r) /\ UNCHANGED refused
                 ELSE refused' = TRUE /\ UNCHANGED <<queue, fwd>>
  IN /\ lane[c] # <<>> /\ lane' = [lane EXCEPT ![c] = Tail(@)]
     /\ \/ push(p)
        \/ /\ p.key # None
           /\ IF IsRelease(p) THEN push(q) ELSE UNCHANGED <<queue, fwd, refused>>
     /\ UNCHANGED <<serial, reader, forced, inputs, faults>>

\* A client's synthetic transition (output_queue_push_owned_synth and
\* ksi_linux_synth_note_enqueued_synth).
Synth(k, press) ==
  /\ HasRoom(~press) /\ Input
  /\ queue' = Append(queue, Action("synth", Packet(0, "keyboard", k, press, TRUE), 0, 0))
  /\ fwd' = ApplyKey(fwd, k, press, "enq", NoFault)
  /\ UNCHANGED <<serial, reader, lane, refused, forced, faults>>

\* output_queue_push_simple: RELEASE_ALL, or RECREATE_SYNTH after a sink failure.
PushSimple(type) ==
  LET f == [fwd EXCEPT !.claims["enq"] = {}]
  IN /\ HasRoom(TRUE) /\ Input
     /\ type = "recreate" => ~SinkReady(fwd)
     /\ queue' = Append(queue, Action(type, NoPacket, 0, 0))
     /\ fwd' = IF type = "all" THEN ReleaseAll(f, "enq", NoFault) ELSE f
     /\ UNCHANGED <<serial, reader, lane, refused, forced, faults>>

\* What one action writes (apply_output_action).
Applied(f, a, x, ok) ==
  CASE a.type = "replay" -> PhysicalRelease(Write(f, a.pkt, x), a.pkt, "app", x)
    [] a.type = "state" -> NoteSource(f, a.pkt, "app")
    [] a.type = "synth" -> SendKey(f, a.pkt.key, a.pkt.press, x)
    [] a.type = "all" -> ReleaseAll(ClearSynth(f, x), "app", x)
    [] a.type = "recreate" -> AttachSink(f, ok)
    [] a.type = "end" -> ApplyEndGrab(f, a.next, {None}, x)
    [] a.type = "close" -> ApplyClose(f, a.next, x)

Sequence ==
  /\ queue # <<>> /\ queue' = Tail(queue)
  /\ \E x \in Faults, ok \in BOOLEAN :
       /\ fwd' = Applied(fwd, Head(queue), x, ok)
       /\ ok \/ Head(queue).type = "recreate"
  /\ Spend
  /\ UNCHANGED <<serial, reader, lane, refused, forced, inputs>>

\* ksi_linux_forward_collect: readers have had time to drain a retired clone.
Collect(i) ==
  /\ fwd.dev[i].retiring /\ fwd' = [fwd EXCEPT !.dev[i] = FreeSlot]
  /\ UNCHANGED <<serial, reader, lane, queue, refused, forced, inputs, faults>>

-----------------------------------------------------------------------------
\* Every source has its outputs and is grabbed, with no key down.
Init ==
  /\ LET order == SetToSeq(Sources)
     IN /\ target = [s \in Sources |-> LET i == SelectInSeq(order, LAMBDA r : r = s) IN NewTarget(i, i)]
        /\ fwd = [Forwarding EXCEPT !.dev = [i \in 1..Slots |->
             IF i \in DOMAIN order THEN OpenSlot(order[i], NewTarget(i, i)) ELSE FreeSlot]]
  /\ serial = Slots + 1 /\ grabbed = Sources
  /\ down = [s \in Sources |-> {}] /\ owed = [s \in Sources |-> {}]
  /\ lane = [c \in Classes |-> <<>>] /\ queue = <<>>
  /\ refused = FALSE /\ forced = FALSE /\ inputs = 0 /\ faults = 0

Reader ==
  \/ \E s \in Sources : Open(s) \/ Grab(s) \/ Ungrab(s) \/ Close(s)
  \/ \E s \in Sources, k \in Keys : Settle(s, k)
  \/ \E s \in Sources, press \in BOOLEAN :
       \E ks \in SUBSET SourceKeys[s] \ {{}} : Report(s, ks, press)

Output ==
  \/ \E c \in Classes : Decide(c)
  \/ \E k \in Keys, press \in BOOLEAN : Synth(k, press)
  \/ \E type \in {"all", "recreate"} : PushSimple(type)
  \/ Sequence
  \/ \E i \in 1..Slots : Collect(i)

Next == ~refused /\ (Reader \/ Output)

Spec == Init /\ [][Next]_vars

-----------------------------------------------------------------------------
(* Properties.                                                             *)

Quiet == queue = <<>> /\ \A c \in Classes : lane[c] = <<>>

\* Keys that some source writes to its clone.
CloneKeys == {k \in Keys : \E s \in Sources : k \in SourceKeys[s] /\ ClassOf(s, k) = "mouse"}

\* Once everything admitted is written, what key-state queries report (the
\* admitted view) is what the outputs hold (the written view), for sources and
\* for synthesis (ksi_forward_view), unless an end had to overtake the queue.
\* A clone that missed a release still holds its key, so after a failed write
\* only the keys no clone carries have to agree: those the sink holds.
OutputsAgree ==
  queue = <<>> /\ ~forced /\ fwd.fd =>
    LET agreed == IF faults = 0 THEN Keys ELSE Keys \ CloneKeys
        Same(ks, ls) == ks \cap agreed = ls \cap agreed
    IN /\ \A i \in AllSlots(fwd) :
            /\ fwd.dev[i].target["enq"] = fwd.dev[i].target["app"]
            /\ \A h \in DOMAIN NoKeys :
                 Same(fwd.dev[i].keys["enq"][h], fwd.dev[i].keys["app"][h])
       /\ Same(fwd.claims["enq"], fwd.claims["app"])

\* With nothing left to decide or write, a live source's outputs hold no key
\* that is up on the source, unless its release is still owed to them
\* (forward_release_after_ungrab, settle_ungrab_holds): grabs that end between
\* a press and its release, on a full queue too, strand nothing.
NoStuckKey ==
  Quiet /\ ~refused =>
    \A i \in AllSlots(fwd) :
      fwd.dev[i].failed \/
      fwd.dev[i].keys["app"].out
        \subseteq down[fwd.dev[i].source] \cup owed[fwd.dev[i].source]

\* With nothing left to decide or write, no report is left without its SYN on
\* the sink or on a clone, though a grab may end between a report's fragments
\* and its SYN (end_open_reports_locked).
ReportsEnd ==
  Quiet /\ ~refused =>
    \A i \in AllSlots(fwd) : ~fwd.dev[i].sinkOpen /\ ~fwd.dev[i].cloneOpen

\* An end of a grab or a close that reaches the written view changes only the
\* slot as it was opened when it was queued, however late it is written and whoever
\* uses the slot by then (ksi_linux_forward_apply_end_grab, _apply_close).
OwnSlotOnly ==
  [][queue # <<>> /\ queue' = Tail(queue) /\ Head(queue).type \in {"end", "close"} =>
       \A i \in 1..Slots :
         fwd.dev[i].born # Head(queue).by =>
           [fwd'.dev[i] EXCEPT !.failed = FALSE] = [fwd.dev[i] EXCEPT !.failed = FALSE]]_vars

=============================================================================
