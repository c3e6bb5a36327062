------------------------------ MODULE Devices ------------------------------
(***************************************************************************)
(* Device tracking and grabs (linux_devices.c): which sources the daemon   *)
(* reads, and when it takes them from the desktop.                         *)
(*                                                                         *)
(* One thread, the reader, does everything here, one handler after         *)
(* another: a udev event, a device's events, a change of the grab masks,   *)
(* or the periodic retry.  A handler is a list of jobs.  Looking at a node *)
(* and switching one source's grab are jobs of several steps, since the    *)
(* kernel, udev, other interceptors, the output sequencer and the user do  *)
(* not wait for it: a key can go down between the last look at the keys    *)
(* and EVIOCGRAB, and the sink can be recreated between any two steps.     *)
(*                                                                         *)
(* An event of a source is one report that presses or releases one key.    *)
(* What it becomes is in Ingest, where forwarded input goes is in Forward: *)
(* here forwarding is what its outputs hold for the source and whether     *)
(* they can be used.  The device table never fills, device identities,     *)
(* LEDs and switches are left out, and our own outputs stay on seat0.      *)
(***************************************************************************)
EXTENDS Integers, Sequences, FiniteSets, SequencesExt, FiniteSetsExt

CONSTANTS
  Sources,      \* physical devices
  Caps,         \* Caps[s]: what read_device_info finds, see Capabilities
  Keys,         \* codes a source reports
  Contacts,     \* tool and touch codes, which rest on a device (is_contact_code)
  Demands,      \* the hook and BlockInput masks clients may ask for
  Queue,        \* how many events evdev holds for the reader
  MaxInputs,    \* bound on what the environment does in one behaviour
  MaxFaults     \* bound on failing system calls and outputs in one

Capabilities == {"keys", "gamepad", "buttons", "axes", "compositor"}

ASSUME SourceAssumption ==
  /\ Caps \in [Sources -> SUBSET Capabilities] /\ Contacts \subseteq Keys
  /\ IsFiniteSet(Sources) /\ "sink" \notin Sources

Classes == {"keyboard", "mouse"}
NoDemand == [hooks |-> {}, blocks |-> {}]

ASSUME DemandAssumption == NoDemand \in Demands /\ Demands \subseteq [hooks : SUBSET Classes, blocks : SUBSET Classes]

ASSUME BoundAssumption == Queue \in Nat \ {0} /\ MaxInputs \in Nat /\ MaxFaults \in Nat

VARIABLES
  src,       \* src[s]: the kernel's side of a source, see Unplugged
  dev,       \* dev[s]: its tracked_devices entry, see Untracked
  fwd,       \* fwd[s]: its forwarding target, see NoForward
  sink,      \* the sink: its generation, its node and sink_ready_flag
  sinks,     \* tracked sink nodes with the generation recorded for each
  failure,   \* failure_pending
  tapped,    \* our outputs another program grabbed: "sink", or a clone by its source
  udev,      \* events waiting on the monitor's socket
  jobs,      \* what the reader's current handler has left to do
  pass,      \* outputs_grabbed (-1 until probed) and set_grab_masks' incomplete
  incomplete, \* grab_state_incomplete
  masks,     \* grab_hook_mask and block_input_mask
  torn,      \* a sink node was recorded under a later generation than its own (history)
  mode,      \* the reader has started, its monitor works, forwarding_enabled
  inputs,    \* how much of MaxInputs is used
  faults     \* how much of MaxFaults is used

kernel == <<src, tapped, udev, inputs>>
outputs == <<fwd, sink, failure>>
reader == <<dev, sinks, jobs, pass, incomplete, masks, torn, mode>>
vars == <<kernel, outputs, reader, faults>>

-----------------------------------------------------------------------------
(* The pieces *)

\* slipped: keys pressed between a grab's last look at them and the grab (history).
Unplugged == [plug |-> "absent", owner |-> "none", down |-> {}, desk |-> {},
              queue |-> <<>>, slipped |-> {}]
Untracked == [fd |-> "none", grabbed |-> FALSE, deferred |-> FALSE, awaited |-> {},
              foreign |-> FALSE, tail |-> FALSE, owed |-> {}, ready |-> FALSE]
\* held: what the source's outputs hold for it.  id tells a clone from earlier ones.
NoForward(id) == [open |-> FALSE, failed |-> FALSE, node |-> "none", id |-> id, held |-> {}]

\* Which source is what: a controller with a keyboard key is no keyboard.
Keyboard(s) == "keys" \in Caps[s] /\ "gamepad" \notin Caps[s]
Mouse(s) == {"buttons", "axes"} \subseteq Caps[s]
MouseHook(s) == Mouse(s) /\ "compositor" \notin Caps[s]
MouseBlock(s) == "axes" \in Caps[s] /\ Caps[s] \cap {"buttons", "compositor"} # {}

SourceNode(s) == [kind |-> "source", of |-> s, id |-> 0]
CloneNode(s) == [kind |-> "clone", of |-> s, id |-> fwd[s].id]
SinkNode == [kind |-> "sink", of |-> "sink", id |-> sink.id]

\* The node a path names now can be opened: read_device_info succeeds.
Present(n) ==
  CASE n.kind = "source" -> src[n.of].plug # "absent"
    [] n.kind = "clone" -> fwd[n.of].node # "none" /\ fwd[n.of].id = n.id
    [] OTHER -> sink.node # "none" /\ sink.id = n.id

\* The scan asks udev: initialized, and on seat0.
Admitted(n) ==
  /\ Present(n)
  /\ "ready" = CASE n.kind = "source" -> src[n.of].plug
                 [] n.kind = "clone" -> fwd[n.of].node
                 [] OTHER -> sink.node

Open(d) == d.fd \in {"open", "stale"}

\* keys that hold a grab off
Pressed(s) == src[s].down \ Contacts

-----------------------------------------------------------------------------
(* Forwarding, as the reader sees it *)

NeedsForwarding(s) ==
  \/ Keyboard(s) /\ "keyboard" \notin masks.blocks
  \/ MouseBlock(s) /\ "mouse" \notin masks.blocks

Failed(s) == ~fwd[s].open \/ fwd[s].failed

\* The newest sink generation recorded for a tracked sink node.
SinkAdmitted == sinks # {}
SinkAdmittedGeneration == Max({k.gen : k \in sinks})

Usable(s) ==
  /\ dev[s].ready /\ ~Failed(s)
  /\ Keyboard(s) => SinkAdmitted /\ sink.up /\ SinkAdmittedGeneration = sink.gen

ShouldGrab(s) ==
  \/ Keyboard(s) /\ "keyboard" \in masks.hooks \cup masks.blocks
  \/ MouseHook(s) /\ "mouse" \in masks.hooks
  \/ MouseBlock(s) /\ "mouse" \in masks.blocks

\* A plain keyboard needs no clone: the sink carries all it reports.
HasClone(s) == ~Keyboard(s) \/ Caps[s] # {"keys"}

\* ensure_forwarding over devices D for the sources in S; those in unable cannot
\* get a clone now.
Wants(D, S) ==
  {s \in S : mode.forwarding /\ Open(D[s]) /\ Failed(s) /\ (Keyboard(s) \/ MouseBlock(s))}
EnsuredForward(D, S, unable) ==
  [s \in Sources |->
    IF s \notin Wants(D, S) THEN fwd[s]
    ELSE IF s \in unable \/ D[s].fd = "stale" THEN NoForward(fwd[s].id)
    ELSE [NoForward(fwd[s].id + 1) EXCEPT !.open = TRUE,
            !.node = IF HasClone(s) THEN "raw" ELSE "none"]]
EnsureForwarding(D, S) ==
  \E unable \in SUBSET Wants(D, S) :
    /\ unable # {} => faults < MaxFaults
    /\ faults' = faults + IF unable = {} THEN 0 ELSE 1
    /\ fwd' = EnsuredForward(D, S, unable)
    /\ dev' = [s \in Sources |->
                IF s \notin Wants(D, S) THEN D[s]
                ELSE [D[s] EXCEPT !.owed = {}, !.ready = fwd'[s].open /\ ~HasClone(s)]]
    /\ tapped' = tapped \ Wants(D, S)

-----------------------------------------------------------------------------
(* Reading *)

Report(k, isDown, s) ==
  [key |-> k, down |-> isDown, seen |-> src[s].owner = "none",
   \* It arrives while the reader has already handled what was queued and is
   \* about to switch this source's grab.
   late |-> jobs # <<>> /\ Head(jobs).op = "grab" /\ Head(jobs).of = s
            /\ Head(jobs).stage \in {"grab", "release", "rerelease"}]

\* handle_input_event on what the reader keeps of one source.  A hook or
\* BlockInput decides whether a press passes; a full queue may refuse a release.
Handled(st, e, passes, refused) ==
  LET d == st.dev
      release == ~e.down /\ e.key \in d.owed /\ ~d.grabbed /\ ~refused
      awaited == IF e.key \in Contacts THEN d.awaited
                 ELSE IF e.down THEN d.awaited \cup {e.key} ELSE d.awaited \ {e.key}
      ends == d.deferred /\ awaited = {}
  IN [dev |-> [d EXCEPT !.owed = IF release THEN @ \ {e.key} ELSE @,
                        !.awaited = IF d.deferred THEN awaited ELSE @,
                        !.deferred = @ /\ ~ends],
      fwd |-> [st.fwd EXCEPT !.held =
                 IF release \/ (d.grabbed /\ ~e.down) THEN @ \ {e.key}
                 ELSE IF d.grabbed /\ e.down /\ passes /\ st.fwd.open THEN @ \cup {e.key}
                 ELSE @],
      incomplete |-> st.incomplete \/ ends]

\* drain_device_events: everything queued, under the grab state it arrived in.
\* passes are the positions of the events that the hooks let pass.
Drained(s, passes) ==
  LET after[i \in 0..Len(src[s].queue)] ==
        IF i = 0 THEN [dev |-> dev[s], fwd |-> fwd[s], incomplete |-> incomplete]
        ELSE Handled(after[i - 1], src[s].queue[i], i \in passes, FALSE)
  IN after[Len(src[s].queue)]

\* settle_ungrab_holds: releases that were refused, or taken by another program.
Settled(st, s) ==
  IF st.dev.grabbed \/ dev[s].fd = "stale" THEN st
  ELSE LET over == st.dev.owed \ src[s].down
       IN [st EXCEPT !.dev.owed = @ \ over, !.fwd.held = @ \ over]

\* close_tracked_device: the descriptor's grab ends with it.
Close(s, fd) ==
  /\ dev' = [dev EXCEPT ![s] = [Untracked EXCEPT !.fd = fd]]
  /\ fwd' = [fwd EXCEPT ![s] = NoForward(@.id)]
  /\ src' = [src EXCEPT ![s].owner = IF @ = "us" THEN "none" ELSE @, ![s].queue = <<>>]
  /\ tapped' = tapped \ {s}

\* One event of a device; a device that is gone fails its read.
Read(s) ==
  /\ mode.started /\ jobs = <<>>
  /\ \/ /\ dev[s].fd = "open" /\ src[s].queue # <<>>
        /\ \E passes, refused \in BOOLEAN :
             LET st == Handled([dev |-> dev[s], fwd |-> fwd[s], incomplete |-> incomplete],
                               Head(src[s].queue), passes, refused)
             IN /\ refused => faults < MaxFaults /\ dev[s].owed # {}
                /\ faults' = faults + IF refused THEN 1 ELSE 0
                /\ dev' = [dev EXCEPT ![s] = st.dev]
                /\ fwd' = [fwd EXCEPT ![s] = st.fwd]
                /\ incomplete' = st.incomplete
        /\ src' = [src EXCEPT ![s].queue = Tail(@)]
        /\ UNCHANGED tapped
     \/ dev[s].fd = "stale" /\ Close(s, "closed") /\ UNCHANGED <<incomplete, faults>>
  /\ UNCHANGED <<sink, sinks, failure, udev, jobs, pass, masks, torn, mode, inputs>>

-----------------------------------------------------------------------------
(* Tracking *)

SeeJob(n) == [op |-> "see", node |-> n, scan |-> TRUE]
\* A scan looks at every path there is, in some order.
ScanJobs == SetToSeq({SeeJob(SourceNode(s)) : s \in Sources}
              \cup {SeeJob(CloneNode(s)) : s \in {t \in Sources : fwd[t].node # "none"}}
              \cup (IF sink.node = "none" THEN {} ELSE {SeeJob(SinkNode)}))
GrabJob(s, within) == [op |-> "grab", of |-> s, stage |-> "enter", within |-> within]
Job(op) == jobs # <<>> /\ Head(jobs).op = op

\* The monitor receives from here on, and then the scan starts.
Start ==
  /\ ~mode.started /\ jobs = <<>>
  /\ \E monitor \in BOOLEAN :
       /\ monitor \/ faults < MaxFaults
       /\ faults' = faults + IF monitor THEN 0 ELSE 1
       /\ mode' = [mode EXCEPT !.started = TRUE, !.monitor = monitor]
  /\ udev' = <<>>
  /\ jobs' = ScanJobs
  /\ UNCHANGED <<src, tapped, inputs, outputs, dev, sinks, pass, incomplete, masks, torn>>

\* A client asked for privileged input: the synthesis devices are created, and
\* the scan registers every source for forwarding.
EnableForwarding ==
  /\ mode.started /\ ~mode.forwarding /\ jobs = <<>>
  /\ mode' = [mode EXCEPT !.forwarding = TRUE]
  /\ sink' = [sink EXCEPT !.node = "raw", !.up = TRUE]
  /\ jobs' = ScanJobs
  /\ UNCHANGED <<kernel, fwd, failure, dev, sinks, pass, incomplete, masks, torn, faults>>

\* One udev event: a node to look at, or one that is gone or left seat0.
Udev ==
  /\ mode.started /\ jobs = <<>> /\ udev # <<>>
  /\ LET n == Head(udev).node IN
     \/ /\ Head(udev).act = "add"
        /\ jobs' = <<[SeeJob(n) EXCEPT !.scan = FALSE]>>
        /\ UNCHANGED <<src, tapped, fwd, dev, sinks>>
     \/ /\ Head(udev).act = "remove" /\ n.kind = "source"
        /\ Close(n.of, "none")
        /\ UNCHANGED <<jobs, sinks>>
     \/ /\ Head(udev).act = "remove" /\ n.kind = "sink"
        /\ sinks' = {k \in sinks : k.id # n.id}
        /\ UNCHANGED <<src, tapped, fwd, dev, jobs>>
  /\ udev' = Tail(udev)
  /\ UNCHANGED <<sink, failure, pass, incomplete, masks, torn, mode, inputs, faults>>

\* A node is looked at: track_device up to the grab.  An admitted clone or sink
\* lets the grabs that waited for it be tried at once.
See ==
  /\ Job("see")
  /\ LET n == Head(jobs).node
         found == IF Head(jobs).scan THEN Admitted(n) ELSE Present(n)
     IN \/ /\ ~found /\ jobs' = Tail(jobs)
           /\ UNCHANGED <<tapped, fwd, dev, sinks, incomplete, torn, faults>>
        \/ /\ found /\ n.kind = "source"
           /\ EnsureForwarding(IF Open(dev[n.of]) THEN dev
                               ELSE [dev EXCEPT ![n.of] = [Untracked EXCEPT !.fd = "open"]],
                               {n.of})
           /\ jobs' = <<GrabJob(n.of, "track")>> \o Tail(jobs)
           /\ UNCHANGED <<sinks, incomplete, torn>>
        \/ /\ found /\ n.kind = "clone"
           /\ dev' = [dev EXCEPT ![n.of].ready = TRUE]
           /\ incomplete' = (incomplete \/ ~dev[n.of].ready)
           /\ jobs' = Tail(jobs)
           /\ UNCHANGED <<tapped, fwd, sinks, torn, faults>>
        \/ /\ found /\ n.kind = "sink"
           /\ LET new == \A k \in sinks : k.id # n.id
              IN /\ sinks' = IF new THEN sinks \cup {[id |-> n.id, gen |-> sink.gen]} ELSE sinks
                 /\ incomplete' = (incomplete \/ new)
                 /\ torn' = (torn \/ (new /\ sink.gen # n.id))
           /\ jobs' = Tail(jobs)
           /\ UNCHANGED <<tapped, fwd, dev, faults>>
  /\ UNCHANGED <<src, udev, inputs, sink, failure, pass, masks, mode>>

\* The retry registers forwarding again for every source the masks demand.
Ensure ==
  /\ Job("ensure")
  /\ EnsureForwarding(dev, {s \in Sources : ShouldGrab(s)})
  /\ jobs' = Tail(jobs)
  /\ UNCHANGED <<src, udev, inputs, sink, failure, sinks, pass, incomplete, masks, torn, mode>>

-----------------------------------------------------------------------------
(* One source's grab: set_device_grab *)

Grabbing(stage) == Job("grab") /\ Head(jobs).stage = stage
Want(j) == j.within # "fail" /\ ShouldGrab(j.of)
At(stage) == jobs' = <<[Head(jobs) EXCEPT !.stage = stage]>> \o Tail(jobs)

\* A mutant: only an error is tried again.
DoneOnlyErrors(d, failed, r, probe) ==
  /\ jobs' = Tail(jobs)
  /\ pass' = [probe |-> -1, again |-> FALSE]
  /\ incomplete' = failed

\* set_device_grab returns, and apply_grab_masks says whether to try again: d is
\* the device then, r what draining has made of grab_state_incomplete.  The last source of a pass
\* decides what grab_state_incomplete becomes.  The cached answer of the probe
\* (outputs_grabbed) is kept for one pass; a source tracked alone has its own.
Done(d, failed, r, probe) ==
  LET j == Head(jobs)
      again == failed \/ (ShouldGrab(j.of) /\ ~d.grabbed /\ Open(d))
      last == Tail(jobs) = <<>>
  IN /\ jobs' = Tail(jobs)
     /\ pass' = [probe |-> IF last THEN -1 ELSE probe,
                 again |-> j.within = "pass" /\ ~last /\ (pass.again \/ again)]
     /\ incomplete' = CASE j.within = "track" -> r \/ again
                        [] j.within = "pass" /\ last -> pass.again \/ again
                        [] OTHER -> r

Leave(s, d, failed) ==
  dev' = [dev EXCEPT ![s] = d] /\ Done(d, failed, incomplete, pass.probe) /\ UNCHANGED <<src, fwd, tapped>>

\* defer_grab_while_held on d: a key known to be down holds the grab off.
Deferred(d, s) ==
  [d EXCEPT !.deferred = d.fd = "open" /\ Pressed(s) # {},
            !.awaited = IF d.fd = "open" THEN Pressed(s) ELSE @]
Holds(s) == dev[s].fd = "stale" \/ Pressed(s) # {}

\* The outputs are looked at, and the keys for the first time.
TryGrab(s) ==
  \/ /\ NeedsForwarding(s) /\ ~Usable(s)
     /\ Leave(s, dev[s], Failed(s))
  \/ /\ ~NeedsForwarding(s) \/ Usable(s)
     /\ Holds(s) /\ Leave(s, Deferred(dev[s], s), FALSE)
  \/ /\ ~NeedsForwarding(s) \/ Usable(s)
     /\ ~Holds(s) /\ At("probe")
     /\ dev' = [dev EXCEPT ![s] = Deferred(@, s)]
     /\ UNCHANGED <<src, fwd, tapped, incomplete, pass>>

\* Reading a device that is gone closes it in the middle of its grab's change.
GoneWhileDrained(s, failed) ==
  /\ dev[s].fd = "stale"
  /\ Close(s, "closed") /\ Done(Untracked, failed, incomplete, pass.probe)

\* What is queued is handled before the grab state changes.
DrainFirst(s, stage) ==
  \/ /\ dev[s].fd = "open" /\ At(stage)
     /\ \E passes \in SUBSET (1..Len(src[s].queue)) :
          LET st == Drained(s, passes)
          IN /\ dev' = [dev EXCEPT ![s] = st.dev]
             /\ fwd' = [fwd EXCEPT ![s] = st.fwd]
             /\ incomplete' = st.incomplete
     /\ src' = [src EXCEPT ![s].queue = <<>>]
     /\ UNCHANGED <<pass, tapped>>
  \/ GoneWhileDrained(s, stage = "rerelease")

EnterGrab ==
  /\ Grabbing("enter")
  /\ LET j == Head(jobs)
         s == j.of
         d == dev[s]
         works == ~NeedsForwarding(s) \/ Usable(s)
     IN \/ ~Open(d) /\ Leave(s, [d EXCEPT !.deferred = FALSE], FALSE)
        \/ Open(d) /\ d.grabbed /\ Want(j) /\ works /\ Leave(s, d, FALSE)
        \/ Open(d) /\ d.grabbed /\ Want(j) /\ ~works /\ DrainFirst(s, "rerelease")
        \/ Open(d) /\ d.grabbed /\ ~Want(j) /\ DrainFirst(s, "release")
        \/ /\ Open(d) /\ ~d.grabbed /\ ~Want(j)
           /\ Leave(s, [d EXCEPT !.deferred = FALSE, !.tail = FALSE, !.foreign = FALSE], FALSE)
        \/ Open(d) /\ ~d.grabbed /\ Want(j) /\ TryGrab(s)
  /\ UNCHANGED <<udev, inputs, sink, failure, sinks, masks, torn, mode, faults>>

\* After a grab whose outputs stopped working was let go.
Regrab ==
  /\ Grabbing("regrab")
  /\ TryGrab(Head(jobs).of)
  /\ UNCHANGED <<udev, inputs, sink, failure, sinks, masks, torn, mode, faults>>

\* Another process holds an output that carries our traffic.
OutputTapped ==
  \/ SinkAdmitted /\ "sink" \in tapped
  \/ \E t \in Sources : HasClone(t) /\ dev[t].ready /\ dev[t].grabbed /\ t \in tapped

\* grab_would_feed_downstream: our outputs are probed once per pass, this source's
\* own clone now.  A source another interceptor holds is tried without it.
Probe ==
  /\ Grabbing("probe")
  /\ LET s == Head(jobs).of
         probe == IF dev[s].foreign \/ pass.probe # -1 THEN pass.probe
                  ELSE IF OutputTapped THEN 1 ELSE 0
         feeds == ~dev[s].foreign /\ (probe = 1 \/ (HasClone(s) /\ dev[s].ready /\ s \in tapped))
     IN \/ /\ feeds
           /\ dev' = [dev EXCEPT ![s].tail = TRUE]
           /\ Done(dev'[s], FALSE, incomplete, probe)
        \/ /\ ~feeds
           /\ At("settle")
           /\ pass' = [pass EXCEPT !.probe = probe]
           /\ UNCHANGED <<dev, incomplete>>
  /\ UNCHANGED <<kernel, outputs, sinks, masks, torn, mode, faults>>

\* A mutant: the keys are not looked at again after the probe.
SettleWithoutLook ==
  /\ Grabbing("settle")
  /\ LET s == Head(jobs).of
         st == Settled(Drained(s, {}), s)
     IN /\ dev' = [dev EXCEPT ![s] = st.dev]
        /\ fwd' = [fwd EXCEPT ![s] = st.fwd]
        /\ At("grab")
        /\ incomplete' = st.incomplete
        /\ src' = [src EXCEPT ![s].queue = <<>>, ![s].slipped = @ \cap src[s].desk]
        /\ UNCHANGED pass
  /\ UNCHANGED <<tapped, udev, inputs, sink, failure, sinks, masks, torn, mode, faults>>

\* A mutant: what is queued is left for the grab.
SettleWithoutDrain ==
  /\ Grabbing("settle")
  /\ LET s == Head(jobs).of
         d == Deferred(dev[s], s)
     IN /\ dev' = [dev EXCEPT ![s] = d]
        /\ IF Holds(s) \/ d.owed # {}
           THEN Done(d, FALSE, incomplete, pass.probe) /\ UNCHANGED src
           ELSE /\ At("grab")
                /\ src' = [src EXCEPT ![s].slipped = @ \cap src[s].desk]
                /\ UNCHANGED <<pass, incomplete>>
  /\ UNCHANGED <<fwd, tapped, udev, inputs, sink, failure, sinks, masks, torn, mode, faults>>

\* The probe is slow: queued input already reached the desktop, a key pressed
\* meanwhile holds the grab off, and owed releases go out first.
Settle ==
  /\ Grabbing("settle")
  /\ LET s == Head(jobs).of
         st == Settled(Drained(s, {}), s)
         d == Deferred(st.dev, s)
     IN \/ GoneWhileDrained(s, FALSE)
        \/ /\ dev[s].fd = "open"
           /\ dev' = [dev EXCEPT ![s] = d]
           /\ fwd' = [fwd EXCEPT ![s] = st.fwd]
           /\ IF Pressed(s) # {} \/ d.owed # {}
              THEN /\ Done(d, FALSE, st.incomplete, pass.probe)
                   /\ src' = [src EXCEPT ![s].queue = <<>>]
              ELSE /\ At("grab")
                   /\ incomplete' = st.incomplete
                   /\ src' = [src EXCEPT ![s].queue = <<>>, ![s].slipped = @ \cap src[s].desk]
                   /\ UNCHANGED pass
           /\ UNCHANGED tapped
  /\ UNCHANGED <<udev, inputs, sink, failure, sinks, masks, torn, mode, faults>>

\* EVIOCGRAB(on): refused for a source that is gone, or that another holds.
Grab ==
  /\ Grabbing("grab")
  /\ LET s == Head(jobs).of
         works == dev[s].fd = "open" /\ src[s].owner = "none"
         d == [dev[s] EXCEPT !.grabbed = works, !.tail = @ /\ ~works,
                 !.foreign = dev[s].fd = "open" /\ src[s].owner = "other"]
     IN /\ dev' = [dev EXCEPT ![s] = d]
        /\ src' = [src EXCEPT ![s].owner = IF works THEN "us" ELSE @]
        /\ Done(d, ~works, incomplete, pass.probe)
  /\ UNCHANGED <<outputs, tapped, udev, inputs, sinks, masks, torn, mode, faults>>

\* EVIOCGRAB(off): the outputs keep what the source holds until it releases it.
\* When it fails, closing the descriptor releases the source.
Release ==
  /\ Grabbing("release") \/ Grabbing("rerelease")
  /\ LET s == Head(jobs).of
         d == [dev[s] EXCEPT !.grabbed = FALSE, !.deferred = FALSE, !.tail = FALSE,
                 !.foreign = FALSE, !.owed = fwd[s].held]
     IN \/ /\ dev[s].fd = "open"
           /\ src' = [src EXCEPT ![s].owner = "none"]
           /\ dev' = [dev EXCEPT ![s] = d]
           /\ IF Head(jobs).stage = "release" THEN Done(d, FALSE, incomplete, pass.probe)
              ELSE At("regrab") /\ UNCHANGED <<incomplete, pass>>
           /\ UNCHANGED <<fwd, tapped, faults>>
        \/ /\ dev[s].fd = "stale" \/ faults < MaxFaults
           /\ faults' = faults + IF dev[s].fd = "stale" THEN 0 ELSE 1
           /\ Close(s, "closed")
           /\ Done(Untracked, TRUE, incomplete, pass.probe)
  /\ UNCHANGED <<udev, inputs, sink, failure, sinks, masks, torn, mode>>

-----------------------------------------------------------------------------
(* The masks and the periodic retry *)

PassJobs == SetToSeq({GrabJob(s, "pass") : s \in Sources})

\* set_grab_masks, for new hook and BlockInput demand.
SetMasks(demand) ==
  /\ mode.started /\ mode.forwarding /\ jobs = <<>> /\ inputs < MaxInputs
  /\ masks # demand
  /\ masks' = demand
  /\ jobs' = PassJobs
  /\ inputs' = inputs + 1
  /\ UNCHANGED <<src, tapped, udev, outputs, dev, sinks, pass, incomplete, torn, mode, faults>>

SettledAll == [s \in Sources |-> Settled([dev |-> dev[s], fwd |-> fwd[s]], s)]

\* ksi_linux_devices_retry_incomplete_grabs: the main loop calls it all the time;
\* the calls that find nothing to do are left out, and
\* so is the rate limit, as its interval may have passed at any time.
Retry ==
  /\ mode.started /\ jobs = <<>>
  /\ \/ failure \/ incomplete
     \/ \E s \in Sources : Open(dev[s]) /\ SettledAll[s].dev # dev[s]
  /\ dev' = [s \in Sources |-> SettledAll[s].dev]
  /\ fwd' = [s \in Sources |-> SettledAll[s].fwd]
  /\ failure' = FALSE
  /\ jobs' = (IF failure THEN SetToSeq({[op |-> "fail", of |-> s] : s \in Sources}) ELSE <<>>)
             \o <<[op |-> "gate"]>>
  /\ UNCHANGED <<kernel, sink, sinks, pass, incomplete, masks, torn, mode, faults>>

\* A mutant: only a failed clone fails its source open.
FailOpenCloneOnly ==
  /\ Job("fail")
  /\ LET s == Head(jobs).of
         dead == fwd[s].open /\ fwd[s].failed
     IN /\ jobs' = (IF dead /\ dev[s].grabbed THEN <<GrabJob(s, "fail")>> ELSE <<>>)
                   \o (IF dead THEN <<[op |-> "retire", of |-> s]>> ELSE <<>>)
                   \o Tail(jobs)
        /\ incomplete' = (incomplete \/ dead)
  /\ UNCHANGED <<kernel, outputs, dev, sinks, pass, masks, torn, mode, faults>>

\* A failed clone is replaced; a source whose outputs are dead fails open.
FailOpen ==
  /\ Job("fail")
  /\ LET s == Head(jobs).of
         cloneFailed == fwd[s].open /\ fwd[s].failed
         dead == cloneFailed \/ (dev[s].grabbed /\ NeedsForwarding(s) /\ ~Usable(s))
     IN /\ jobs' = (IF dead /\ dev[s].grabbed THEN <<GrabJob(s, "fail")>> ELSE <<>>)
                   \o (IF cloneFailed THEN <<[op |-> "retire", of |-> s]>> ELSE <<>>)
                   \o Tail(jobs)
        /\ incomplete' = (incomplete \/ dead)
  /\ UNCHANGED <<kernel, outputs, dev, sinks, pass, masks, torn, mode, faults>>

\* close_forwarding_device
Retire ==
  /\ Job("retire")
  /\ LET s == Head(jobs).of
     IN /\ fwd' = [fwd EXCEPT ![s] = NoForward(@.id)]
        /\ dev' = [dev EXCEPT ![s].owed = {}, ![s].ready = FALSE]
        /\ tapped' = tapped \ {s}
  /\ jobs' = Tail(jobs)
  /\ UNCHANGED <<src, udev, inputs, sink, failure, sinks, pass, incomplete, masks, torn, mode, faults>>

\* Without a monitor only a rescan finds initialized outputs.  Retries are at most
\* one per KSI_GRAB_RETRY_INTERVAL_MS in the code, any time apart here.
Gate ==
  /\ Job("gate")
  /\ jobs' = IF ~incomplete THEN <<>>
             ELSE (IF mode.forwarding /\ ~mode.monitor THEN ScanJobs ELSE <<>>)
                  \o <<[op |-> "ensure"]>> \o PassJobs
  /\ UNCHANGED <<kernel, outputs, dev, sinks, pass, incomplete, masks, torn, mode, faults>>

\* ksi_linux_devices_stop
Stop ==
  /\ mode.started /\ jobs = <<>> /\ inputs = MaxInputs
  /\ dev' = [s \in Sources |-> Untracked]
  /\ fwd' = [s \in Sources |-> NoForward(fwd[s].id)]
  /\ src' = [s \in Sources |-> [src[s] EXCEPT !.owner = IF @ = "us" THEN "none" ELSE @,
                                             !.queue = <<>>]]
  /\ tapped' = tapped \cap {"sink"} /\ sinks' = {} /\ udev' = <<>>
  /\ mode' = [mode EXCEPT !.started = FALSE, !.forwarding = FALSE]
  /\ jobs' = <<[op |-> "stopped"]>>
  /\ UNCHANGED <<sink, failure, pass, incomplete, masks, torn, inputs, faults>>

-----------------------------------------------------------------------------
(* The world outside the reader *)

Input == inputs < MaxInputs /\ inputs' = inputs + 1
Fault == faults < MaxFaults /\ faults' = faults + 1

\* The monitor's socket exists once the reader has started.
Announce(act, n) ==
  udev' = IF mode.started /\ mode.monitor THEN Append(udev, [act |-> act, node |-> n]) ELSE udev

Plug(s) ==
  /\ src[s].plug = "absent" /\ Input
  /\ src' = [src EXCEPT ![s].plug = "raw"]
  /\ UNCHANGED <<tapped, udev, outputs, reader, faults>>

Initialized(s) ==
  /\ src[s].plug = "raw"
  /\ src' = [src EXCEPT ![s].plug = "ready"]
  /\ Announce("add", SourceNode(s))
  /\ UNCHANGED <<tapped, inputs, outputs, reader, faults>>

CloneInitialized(s) ==
  /\ fwd[s].node = "raw"
  /\ fwd' = [fwd EXCEPT ![s].node = "ready"]
  /\ Announce("add", CloneNode(s))
  /\ UNCHANGED <<src, tapped, inputs, sink, failure, reader, faults>>

SinkInitialized ==
  /\ sink.node = "raw"
  /\ sink' = [sink EXCEPT !.node = "ready"]
  /\ Announce("add", SinkNode)
  /\ UNCHANGED <<src, tapped, inputs, fwd, failure, reader, faults>>

\* An unplugged device releases its keys and fails its reader; a device that
\* moves to another seat stays open until the reader hears of it.
Unplug(s) ==
  /\ src[s].plug # "absent" /\ Input
  /\ src' = [src EXCEPT ![s] = Unplugged]
  /\ dev' = [dev EXCEPT ![s].fd = IF @ = "open" THEN "stale" ELSE @]
  /\ IF src[s].plug = "raw" THEN UNCHANGED udev ELSE Announce("remove", SourceNode(s))
  /\ UNCHANGED <<tapped, outputs, sinks, jobs, pass, incomplete, masks, torn, mode, faults>>

Reseat(s) ==
  /\ src[s].plug = "ready" /\ Input
  /\ src' = [src EXCEPT ![s].plug = "away"]
  /\ Announce("remove", SourceNode(s))
  /\ UNCHANGED <<tapped, outputs, reader, faults>>

\* A press or a release: to the desktop unless the source is grabbed, and to the
\* reader unless another program grabbed it.
Key(s, k) ==
  /\ src[s].plug # "absent" /\ Len(src[s].queue) < Queue
  /\ k \notin src[s].down => inputs < MaxInputs
  /\ inputs' = inputs + IF k \in src[s].down THEN 0 ELSE 1
  /\ LET press == k \notin src[s].down
         e == Report(k, press, s)
         flip(keys) == IF press THEN keys \cup {k} ELSE keys \ {k}
     IN src' = [src EXCEPT ![s].down = flip(@),
                  ![s].desk = IF e.seen THEN flip(@) ELSE @,
                  ![s].queue = IF dev[s].fd = "open" /\ src[s].owner # "other"
                               THEN Append(@, e) ELSE @,
                  ![s].slipped = IF e.late /\ press THEN @ \cup {k} ELSE @]
  /\ UNCHANGED <<tapped, udev, outputs, reader, faults>>

\* Another interceptor takes a source, or lets it go.  What its grab leaves
\* pressed on the desktop is not ours to release.
Foreign(s) ==
  /\ src[s].plug # "absent"
  /\ \/ /\ src[s].owner = "none" /\ Input
        /\ src' = [src EXCEPT ![s].owner = "other", ![s].desk = {}]
     \/ src[s].owner = "other" /\ src' = [src EXCEPT ![s].owner = "none"] /\ UNCHANGED inputs
  /\ UNCHANGED <<tapped, udev, outputs, reader, faults>>

\* ... or one of our outputs.
Tap(o) ==
  /\ \/ o = "sink" /\ sink.node # "none"
     \/ o \in Sources /\ fwd[o].node # "none"
  /\ \/ o \notin tapped /\ Input /\ tapped' = tapped \cup {o}
     \/ o \in tapped /\ tapped' = tapped \ {o} /\ UNCHANGED inputs
  /\ UNCHANGED <<src, udev, outputs, reader, faults>>

\* A write by the sequencer fails.
CloneFails(s) ==
  /\ fwd[s].node # "none" /\ ~fwd[s].failed /\ Fault
  /\ fwd' = [fwd EXCEPT ![s].failed = TRUE]
  /\ failure' = TRUE
  /\ UNCHANGED <<kernel, sink, reader>>

SinkFails ==
  /\ sink.up /\ Fault
  /\ sink' = [sink EXCEPT !.up = FALSE]
  /\ failure' = TRUE
  /\ UNCHANGED <<kernel, fwd, reader>>

\* The sequencer recreates the synthesis devices.  Detaching advances the
\* generation before it tells the reader.
Detach ==
  /\ sink.node # "none" /\ sink.gen = sink.id /\ Input
  /\ sink' = [sink EXCEPT !.gen = @ + 1]
  /\ failure' = TRUE
  /\ UNCHANGED <<src, tapped, udev, fwd, reader, faults>>

Destroy ==
  /\ sink.node # "none" /\ sink.gen # sink.id
  /\ sink' = [sink EXCEPT !.node = "none", !.up = FALSE]
  /\ IF sink.node = "ready" THEN Announce("remove", SinkNode) ELSE UNCHANGED udev
  /\ tapped' = tapped \ {"sink"}
  /\ UNCHANGED <<src, inputs, fwd, failure, reader, faults>>

Recreate ==
  /\ sink.node = "none" /\ sink.gen > 0 /\ mode.forwarding
  /\ sink' = [sink EXCEPT !.node = "raw", !.up = TRUE, !.id = sink.gen]
  /\ UNCHANGED <<kernel, fwd, failure, reader, faults>>

-----------------------------------------------------------------------------

Init ==
  /\ src \in [Sources -> {Unplugged, [Unplugged EXCEPT !.plug = "ready"]}]
  /\ dev = [s \in Sources |-> Untracked]
  /\ fwd = [s \in Sources |-> NoForward(0)]
  /\ sink = [gen |-> 0, id |-> 0, node |-> "none", up |-> FALSE]
  /\ sinks = {} /\ torn = FALSE /\ failure = FALSE /\ tapped = {} /\ udev = <<>> /\ jobs = <<>>
  /\ pass = [probe |-> -1, again |-> FALSE]
  /\ incomplete = FALSE
  /\ masks = NoDemand
  /\ mode = [started |-> FALSE, monitor |-> FALSE, forwarding |-> FALSE]
  /\ inputs = 0 /\ faults = 0

Step == See \/ Ensure \/ EnterGrab \/ Regrab \/ Probe \/ Settle \/ Grab \/ Release
        \/ FailOpen \/ Retire \/ Gate

Initialize == SinkInitialized \/ \E s \in Sources : Initialized(s) \/ CloneInitialized(s)

Next ==
  \/ Start \/ EnableForwarding \/ Udev \/ Retry \/ Stop \/ Step \/ Initialize
  \/ SinkFails \/ Detach \/ Destroy \/ Recreate
  \/ \E demand \in Demands : SetMasks(demand)
  \/ \E o \in Sources \cup {"sink"} : Tap(o)
  \/ \E s \in Sources :
       \/ Read(s) \/ Plug(s) \/ Unplug(s) \/ Reseat(s) \/ Foreign(s) \/ CloneFails(s)
       \/ \E k \in Keys : Key(s, k)

Spec == Init /\ [][Next]_vars

-----------------------------------------------------------------------------
(* Properties *)

\* A grab never leaves the desktop holding a key the source pressed before it,
\* except one pressed after set_device_grab's last look at the keys: a press
\* during the probe, or under another grab, holds the grab off.  A grab of a
\* source that is gone is no grab of the one plugged in after it.
NothingLeftPressed ==
  \A s \in Sources :
    dev[s].fd = "open" /\ dev[s].grabbed => src[s].desk \ Contacts \subseteq src[s].slipped

\* drain_device_events before every switch: a queued report is handled under the
\* grab state it arrived in, so the desktop gets it once, from the source or from
\* our outputs.  Only one that arrives between the drain and the switch is not.
HandledAsArrived ==
  \A s \in Sources : \A i \in 1..Len(src[s].queue) :
    LET e == src[s].queue[i] IN e.late \/ e.seen = ~dev[s].grabbed

\* Whatever happens to the outputs, and whenever, a source that is grabbed and
\* needs outputs that do not work is going to be looked at again.
FailsOpen ==
  \A s \in Sources :
    jobs = <<>> /\ dev[s].grabbed /\ NeedsForwarding(s) /\ ~Usable(s)
      => failure \/ incomplete \/ torn

\* Nothing stands in the way of the grab of s.
Able(s) ==
  /\ mode.started /\ mode.monitor /\ mode.forwarding /\ ShouldGrab(s)
  /\ src[s].plug = "ready" /\ src[s].owner # "other" /\ Pressed(s) = {}
  /\ tapped = {} /\ sink.up /\ sink.gen = sink.id
  /\ dev[s].fd # "closed"

\* A source that is demanded, that nothing keeps from being grabbed and that is
\* not grabbed is not forgotten: a retry is due, or an event will reach the
\* reader.  No device is missed between the monitor and the scan, and no
\* admission, end of a deferral or failed attempt is lost.
NotForgotten ==
  \A s \in Sources :
    jobs = <<>> /\ Able(s) /\ ~dev[s].grabbed =>
      failure \/ incomplete \/ udev # <<>>
=============================================================================
