# TLA+ verification of keysharp-input

keysharp-input is a Linux daemon that gives client scripts Windows-style
low-level keyboard and mouse hooks, SendInput synthesis and passive
observation.  This directory models its daemon core in TLA+, checks the
models with TLC and proves the central theorems with TLAPS.  Paths are those
of the repository; `daemon/`, `platform/` stand for `src/daemon/`,
`src/platform/`.

## 1. Inventory

Threads: one **main thread** owns clients, subscriptions, grabs and the
protocol; a **keyboard lane** and a **mouse lane** thread each take one event
at a time through the subscribed clients; one **output sequencer** writes
everything to uinput; **worker pools** identify clients and ask for
permissions.  They share bounded queues, a few atomics and one reference-counted
**callback stream** object per client.  Scripts reach the daemon through the
**client library**.

| Component | State | Operations | Must be right |
|---|---|---|---|
| callback stream, `connection_ref.c` | call stack of at most 64 frames, FIFO of waiting turns, pump flag per frame, valid flag, condition variable | wait for a turn, complete, begin/end pump, invalidate | callbacks of a script are serial, frames nest, no wakeup is lost, the main thread is not blocked for ever |
| hook lanes, `daemon/hook_lanes.inc`, `hook_dispatch.inc` | event queue, decision slot, current event and responder, flush generation | dispatch, call, take a decision, give a callback up, emit | a decision is applied to the event it was made for; order of transitions; every event leaves |
| recursive Sends, `daemon/hook_lanes.inc`, `daemon/protocol_server.inc` | the lane's stack of events and transactions, its saved context, the command ring | admit, run, cancel, fail open, answer | a Send plays whole and in order, and is answered to the callback that made it |
| failure accounting, `daemon/grab_leases.inc` | strikes, quarantine and retry time per client and hook | record, rearm, fail open | a quarantined hook is not called and is rearmed |
| pipe ring, `pipe_ring.c`, `wake_pipe.c` | circular buffer, wake pipe | push with reserve, pop, wake, drain | bounded FIFO, no missed wakeup |
| output queue and sequencer, `daemon/hook_lanes.inc` | circular queue, owners, in-flight action | admit, discard, pop, write | former owners write nothing; two key-state views agree |
| holds ledger, `platform/linux_synth.c` | claims (owner, keys) in two views | press, release, release by owner, target, all | what ends, ends exactly its own holds |
| synthetic hook queue, `daemon/hook_ingress.inc` | queue of batch nodes and release markers, in-flight flags | push, ingress, abort | batches play whole; releases come last |
| synthetic completions, `daemon/hook_lanes.inc` | parts left, terminal status | create, finish one | exactly one reply |
| seat owner, `daemon.c`, `active_session.c` | uid, valid flag, generation | change | fences between users |
| grabs and leases, `daemon/grab_leases.inc` | grab mask, owned hook classes, leases | update, clear, fail open | nothing stays grabbed for nobody |
| permissions, `daemon/permission_*.inc`, `privilege_workers.inc` | permission generation, pending tasks | identify, prompt, check, refresh, revoke | no grant crosses a revoke |
| observers, `daemon/observers.inc` | bounded queue and lost count per client | publish, discard, flush | losses counted once, reported in order |
| worker pool, `worker_pool.c` | job ring, active count, stopping flag | submit, run, stop, join, destroy | every job runs or is destroyed once |
| device tracking, `platform/linux_devices.c` | tracked devices, grab masks, held keys per source, pending retries | discover, filter, open, grab, drain, ungrab, retry | a grab strands no key, is never forgotten, fails open with its outputs |
| ingest, `platform/linux_devices.c` | pending motion and scan code, lanes owed a SYN, raw holds | read, look ahead, dispatch, forward, recover from an overflow | order within a report; every lane gets its end |
| forwarding, `platform/linux_forward.c`, `linux_output.c` | sources in slots, targets, keys per view, sink claims, displaced holds | open, forward, end a grab, close, claim | a grabbed key's release reaches the desktop; views agree |
| protocol server and codec, `daemon/protocol_server.inc`, `ipc_unix.c`, `protocol_codec.c` | rx buffers, client table | decode, dispatch, reply | framing; every handler above |
| client library, `client.c` | partial frame, message buffers, grants, call nesting | request, nested handler, `*_next`, reply | the stream stays in step; nothing is lost uncounted |
| expansion and tables, `synthetic_hooks.c`, `vk_evdev.c` | none | pure functions | match their definition |
| command line, files, packaging | none that steps change | - | - |

What is hard: lanes, sequencer and main thread take each mutex for one short
section and handlers take it several times, so every handler can be cut in the
middle; callbacks re-enter the daemon while a lane waits for them; a deadline
races the reply it waits for; connections, hooks, seats and devices disappear
with their output still queued; queues are bounded and cleanup needs room in
them.  `PROJECT.json` lists each such hazard at its line.

## 2. Modules and the code they model

### CallStack

`connection_ref.c`: one callback stream with its lanes and the main thread.
`calls`, `depth` and `waiters` are the fields of `ksi_hook_send_ref`;
`RequestTurn`, `RetryTurn`, `LeaveQueue`, `CompleteTurn` are
`hook_send_ref_wait_event_turn` and `hook_send_ref_complete_event`,
`BeginPump`/`EndPump`/`EndPumpWake` a nested Send and its answer,
`Invalidate`/`InvalidateBroadcast` the two steps of
`hook_send_ref_invalidate`.  The condition variable is explicit: a sleeper
takes no step until a broadcast.

### HookLane

`hook_lanes.inc`, `hook_dispatch.inc`, the reply handler of
`protocol_server.inc` and the failure accounting of `grab_leases.inc`: one
lane, several clients.  The lane's `pc` goes through pop, next subscriber,
turn, send, wait, give up, finish.  A reply takes the main thread two steps
(compare, push), giving up takes the lane three (retire, clear the responder,
mark the stream).  Disturbances - a failed write, panic, seat change,
revocation, a full output queue, a close - are bounded by `MaxTrouble`.  The
turn on the stream is CallStack's subject; here it ends either way.  Events
nested in a callback are left to NestedSends; the properties checked and proved
here are about physical events, which pass the lane one after the other.

### NestedSends

The Sends a script makes from inside its callbacks.  While the lane waits for a
decision it runs them: each input is an event that goes through the hooks, the
sender's own included, and may cause further Sends.  `lane` is therefore a stack
of `lane_process_event` and `lane_process_nested_transaction` frames; `at` are
the atomics `current_event_id`, `current_responder_connection_id` and
`current_nesting_depth`, saved by `Enter` and put back by `Leave`.  `HandleSend`
and `QueueSend` are `handle_synthesize_input` before and after
`hook_send_ref_begin_pump`, `LaneNest` to `LaneComplete` the transaction,
`AckSend` its answer.  The client is `client.c`: `running[c]` is its nest of
handlers and `wait_response` calls, `Read` what it does with a frame.  It is
otherwise any client that keeps the protocol, answers innermost first and may
be slow.  An ordinary batch, sent when no callback is current, is only answered
(`AnswerOutside`).  What becomes of physical output is in HookLane, a full nested
queue and exhausted memory in CallStack.

### PipeRing and Fifo

`pipe_ring.c` with its consumer's poll loop.  `Push` is the critical section,
the wake byte a later step of its own; the pipe is bounded, a write to a full
one is dropped.  `Fifo` is what callers rely on; PipeRing implements it under
the mapping of the ring's cells, from the head, to a sequence (`Contents`).

### OutputQueue

The output queue, its sequencer, the synthetic hook queue and the ledger of
holds.  `enqueued` and `applied` are the ledger's ENQUEUED and APPLIED views;
`Effect` is what an action does to either.  A handler of the main thread that
takes the queue's mutex several times leaves its remaining critical sections
in `todo`: lane and sequencer steps come between them.

| Handler | Action | Sections in `todo` |
|---|---|---|
| `add_client` | `Connect` | - |
| `handle_hook_subscription` | `Subscribe`, `Unsubscribe` | sync owners, grab, class, then release the hook |
| `record_client_hook_failure` | `Quarantine` | sync owners, release the hook |
| `remove_client` | `Disconnect` | sync owners, grab, class, marker |
| `set_active_input_owner` | `ChangeSeat` | flush, wait for the write, grabs, discard, RELEASE_ALL, publish the owner, grabs |
| `fence_permission_output` | `FencePermissions` | flush, discard, RELEASE_ALL, grabs |
| `apply_fail_open_if_requested` | `FailOpen` | flush, grabs |

`Send`, `SendNested`, `Ingress` and `Physical` bring input in; `Decide`,
`EmitModify`, `EmitEgress`, `EmitCleanup` are a lane's outcome, `RunNested` and
`FinishNested` a callback's recursive transaction; `Pop`, `BeginWrite`,
`EndWrite` the sequencer, cut before and after its generation check.

Abstractions: a batch is one key transition; one source, one lane and one hook
class; a hook's decision is any of pass, block and modify of a live
subscriber.  The clones' own keys, displaced holds, the byte limit and
the claim table's limit, readiness of operations (a Send may be admitted while
devices are gone) and a failed grab are left out.  `refused` remembers that
some cleanup found the queue full; the code only reports that or fails open,
and the properties about holds say nothing after it.  `overtaken` remembers the
connections whose release went ahead of their batches because the synthetic
queue had no room for the marker.  Two calls at the end of
`record_client_hook_failure` are not part of `Quarantine`: the grab update, and
the disconnection at the fifth strike, which is `Disconnect`.

### Client

`client.c`: one connection, one thread.  `stack` holds the nested calls
(requests, `*_next`, the application's handler), `rx` the header of a frame
whose payload is still to come.  Every call of the API is an action that pushes
its frame; `ReadHeader`, `HandleEvent`, `HandleHook`, `HandleResponse`,
`Timeout` and `Closed` are the read loops below it.  The service is the
environment (`Answer`, `ListEntry`, `Notify`, `ServiceClose`): what it sends is
what the daemon sends to that role, delivered in parts (`Arrive`).  The numbers
of keyboard records may skip (`MaxSkip`), as they do when
`publish_keyboard_states` passes over a client that does not own the seat.  What
the service sends decodes: the failures of decoders, which end the connection,
are left out.

### Forward

`linux_forward.c` with the part of the reader, the lanes and the sequencer that
drives it.  `fwd` is the module's static state: slots with their keys, targets
and open reports in the admitted (`enq`) and written (`app`) view, and the
sink's claims.  An action is one critical section; the end of a grab and the
close of a source are queued, or forced when the queue is full.

### Devices

`linux_devices.c`, discovery and grabs.  A handler of the reader is a list of
`jobs`, and looking at a node or switching a grab takes several steps, between
which the kernel, udev, other interceptors, the sequencer and the user act
(`Plug`, `Key`, `Foreign`, `Tap`, `Detach`, `Recreate`, ...).  `src` is what
the kernel knows of a source, including what the desktop believes pressed
(`desk`); `dev` the `tracked_devices` entry.  Forwarding is reduced to what the
outputs hold for the source and whether they work.  The rate limit of
`ksi_linux_devices_retry_incomplete_grabs` and the reset of `outputs_grabbed`
between jobs are left out: a pass may come at any time and look afresh.

### Ingest

`linux_devices.c` from `read_device_events` down: one source's events become
hook events, forwarded fragments, frame ends and raw passthrough.  `Handle` is
`handle_input_event` with all it dispatches; `Overflow`, `EndPass` and
`PeekOldest` are where evdev, the budget and the look-ahead cut a report.  A
grab is taken in two steps with the window of EVIOCGRAB between them, after
`settle_ungrab_holds`; a release after an ungrab may be refused by the output
queue and then stays owed.  SYN_MT_REPORT, and the codes that a hook device
sends past the hooks, are not among the events.

### WorkerPool and Authorization

`WorkerPool` is `worker_pool.c` as operators on a record: jobs and how many
threads wait, are awake, run and have left.  `Authorization` runs the daemon's
three pools and what they are for.  The main thread's handlers are functions
from its state `d` to the next (`BeginAuthorization`, `IdentifyDone`,
`CheckDone`, `PromptDone`, `RevokeDone`, `RefreshDone`, `FailOpen`), applied by
one action each; a worker's task goes through its stages as separate actions
(`Check`, `PromptRead`, `PromptAnswered`, `PromptWrite`, ...), with the
cancellation test of each stage.  A generation is kept as the set of tasks that
are still of the current one (`fresh`).  `Advance` takes it from every task in
flight; `FreeAll` and `RemoveClients` drop all their references at once.  The
permission store, inotify and polkit are external.  A SESSION_REVOKED whose
write fails, and the `_exit` when lanes miss their deadline at shutdown, are
left out.

## 3. Runs

Twelve TLC runs, each at most about three and a half minutes with two workers;
the last finds a violation, reported in section 5.

| Run | Instance | Shows |
|---|---|---|
| call_stack | 2 lanes, 3 turns, depth 2 | `Serialised`, `NoLostWakeup`, `ResumeOnTop`, and `EndPumpReturns` under fairness |
| hook_lane | 1 client, 3 events of both kinds, all decisions, 1 disturbance | `Attributed`, `LateOnlyWhenBehind`, `TransitionOrder`, and `EventsFinish` under fairness |
| nested_sends | 1 client, 1 event, 2 Sends of 2 inputs, depth 2, 1 disturbance | `SendWhole` (with `MembersInOrder`, `NothingLost`, `AnswerToCome`), `StreamsKept` |
| pipe_ring | 2 producers, 2 items, 3 cells, 5 calls, pipe of 2 bytes | `NoMissedWake`, `ImplementsFifo`, and `Delivered` under fairness |
| output_queue | 1 connection, 2 inputs, 1 disturbance, queue of 4 | `ViewsAgree`, `ClosedHoldsNothing`, `SourceHoldsEnd`, `RevokedHoldsNothing` |
| output_queue_seat | 2 users, 1 connection, 1 input, 1 disturbance, such as a seat change | `NothingForeign`, and `HoldsReleased` under fairness |
| client | every role, buffers of 1, 3 calls nesting 1 deep, 3 frames of the service, numbers that skip by 1 | `StreamInSync`, `GrantsAgree`, `DeltaFollows` |
| forward | 2 keyboards sharing a key, one with a clone, 4 inputs, 1 failing write, queue of 2 | `OutputsAgree`, `NoStuckKey`, `ReportsEnd`, `OwnSlotOnly` |
| devices | a keyboard that is a mouse, 3 acts of the environment, 1 failure | `NothingLeftPressed`, `HandledAsArrived`, `FailsOpen`, `NotForgotten` |
| ingest | 3 kinds of source, 7 reports, 3 of them sent, 1 overflow, 3 grab or block changes | `LanesGetTheirEnd`, `InOrder`, `RawHoldsEnd` |
| authorization | 1 lease client, 1 control client, 1 request, pools of 2 threads, 2 disturbances | `StaleGrantsKnown`, `RevokeWins`, `NoJobForgotten`, `RefsBalanced`, and `RevocationLands`, `AuthorizationEnds`, `ShutdownEnds` under fairness |
| nested_quarantine | 1 client, 2 events, 1 Send, no disturbance | violates `QuarantinedSkipped` |

Why the bounds are enough.  Three turns on two lanes reach the limit of two
frames, shift one below another and leave one waiting; that the frames of a
lane nest on deeper stacks (`LaneFramesNest`) is proved instead.  Three
events let a decision outlive its event and fill the lane behind one that
fails; that a decision is attributed with any number of clients is proved.  A
Send of two inputs can be cut off between them, and a second one nests in the
first one's callback or follows it, also when that callback was given up.
Three cells wrap and fill.  A queue of four with one reserved slot fills with two inputs and their cleanup, and two batches fill the synthetic
queue before the marker of their connection; one input and one disturbance
already interleave at every section of a handler, and in output_queue_seat a
press is never followed by its own release, which output_queue covers.  In
client a buffer of one is full with the first event, and three calls after
HELLO are a request, the handler's request inside it and a `*_next`.  Four
inputs of forward are two presses on one key from two sources with a grab end
between them and a reused slot.  In devices three acts are a plug, a press and
a second contender; ingest's three reports and one overflow cut every kind of
report at every event, and three changes grab, release and grab again.  Two
disturbances of authorization are a revocation racing a lost result, a reconnect, a seat change or a stop.

`CHECK_DEADLOCK FALSE` is set where the system may come to rest: the inputs of
a bounded behaviour are used up, the connection is closed, or the daemon has
exited.  CallStack, HookLane and NestedSends have a step of their own for that (`Finished`),
and PipeRing's poll can always time out.

Fairness.  CallStack: each lane finishes what it started and takes its
timeouts, the main thread serves its commands, a due broadcast happens.
HookLane: the lane thread runs, since all its waits have deadlines.  PipeRing:
producers finish their calls, the consumer polls - without relying on the
poll's timeout.  OutputQueue: sequencer and lane loops run, a handler of the
main thread finishes, and its loop serves fail-open and the synthetic queue.
Authorization: workers are scheduled and each of their steps ends (polkit has a
timeout), the main loop takes commands and notifications and sees a deadline
that has passed, and joins workers that have returned; nothing says a result
is not lost.  No client ever owes a step.

## 4. Proofs

`CallStackProofs` (for all sets of lanes, bounds and depths) proves
`TypeCorrect`, `StackOrder` (`OrdinaryAtBottom` and `LaneFramesNest`), `WakeupsNotLost`, `ResumedOnTop` and
`SerialisedCallbacks`.  The inductive invariant `IInv` adds to the properties
what makes them hold after a step: slots above the top are clean, frames are
entered turns and occur once, waiters are waiting turns, a lane's waiting turn
is its newest (so a push keeps `LaneFramesNest`), and below the top every frame
pumps or is the one the main thread is ending (so nobody enters above a running
callback).  `Serialised` needs in addition `SendInv`: a pumping frame's
callback has a Send outstanding, and the acknowledgements queued to the main
thread are of such Sends, once each.

`PipeRingProofs` (for all capacities, reserves, producers and pipe sizes) proves
`TypeCorrect`, `WakesNotMissed` and the refinement `RingRefinesFifo`.
`IInv` = `TypeOK`, the stored cells hold items (`Filled`) and `NoMissedWake`;
the refinement rests on arithmetic of the wrap-around: `ModOnce`, `CellsDiffer`
(a push overwrites no stored cell) and `CellShift` (a pop shifts the contents
by one).

`ClientProofs` (for all roles, capacities, nesting limits and numbers of calls
and frames) proves `StreamStaysInSync`, `GrantsConverge`,
`ObservationsAccounted` (what the buffer of observations drops is counted) and
the action property `DeltasFollow`.  What the
application was given, what is buffered and what is still on the wire are
stages of the service's history, and `IInv` says so with a path: the grants the
client holds lead, frame by frame, to the service's (`GrantsLead`), and the
keyboard record given last leads through the buffer and then the wire to the
last one the service sent on this connection (`KeysLead`), each delta following
the record before it, whatever numbers were skipped between them.  `InStep` relates the partial frame
that was read to the bytes that follow.  `GrantsAgree` and `DeltaFollows` speak
only of an empty wire or of one step, and are not inductive without the paths.

`HookLaneProofs` (for all sets of clients, numbers of events, strikes and
disturbances and sizes of queues) proves `DecisionsAttributed`, `TransitionsInOrder` and `LateRepliesForgiven`.  `IInv`
follows an event through its life: while it is queued no thread has a trace of
it (`Untraced`); taken, it is untouched by the subscribers still to be called
(`StillToCall`); called, its one answer is with the client, held, in the slot
or decided (`OneAnswer`, `PendingOrder`).  `KeysInOrder` is why a full or
cancelled lane keeps the order of key transitions.  These are theorems about the
lane without nested events.

`IngestProofs` (for all kinds of source, sets of reports and keys, and numbers
of overflows and changes) proves `LanesEnd`, `ReportsInOrder` and
`NoRawKeyStuck`.  The reader is a chain of operators on the source's record, so
the proof has one lemma per operator on `Ends` (a lane that has part of a report
is still owed its end), `Motion` (accumulated motion is older than the event at
hand) and `Raw` (a raw key that is down on the outputs is down on the grabbed
source or its release is ahead; after the grab its release is owed, also when it
was refused once, and nothing is owed while a grab is taken or held).  Looking ahead may synchronize in the middle of handling an event, and
is where the three meet.

`AuthorizationProofs` (for all numbers of clients, applications, scopes,
connections, threads and queued jobs) proves `ConcurrentRevokeWins`,
`GrantsAreCurrent` and `JobsHaveWorkers`, the last for `WorkerPool`'s operators
as the daemon uses them.  The properties are about what is stored and granted;
`IInv` has to speak of the tasks that are about to change it.  `Promise`: what
a check, a prompt or a refresh of the current generation says of the store is
so, or a notification is unread, and what a prompt is about to write with the
store's generation unchanged is approved.  `Identity` and `Once`: a client has
one identification in flight, and nothing else until it is done, so that a late
one does not make a granted client unknown.  `Granted` and `Current`: a grant
is of an identified client, paused while a refresh is in flight, and covered by
the store unless a notification or a refresh is to come.  `PoolInv` counts a
pool's threads, and bounds by `active` the tasks its workers run.  Each handler
of the main thread has a lemma (it keeps `Good`), and so has each way a task
moves: queued, taken, continued, pushed, popped, aged by a generation.

`OutputQueueProofs` (for all sets of connections, users and keys and all sizes
of the queues) proves `QueuedViewsAgree`, `SeatOutputOwn`,
`RevokedHooksHoldNothing`, `ClosedConnectionsHoldNothing` and
`SourceKeysEndHolds`, one for each invariant of the runs.  `IInv` says of each
of the main thread's handlers what its remaining critical sections owe:

- `TodoOrder`, `OwnersFollow`: in which order sections may follow each other,
  and that the queue's owners are behind the clients only until the next sync.
- `TypeOK` types what is queued by generation: output of the current generation
  belongs to the seat.  `WritesOwn` adds that a seat is published only after the
  wait for the sequencer, `HoldsOwn` that outside a seat change foreign holds are
  followed by RELEASE_ALL.
- `OwnedFollows`, `RevokedEnds`, `HooksHold`: a hook the queue still takes output
  from has its release, or the class's, to come.
- `ClosedKnown`, `BatchesMarked`, `ClosedEnds`: a closed connection's marker is
  to come, or is queued behind each of its batches.
- `EventsEnd`, `TargetsPast`, `SourcesHold`: a Modify hold of the current grab
  has its key down, or the release in the lane.
- `TargetsAgree`, `StaleWriteEnds` and `ViewsAgree`: the views' targets agree
  even during a fence, and a write outlived by its generation is followed by
  RELEASE_ALL, which wipes both views alike.

`ViewsAgree` speaks of replaying all the unwritten actions.  `Replayed` and
`Picked` are recursive functions over positions; lemmas unfold them at the last
action and, by induction on the length, at the first one (`ReplayHead`), show
that they keep types and targets (`ReplayType`, `ReplayTarget`) and that a
wiping action makes the views before it irrelevant (`ReplayWiped`).

`DevicesProofs` (for any number of sources of any kind, queued reports, inputs
and faults) proves `TypesHold`, `GrabsLeaveNothingPressed`,
`ReportsHandledAsArrived`, `DeadOutputsFailOpen` and `SourcesNotForgotten`.  `IInv` is `TypeOK`, which says of the jobs that only
the first has begun, and three facts about each source: `Owned`, the kernel and
the reader agree on who holds it, and a descriptor that is not open holds
nothing and has nothing queued; `Arrived`, a queued report arrived under the
grab as it is now or before a change whose drain is still to come; `Shown`, what
the desktop holds of a source is down on it or was pressed in the window between
the check and the grab, and at each stage of a job how much of that is left.
`Drained` is a recursive function over the queue's positions, so what a drain
leaves is proved by induction on them (`DrainExists`, `DrainedFacts`).  The proof
made `NothingLeftPressed` precise: a grab of a source that is gone says nothing
of the source plugged in after it.

`FailsOpen` and `NotForgotten` speak of the moments between handlers; within one
they need not hold.  A second invariant, `Outlook` (`OutlookHolds`, on top of
`IInv`), therefore says what the rest of the handler's jobs and the waiting udev
events still owe to each source: `Watched`, a source that is grabbed, or about
to be, on outputs that do not work has `failure_pending` raised or a job to come
that looks at it (unless the sink's generation is `torn`, the exception
`FailsOpen` makes); `Retried`, one that is demanded and not grabbed has its grab
to come, or the pass it is in, or the timer, tries again; `Found`, one that is
there and not tracked has a look or an add event to come; `ReturnLast`, a source
that left and came back has its return announced last; `Released`, a grab ends
with its descriptor.  These rest on the order the jobs stand in (`JobsInOrder`:
the gate is last, a pass is whole until it begins, a clone is retired right
after its source failed open) and on the sink's generations (`SinkInOrder`: the
removal of an old sink's node never takes the current one).  With no jobs left
`Outlook` implies the two properties.

In each of these modules TLC checked `IInv` (and `Outlook`) on the run's instance
before it was proved, and `InductiveInvariant` is the theorem the others follow from.

Assumptions on constants are the named ASSUMEs of the modules: sizes are
natural numbers, the reserve fits the queue, clients, sources and keys are finitely many,
a report ends in SYN_REPORT, a request asks for known scopes.

Only model-checked: liveness (fairness and ENABLED are beyond the prover);
NestedSends, whose invariant would relate the lane's stack to the clients';
`RefsBalanced`, which counts tasks in sequences (induction over data);
Forward, whose invariant on slots and targets is not worked out yet.

## 5. What the modelling found

The run nested_quarantine shows a disagreement between the code and its comment.
A callback nested in a callback's Send times out: the lane marks the stream
stalled and the main thread quarantines the hook.  The outer callback is current
again (`lane_context_restore`) and answers in time, and accepting that answer
clears the stalled bit (`hook_lanes.inc:1722`).  An event queued before then
calls the quarantined hook, where the comment at `hook_lanes.inc:1665` says such
snapshots skip.

Others the models reach; none of the runs' properties claims what the
documentation does here:

- A Send is answered while its client is still inside a nested callback that
  timed out.  If that callback Sends in its turn, `wait_response` reads the outer
  answer, calls it unexpected and ends the connection (`client.c:970`), where
  `docs/protocol.md:218` says a client answers each child before it can receive
  the parent's response.  The same happens when a flush retires a callback and
  the stream is called again while the client is still in it.  `StreamsKept` is
  what holds: only then.
- A connection that closes while the synthetic hook queue is full has its holds
  released before its queued batches play (`client_lifecycle.inc:59`), so a key
  they press stays held; `docs/integrating.md:297` says what they hold is
  released after them.  `ClosedHoldsNothing` excepts these connections
  (`overtaken`).
- `end_pump` keeps a frame's index across its wait (`connection_ref.c:445`), so
  a callback whose frame only moved down the stack is declared lost;
  `hook_lanes.inc:647` says its parent disappeared.
- A stream keeps one expired callback per lane (`connection_ref.c:51`): a client
  that answers two expired callbacks in order is disconnected at the first
  (`protocol_server.inc:744`), while `docs/security-model.md:115` says a
  well-formed late reply is discarded.  `LateOnlyWhenBehind` holds for one.
- A hook unsubscribed while its last callback times out, then subscribed again,
  stays stalled for the life of its stream (`grab_leases.inc:998`);
  `docs/integrating.md:302` says it is rearmed.

Noticed along the way:

- Output.  A batch admitted behind a device recreation that fails to reopen
  changes the admitted view and never the written one (`linux_synth.c:1355`
  returns before the bookkeeping its comment at line 261 promises);
  `ViewsAgree` excepts devices that are gone.  With a full queue
  `output_queue_push_end_grab` ends the written view's grab ahead of queued
  output, after which the views may differ for good; the comment there accepts
  it (`forced` in Forward).  A clone whose write of a release failed keeps the
  key in the written view (`linux_forward.c:525`); a later synthetic release and
  press of that key restores it there and claims it in the admitted view, so the
  claims on a clone's keys may differ from then on, after the clone was replaced
  too.  `OutputsAgree` demands agreement of the sink's keys after a fault.  A
  refused RELEASE_ALL at a seat change is only logged.
- Lanes.  A Send made from a retired callback is taken for one of the callback
  that is current by then (`protocol_server.inc:887`), or for an ordinary batch.
  A reply read after the seat changed hands but before the lane gave
  the callback up closes the client's stream (`protocol_server.inc:777`), while
  `daemon.c:726` says transports are kept.  A stale decision in the slot makes
  the push of another client's fail, which closes that client.  Strikes are
  forgotten only after 60 seconds, so "consecutive" timeouts need not be
  consecutive; the 15-second lease of `docs/protocol.md:228` has no counterpart
  in the code.
- Client.  A hook reply that times out in the middle of its frame is not
  terminal, so a retry writes after a torn frame.  A dropped OVERFLOW frame
  counts as one (`client.c:860`).  The client's own overflow is delivered after
  newer queued events.  A nested handler's refused reply ends the outer request
  without shutting the stream.  A keyboard delta may skip a sequence number
  after a seat switch; `DeltaFollows` is about the record sent before it.  SESSION_REVOKED is sent to lease streams only
  (`grab_leases.inc:171`), while `docs/integrating.md` documents
  KSI_OBSERVER_SESSION_REVOKED.
- Devices.  A key pressed between the last look at the keys and EVIOCGRAB stays
  pressed for the desktop (`linux_devices.c:1072`, `slipped` in the model), and
  a report that arrives between the drain and the switch is handled under the
  wrong grab state.  The sink may be recorded under a later generation than its
  node's (`torn`).  A device closed after a failed EVIOCGRAB(0) is reopened only
  by a udev event.
- Ingest.  After an overflow with an empty sync burst, fragments already
  forwarded get their SYN only with the next report.  A scan code whose key was
  lost to the overflow rides with the burst's first key
  (`linux_devices.c:2399`).  A report with relative and absolute motion gets a
  second, empty SYN on the mouse lane.
- Authorization.  An identification refused once (pool full, or the seat was
  another user's when the result came) denies that connection's later requests
  for good: `identity_attempted` stays set (`protocol_server.inc:45`,
  `grab_leases.inc:544`).  A command may carry `prompt_lock_held`, which nothing
  sets.

## 6. Not modelled, and plan

Not modelled: framing, encoding, the command line, tables and packaging keep no
state that steps change; the permission store, polkit, logind, udev, evdev and
uinput are external and appear only as what the code is told by them;
PERMISSIONS_LIST only sends frames.  The completions of ordinary batches and the
daemon's observer queues are bounded queues of their own with no effect on output; they
multiply the states of OutputQueue and are left for separate modules.  The
expansion of synthetic input is a pure function.

Plan, in this order:

1. Proofs: `NoStuckKey` of Forward (`OwnSlotOnly` first, with an invariant on
   slots and targets).
2. Proofs of NestedSends: `SendWhole` and `StreamsKept`.
3. Completions of ordinary batches: one reply per Send, an abstract specification it implements.
4. Observers: delivered plus reported lost equals published.
5. Expansion of synthetic input against a reference definition.
