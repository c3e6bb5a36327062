---------------------------- MODULE OutputQueue ----------------------------
(***************************************************************************)
(* The output queue (hook_lanes.inc), the sequencer that drains it, and    *)
(* the ledger of synthetic holds it serves (linux_synth.c).                *)
(*                                                                         *)
(* The main thread and a hook lane admit actions under the queue's mutex;  *)
(* the sequencer pops one at a time and writes it under execution_mutex.   *)
(* Every action changes the ledger twice: the admitted view when it is     *)
(* queued and the written view when it is applied.  A hold belongs to the  *)
(* connection that made it, a Modify hold also to the hook and to the      *)
(* physical key it replaced; ending a connection, a hook, a source key or  *)
(* a seat's turn must end exactly the holds that belong to it.             *)
(*                                                                         *)
(* A handler of the main thread that takes the queue's mutex several times *)
(* is modelled as the list of its critical sections (todo): lanes and      *)
(* sequencer may run between any two of them.  A batch is one key          *)
(* transition; the forwarding clones of linux_forward.c are not part of    *)
(* this module, except that a source's grab gives its output a target which *)
(* ends with the grab.                                                     *)
(***************************************************************************)
EXTENDS Integers, Sequences

CONSTANTS
  Conns,         \* connection ids; none is used twice
  Users,         \* uids
  User,          \* User[c]: the uid of connection c
  Keys,          \* key codes
  Capacity,      \* KSI_MAX_OUTPUT_ACTIONS
  Reserve,       \* KSI_OUTPUT_CLEANUP_RESERVE
  SynthSize,     \* KSI_MAX_SYNTH_HOOK_ACTIONS
  MaxInputs,     \* bound on the Sends and physical transitions in a behaviour
  MaxTrouble     \* bound on the seat changes, fences, hook losses and
                 \* recoveries of the synthetic devices in one

None == "none"

ASSUME IdAssumption ==
  /\ User \in [Conns -> Users]
  /\ None \notin Conns /\ None \notin Users /\ None \notin Keys

ASSUME SizeAssumption ==
  /\ Capacity \in Nat \ {0} /\ Reserve \in 0..Capacity
  /\ SynthSize \in Nat
  /\ MaxInputs \in Nat /\ MaxTrouble \in Nat

VARIABLES
  clients,    \* state->clients: the open connections
  unused,     \* connection ids not handed out yet
  hooks,      \* clients with a subscribed hook that is not quarantined
  owned,      \* state->owned_hook_mask: the hook class may own holds
  grabbed,    \* the physical source is grabbed
  seat,       \* the active input uid, or None while invalid
  gen,        \* active_input_generation
  failOpen,   \* g_fail_open_requested
  todo,       \* critical sections the main thread's handler still has to take
  owners,     \* owners[c]: "gone", "open" or "hooked", as the queue knows it
  queue,      \* q->actions
  seq,        \* the sequencer: its stage and the action it has popped
  synthq,     \* synthetic_hook_queue
  lane,       \* events in the hook lane, the head being processed
  nested,     \* a callback's recursive transaction, or NoNested
  device,     \* the generic devices: "up" or "gone"
  enqueued,   \* holds and live target as admitted output leaves them
  applied,    \* holds and live target as written output leaves them
  down,       \* physical keys that are down
  inputs, trouble,  \* how much of each bound is used
  refused,    \* cleanup could not be queued in its order (history)
  overtaken   \* closed connections released ahead of batches they had sent (history)

main == <<clients, unused, hooks, owned, grabbed, seat, gen, failOpen, todo>>
ledger == <<queue, enqueued>>
bounds == <<inputs, trouble>>

vars == <<main, owners, ledger, seq, synthq, lane, nested, device, applied,
          down, bounds, refused, overtaken>>

-----------------------------------------------------------------------------
(* The ledger of synthetic holds.                                          *)

\* The owner of a hold, ksi_synth_owner: hook says the hold was made by a
\* Modify decision; src is the physical key that decision replaced and target
\* the source's grab.
Sender(c) == [conn |-> c, hook |-> FALSE, src |-> None, target |-> 0]

\* A release's filter; zero fields match any value.
Filter(c, hook) == [conn |-> c, hook |-> hook, src |-> None, target |-> 0]

Target(t) == [Filter(None, FALSE) EXCEPT !.target = t]

Matches(o, f) ==
  /\ f.conn \in {None, o.conn}
  /\ f.hook => o.hook

Action(type, g, owner, key, press) ==
  [type |-> type, gen |-> g, owner |-> owner, key |-> key, press |-> press]

\* Actions with no generation of their own are the daemon's safety actions.
Unscoped(type, owner) == Action(type, 0, owner, None, FALSE)

ReleaseAll == Unscoped("all", Filter(None, FALSE))

\* A key transition in queue order, for either view: a release ends the
\* owner's hold, or else the key everywhere.
ApplyKey(holds, o, key, press) ==
  IF press THEN holds \cup {<<o, key>>}
  ELSE IF <<o, key>> \in holds THEN holds \ {<<o, key>>}
  ELSE {h \in holds : h[2] # key}

\* A physical key-up ends the Modify holds derived from its key and, unless a
\* hook suppressed it, every hold of the key.
PhysicalRelease(holds, a) ==
  {h \in holds : /\ ~(h[1].src = a.key /\ h[1].target = a.owner.target)
                 /\ a.type = "suppressed" \/ h[2] # a.key}

DropClaims(holds, f) == {h \in holds : ~Matches(h[1], f)}

\* owner_is_dead: a Modify replacement must not outlive its source's grab.
IsDead(view, o) == o.target \notin {0, view.target}

Held(view, holds) == [view EXCEPT !.held = holds]

\* What one action does to either view of the ledger.  Targets only grow, so an
\* end of a grab that arrives after a later one is ignored.
Effect(view, a) ==
  CASE a.type = "synth" ->
         IF a.press /\ IsDead(view, a.owner) THEN view
         ELSE Held(view, ApplyKey(view.held, a.owner, a.key, a.press))
    [] a.type \in {"replay", "suppressed"} ->
         IF a.press THEN view ELSE Held(view, PhysicalRelease(view.held, a))
    [] a.type = "release" -> Held(view, DropClaims(view.held, a.owner))
    [] a.type = "end" ->
         IF view.target >= a.owner.target THEN view
         ELSE [held |-> {h \in view.held : h[1].target = 0}, target |-> a.owner.target]
    [] a.type \in {"all", "generic", "recreate"} -> Held(view, {})

\* What the actions as do one after another.
Replayed(view, as) ==
  LET after[i \in 0..Len(as)] == IF i = 0 THEN view ELSE Effect(after[i - 1], as[i])
  IN  after[Len(as)]

\* The items at the positions in places, in order.
Picked(items, places) ==
  LET upTo[i \in 0..Len(items)] ==
        IF i = 0 THEN <<>>
        ELSE IF i \in places THEN Append(upTo[i - 1], items[i]) ELSE upTo[i - 1]
  IN  upTo[Len(items)]

-----------------------------------------------------------------------------
(* Admission, each of these under the queue's mutex.                       *)

Stale(g) == g # 0 /\ g # gen

IsCleanup(a) == a.type \notin {"synth", "replay"} \/ ~a.press

HasRoom(a, more) ==
  Len(queue) + more < Capacity - (IF IsCleanup(a) THEN 0 ELSE Reserve)

\* A mutant: the companion release is not noted in the admitted view.
AdmitNotingFirst(as) ==
  /\ queue' = queue \o as
  /\ enqueued' = Effect(enqueued, Head(as))

Admit(as) ==
  /\ queue' = queue \o as
  /\ enqueued' = Replayed(enqueued, as)

\* A mutant: an open connection is enough, its hook is not looked at.
IsLiveConnection(o) == owners[o.conn] # "gone"

IsLive(o) == IF o.hook THEN owners[o.conn] = "hooked" ELSE owners[o.conn] # "gone"

\* output_queue_push_packet.  ok says what the caller is told: output of a
\* former generation is dropped on purpose.
PushPacket(a, ok) ==
  \/ /\ Stale(a.gen) /\ ok
     /\ UNCHANGED ledger
  \/ /\ ~Stale(a.gen) /\ ok = HasRoom(a, 0)
     /\ IF ok THEN Admit(<<a>>) ELSE UNCHANGED ledger

\* output_queue_push_owned_synth.  A Modify needs its hook; a Send that was
\* accepted before its connection closed plays and is released at once, unless
\* it is a fragment of a batch whose release marker follows it.
PushSynth(a, fragment, flushed, ok) ==
  LET closed == ~IsLive(a.owner)
      companion == Unscoped("release", Filter(a.owner.conn, FALSE))
  IN  \/ /\ Stale(a.gen) /\ ok
         /\ UNCHANGED ledger
      \/ /\ ~Stale(a.gen)
         /\ ok = /\ ~(closed /\ a.owner.hook)
                 /\ ~flushed
                 /\ HasRoom(a, IF closed THEN 1 ELSE 0)
         /\ CASE ok /\ closed /\ ~fragment -> Admit(<<a, companion>>)
              [] ok /\ ~(closed /\ ~fragment) -> Admit(<<a>>)
              [] OTHER -> UNCHANGED ledger

\* output_queue_push_simple and output_queue_push_release_owner.
PushUnscoped(a, ok) ==
  /\ ok = (Len(queue) < Capacity)
  /\ IF ok THEN Admit(<<a>>) ELSE UNCHANGED ledger

\* release_connection_output: a release that cannot be queued fails open.
ReleaseOutput(c, hook) ==
  \E ok \in BOOLEAN :
    /\ PushUnscoped(Unscoped("release", Filter(c, hook)), ok)
    /\ failOpen' = (failOpen \/ ~ok)
    /\ refused' = (refused \/ ~ok)

-----------------------------------------------------------------------------
(* The main thread.                                                        *)

Idle == todo = <<>>

\* active_hook_subscription_mask: the subscribers the seat's owner admits.
Active == {c \in hooks : User[c] = seat}

Spend(n) == trouble' = trouble + n /\ trouble + n <= MaxTrouble

Step(op) == [op |-> op, conn |-> None, hook |-> FALSE, user |-> None]

ReleaseStep(c, hook) == [Step("release") EXCEPT !.conn = c, !.hook = hook]

MarkerStep(c) == [Step("marker") EXCEPT !.conn = c]

\* The last client out also ends every synthetic hold.
LastOut == IF clients = {} THEN <<Step("generic")>> ELSE <<>>

\* update_grab_state, of which the queue sees three critical sections.
UpdateGrabs == <<Step("sync"), Step("grab"), Step("class")>>

\* add_client.
Connect(c) ==
  /\ Idle /\ c \in unused
  /\ unused' = unused \ {c}
  /\ clients' = clients \cup {c}
  /\ owners' = [owners EXCEPT ![c] = "open"]
  /\ UNCHANGED <<hooks, owned, grabbed, seat, gen, failOpen, todo, ledger, seq, synthq,
                 lane, nested, device, applied, down, bounds, refused, overtaken>>

\* handle_hook_subscription, and a quarantined hook's retry.
Subscribe(c) ==
  /\ Idle /\ c \in clients \ hooks /\ User[c] = seat
  /\ hooks' = hooks \cup {c}
  /\ todo' = UpdateGrabs
  /\ UNCHANGED <<clients, unused, owned, grabbed, seat, gen, failOpen, owners, ledger,
                 seq, synthq, lane, nested, device, applied, down, bounds,
                 refused, overtaken>>

\* handle_hook_subscription: the hook is revoked before its holds are released.
UnsubscribeSteps(c) == UpdateGrabs \o <<ReleaseStep(c, TRUE)>>

Unsubscribe(c) ==
  /\ Idle /\ c \in hooks /\ Spend(1)
  /\ hooks' = hooks \ {c}
  /\ todo' = UnsubscribeSteps(c)
  /\ UNCHANGED <<clients, unused, owned, grabbed, seat, gen, failOpen, owners, ledger,
                 seq, synthq, lane, nested, device, applied, down, inputs, refused, overtaken>>

\* record_client_hook_failure.  Two calls at its end are left to other actions: the
\* removal after the fifth strike is a Disconnect, and the grabs of the sources that
\* no hook demands any more end with the next handler that updates them.
Quarantine(c) ==
  /\ Idle /\ c \in Active /\ Spend(1)
  /\ hooks' = hooks \ {c}
  /\ todo' = <<Step("sync"), ReleaseStep(c, TRUE)>>
  /\ UNCHANGED <<clients, unused, owned, grabbed, seat, gen, failOpen, owners, ledger,
                 seq, synthq, lane, nested, device, applied, down, inputs, refused, overtaken>>

\* A mutant: the holds are released at once, ahead of the queued batches.
DisconnectReleasing(c) ==
  /\ Idle /\ c \in clients
  /\ clients' = clients \ {c}
  /\ hooks' = hooks \ {c}
  /\ todo' = UpdateGrabs \o <<ReleaseStep(c, FALSE)>>
  /\ UNCHANGED <<unused, owned, grabbed, seat, gen, failOpen, owners, ledger, seq,
                 synthq, lane, nested, device, applied, down, bounds, refused, overtaken>>

\* remove_client: the connection's holds end after the batches it had sent.
Disconnect(c) ==
  /\ Idle /\ c \in clients
  /\ clients' = clients \ {c}
  /\ hooks' = hooks \ {c}
  /\ todo' = UpdateGrabs \o <<MarkerStep(c)>>
  /\ UNCHANGED <<unused, owned, grabbed, seat, gen, failOpen, owners, ledger, seq,
                 synthq, lane, nested, device, applied, down, bounds, refused, overtaken>>

\* A mutant: the batch being written is not waited for.
SeatStepsAtOnce(u) ==
  <<Step("flush")>> \o UpdateGrabs
    \o <<Step("discard"), Step("all"), [Step("seat") EXCEPT !.user = u]>>

\* set_active_input_owner: invalid and the new generation are published first.
SeatSteps(u) ==
  <<Step("flush"), Step("wait")>> \o UpdateGrabs
    \o <<Step("discard"), Step("all"), [Step("seat") EXCEPT !.user = u]>>

ChangeSeat(u) ==
  /\ Idle /\ u # seat /\ Spend(1)
  /\ seat' = None
  /\ gen' = gen + 1
  /\ todo' = SeatSteps(u)
  /\ UNCHANGED <<clients, unused, hooks, owned, grabbed, failOpen, owners, ledger, seq,
                 synthq, lane, nested, device, applied, down, inputs, refused, overtaken>>

\* fence_permission_output, then update_grab_state: nobody waits for a batch
\* that is being written.
FencePermissions ==
  /\ Idle /\ Spend(1)
  /\ gen' = gen + 1
  /\ todo' = <<Step("flush"), Step("discard"), Step("all")>> \o UpdateGrabs
  /\ UNCHANGED <<clients, unused, hooks, owned, grabbed, seat, failOpen, owners, ledger,
                 seq, synthq, lane, nested, device, applied, down, inputs, refused, overtaken>>

\* daemon_handle_panic; refused releases request the same.
Panic ==
  /\ Idle /\ ~failOpen /\ grabbed /\ Spend(1)
  /\ failOpen' = TRUE
  /\ UNCHANGED <<clients, unused, hooks, owned, grabbed, seat, gen, todo, owners, ledger,
                 seq, synthq, lane, nested, device, applied, down, inputs, refused, overtaken>>

\* apply_fail_open_if_requested.
FailOpen ==
  /\ Idle /\ failOpen
  /\ failOpen' = FALSE
  /\ hooks' = {}
  /\ todo' = <<Step("flush")>> \o UpdateGrabs
  /\ UNCHANGED <<clients, unused, owned, grabbed, seat, gen, owners, ledger, seq, synthq,
                 lane, nested, device, applied, down, bounds, refused, overtaken>>

\* run_backend_maintenance asks the sequencer to recreate failed devices.
Recreate ==
  /\ Idle /\ Spend(1)
  /\ \E ok \in BOOLEAN : PushUnscoped(Unscoped("recreate", Filter(None, FALSE)), ok)
  /\ UNCHANGED <<main, owners, seq, synthq, lane, nested, device, applied, down,
                 inputs, refused, overtaken>>

\* handle_synthesize_input outside a callback: straight to the output queue
\* when no hook is active or the batch bypasses them, else to the synthetic
\* hook queue.
Send(c, key, press) ==
  LET a == Action("synth", gen, Sender(c), key, press)
  IN  /\ Idle /\ c \in clients /\ User[c] = seat
      /\ inputs < MaxInputs /\ inputs' = inputs + 1
      /\ \/ /\ \E ok \in BOOLEAN : PushSynth(a, FALSE, FALSE, ok)
            /\ UNCHANGED synthq
         \/ /\ Active # {} /\ Len(synthq) < SynthSize
            /\ synthq' = Append(synthq, a)
            /\ UNCHANGED ledger
      /\ UNCHANGED <<main, owners, seq, lane, nested, device, applied, down,
                     trouble, refused, overtaken>>

\* The head of the lane waits for the callback of one of its subscribers.
Calling(c) == lane # <<>> /\ Head(lane).stage = "call" /\ c \in Head(lane).subs

\* orphan: the lane has left the parent event or was flushed.
NoNested == [conn |-> None, gen |-> 0, key |-> None, stage |-> "none", orphan |-> FALSE]

Orphaned(t) == IF t = NoNested THEN t ELSE [t EXCEPT !.orphan = TRUE]

\* handle_synthesize_input inside a callback: a recursive transaction.
SendNested(c, key) ==
  /\ Idle /\ c \in clients /\ User[c] = seat /\ Calling(c)
  /\ nested = NoNested
  /\ inputs < MaxInputs /\ inputs' = inputs + 1
  /\ nested' = [conn |-> c, gen |-> gen, key |-> key, stage |-> "queued",
                orphan |-> FALSE]
  /\ UNCHANGED <<main, owners, ledger, seq, synthq, lane, device, applied, down,
                 trouble, refused, overtaken>>

LaneEvent(origin, a, subs) ==
  [origin |-> origin, action |-> a, subs |-> subs, stage |-> "call",
   flushed |-> FALSE, mod |-> None, press |-> FALSE]

\* synthetic_hook_inflight, physical_hook_inflight.
InLane(origin) == \E i \in DOMAIN lane : lane[i].origin = origin

\* process_synthetic_hook_queue_one as process_hook_ingress calls it.
Ingress ==
  /\ Idle /\ synthq # <<>>
  /\ ~InLane("synthetic") /\ ~InLane("physical")
  /\ synthq' = Tail(synthq)
  /\ LET a == Head(synthq)
     IN  \/ /\ a.type = "marker"
            /\ ReleaseOutput(a.owner.conn, FALSE)
            /\ todo' = LastOut
            /\ UNCHANGED lane
         \/ /\ a.type = "synth" /\ Stale(a.gen)
            /\ UNCHANGED <<ledger, lane, todo, failOpen, refused>>
         \/ /\ a.type = "synth" /\ ~Stale(a.gen) /\ Active # {}
            /\ lane' = Append(lane, LaneEvent("synthetic", a, Active))
            /\ UNCHANGED <<ledger, todo, failOpen, refused>>
         \/ /\ a.type = "synth" /\ ~Stale(a.gen) /\ Active = {}
            /\ \E ok \in BOOLEAN : PushSynth(a, TRUE, FALSE, ok)
            /\ UNCHANGED <<lane, todo, failOpen, refused>>
  /\ UNCHANGED <<clients, unused, hooks, owned, grabbed, seat, gen, owners, seq, nested,
                 device, applied, down, bounds, overtaken>>

\* daemon_handle_hook_event for a grabbed key, and daemon_forward_physical_event
\* for the release of a key held when its grab ended (a refused one stays
\* pending).  Nothing else of an ungrabbed source reaches the daemon's output.
\* Physical input waits for an active synthetic transaction.
Physical(key) ==
  LET press == key \notin down
      a == Action("replay", gen, Target(enqueued.target), key, press)
  IN  /\ Idle /\ ~InLane("synthetic") /\ nested = NoNested
      /\ inputs < MaxInputs /\ inputs' = inputs + 1
      /\ down' = IF press THEN down \cup {key} ELSE down \ {key}
      /\ \/ /\ grabbed
            /\ lane' = Append(lane, LaneEvent("physical", a, Active))
            /\ UNCHANGED ledger
         \/ /\ ~grabbed /\ ~press
            /\ PushPacket(a, TRUE)
            /\ UNCHANGED lane
      /\ UNCHANGED <<main, owners, seq, synthq, nested, device, applied, trouble, refused, overtaken>>

\* A grab deferred while its keys are held.
Grab ==
  /\ Idle /\ Active # {} /\ ~grabbed /\ down = {}
  /\ grabbed' = TRUE
  /\ UNCHANGED <<clients, unused, hooks, owned, seat, gen, failOpen, todo, owners,
                 ledger, seq, synthq, lane, nested, device, applied, down,
                 bounds, refused, overtaken>>

(* The critical sections of the handlers above.                            *)

NextStep(op) == todo # <<>> /\ Head(todo).op = op /\ todo' = Tail(todo)

\* output_queue_sync_owners.
SyncOwners ==
  /\ NextStep("sync")
  /\ owners' = [c \in Conns |-> CASE c \in hooks -> "hooked"
                                  [] c \in clients \ hooks -> "open"
                                  [] OTHER -> "gone"]
  /\ UNCHANGED <<clients, unused, hooks, owned, grabbed, seat, gen, failOpen, ledger, seq,
                 synthq, lane, nested, device, applied, down, bounds, refused, overtaken>>

\* update_grab_state: set_grab_hook_mask.  A grab waits for held keys; ending
\* one is queued like output, or without room moves both views at once.
UpdateGrab ==
  /\ NextStep("grab")
  /\ LET end == Unscoped("end", Target(enqueued.target + 1))
     IN  \/ /\ Active # {}
            /\ grabbed' = (grabbed \/ down = {})
            /\ UNCHANGED <<ledger, applied, refused>>
         \/ /\ Active = {} /\ grabbed
            /\ grabbed' = FALSE
            /\ IF Len(queue) < Capacity
               THEN Admit(<<end>>) /\ UNCHANGED applied
               ELSE /\ enqueued' = Effect(enqueued, end)
                    /\ applied' = Effect(applied, end)
                    /\ UNCHANGED queue
            /\ refused' = (refused \/ Len(queue) >= Capacity)
         \/ /\ Active = {} /\ ~grabbed
            /\ UNCHANGED <<grabbed, ledger, applied, refused>>
  /\ UNCHANGED <<clients, unused, hooks, owned, seat, gen, failOpen, owners, seq,
                 synthq, lane, nested, device, down, bounds, overtaken>>

\* update_grab_state: the last hook of the class ends what the class holds; a
\* refused release is retried at the next update.
ReleaseClass ==
  /\ NextStep("class")
  /\ \/ /\ Active # {} /\ owned' = TRUE
        /\ UNCHANGED <<ledger, refused>>
     \/ /\ Active = {} /\ owned
        /\ \E ok \in BOOLEAN :
             /\ PushUnscoped(Unscoped("release", Filter(None, TRUE)), ok)
             /\ owned' = ~ok
             /\ refused' = (refused \/ ~ok)
     \/ /\ Active = {} /\ ~owned
        /\ UNCHANGED <<owned, ledger, refused>>
  /\ UNCHANGED <<clients, unused, hooks, grabbed, seat, gen, failOpen, owners, seq,
                 synthq, lane, nested, device, applied, down, bounds, overtaken>>

\* release_connection_output of one hook's holds.
ReleaseHook ==
  /\ NextStep("release")
  /\ ReleaseOutput(Head(todo).conn, Head(todo).hook)
  /\ UNCHANGED <<clients, unused, hooks, owned, grabbed, seat, gen, owners, seq, synthq,
                 lane, nested, device, applied, down, bounds, overtaken>>

\* synthetic_hook_queue_push_release.  With no room behind the accepted
\* batches, the connection's holds are released at once.
Marker(c) == Unscoped("marker", Filter(c, FALSE))

\* Batches of c that are not admitted yet.
Waiting(c) ==
  \/ \E i \in DOMAIN synthq : synthq[i].owner.conn = c
  \/ \E i \in DOMAIN lane : lane[i].action.owner.conn = c

PushMarker ==
  /\ todo # <<>> /\ Head(todo).op = "marker"
  /\ LET c == Head(todo).conn
     IN  \/ /\ Len(synthq) < SynthSize
            /\ synthq' = Append(synthq, Marker(c))
            /\ todo' = <<>>
            /\ UNCHANGED <<ledger, failOpen, refused, overtaken>>
         \/ /\ Len(synthq) = SynthSize
            /\ ReleaseOutput(c, FALSE)
            /\ todo' = LastOut
            /\ overtaken' = IF Waiting(c) THEN overtaken \cup {c} ELSE overtaken
            /\ UNCHANGED synthq
  /\ UNCHANGED <<clients, unused, hooks, owned, grabbed, seat, gen, owners, seq, lane,
                 nested, device, applied, down, bounds>>

\* Once no client remains, no synthetic key may stay held.
ReleaseGeneric ==
  /\ NextStep("generic")
  /\ \E ok \in BOOLEAN :
       /\ PushUnscoped(Unscoped("generic", Filter(None, FALSE)), ok)
       /\ refused' = (refused \/ ~ok)
  /\ UNCHANGED <<clients, unused, hooks, owned, grabbed, seat, gen, failOpen, owners, seq,
                 synthq, lane, nested, device, applied, down, bounds, overtaken>>

\* A mutant: release markers are cancelled with the input.
KeptNone(items) == <<>>

\* lane_flush_passthrough and synthetic_hook_queue_abort: queued input is
\* cancelled, release markers stay.
Kept(items) == Picked(items, {i \in DOMAIN items : items[i].type = "marker"})

Flush ==
  /\ NextStep("flush")
  /\ lane' = [i \in DOMAIN lane |-> [lane[i] EXCEPT !.flushed = TRUE]]
  /\ nested' = Orphaned(nested)
  /\ synthq' = Kept(synthq)
  /\ UNCHANGED <<clients, unused, hooks, owned, grabbed, seat, gen, failOpen, owners,
                 ledger, seq, device, applied, down, bounds, refused, overtaken>>

\* output_queue_wait_for_inflight: execution_mutex is free.
WaitForInflight ==
  /\ NextStep("wait")
  /\ seq.stage # "writing"
  /\ UNCHANGED <<clients, unused, hooks, owned, grabbed, seat, gen, failOpen, owners,
                 ledger, seq, synthq, lane, nested, device, applied, down,
                 bounds, refused, overtaken>>

\* output_queue_discard_stale.
Fresh(as) == Picked(as, {i \in DOMAIN as : ~Stale(as[i].gen)})

DiscardStale ==
  /\ NextStep("discard")
  /\ queue' = Fresh(queue)
  /\ UNCHANGED <<clients, unused, hooks, owned, grabbed, seat, gen, failOpen, owners,
                 enqueued, seq, synthq, lane, nested, device, applied, down,
                 bounds, refused, overtaken>>

\* output_queue_push_release_all; the callers only report a refusal.
PushReleaseAll ==
  /\ NextStep("all")
  /\ \E ok \in BOOLEAN :
       /\ PushUnscoped(ReleaseAll, ok)
       /\ refused' = (refused \/ ~ok)
  /\ UNCHANGED <<clients, unused, hooks, owned, grabbed, seat, gen, failOpen, owners, seq,
                 synthq, lane, nested, device, applied, down, bounds, overtaken>>

\* The new owner becomes valid once nothing of the former can be written.
TakeSeat ==
  /\ todo # <<>> /\ Head(todo).op = "seat"
  /\ seat' = Head(todo).user
  /\ todo' = IF seat' = None THEN <<>> ELSE UpdateGrabs
  /\ UNCHANGED <<clients, unused, hooks, owned, grabbed, gen, failOpen, owners, ledger,
                 seq, synthq, lane, nested, device, applied, down, bounds,
                 refused, overtaken>>

-----------------------------------------------------------------------------
(* The hook lane.                                                          *)

Cancelled(e) == e.flushed \/ Stale(e.action.gen)

Restage(stage) == lane' = [lane EXCEPT ![1].stage = stage]

\* The lane runs no nested transaction while it processes an event's outcome,
\* and an event waits until the transaction its callback sent is finished.
Undisturbed == nested.stage \in {"none", "queued"}

\* lane_process_event: the decision of the subscribers' callbacks.  A cancelled
\* event calls nobody: a synthetic one is dropped, a physical one passes.
Decide ==
  /\ lane # <<>> /\ Head(lane).stage = "call" /\ Undisturbed
  /\ LET e == Head(lane)
     IN  \/ /\ Cancelled(e)
            /\ Restage(IF e.origin = "physical" THEN "pass" ELSE "block")
         \/ /\ ~Cancelled(e)
            /\ \/ \E s \in {"pass", "block"} : Restage(s)
               \/ \E c \in e.subs \cap clients, press \in BOOLEAN :
                    lane' = [lane EXCEPT ![1].stage = "modify",
                                         ![1].mod = c, ![1].press = press]
  /\ nested' = Orphaned(nested)
  /\ UNCHANGED <<main, owners, ledger, seq, synthq, device, applied, down, bounds,
                 refused, overtaken>>

\* lane_emit_output for Modify: a refused replacement passes its event instead.
EmitModify ==
  /\ lane # <<>> /\ Head(lane).stage = "modify"
  /\ LET e == Head(lane)
         physical == e.origin = "physical"
         o == [conn |-> e.mod, hook |-> TRUE,
               src |-> IF physical THEN e.action.key ELSE None,
               target |-> IF physical THEN e.action.owner.target ELSE 0]
     IN  \E key \in Keys, ok \in BOOLEAN :
           /\ PushSynth(Action("synth", e.action.gen, o, key, e.press), TRUE,
                        e.flushed, ok)
           /\ Restage(IF ok THEN "block" ELSE "pass")
  /\ UNCHANGED <<main, owners, seq, synthq, nested, device, applied, down, bounds,
                 refused, overtaken>>

\* lane_emit_output for Pass: enqueue_egress.  A physical event that cannot be
\* queued fails open.
EmitEgress ==
  /\ lane # <<>> /\ Head(lane).stage = "pass"
  /\ LET e == Head(lane)
     IN  \E ok \in BOOLEAN :
           \/ /\ e.origin = "physical"
              /\ PushPacket(e.action, ok)
              /\ IF ok THEN lane' = Tail(lane) ELSE Restage("block")
              /\ failOpen' = (failOpen \/ ~ok)
           \/ /\ e.origin = "synthetic"
              /\ PushSynth(e.action, TRUE, FALSE, ok)
              /\ lane' = Tail(lane)
              /\ UNCHANGED failOpen
  /\ UNCHANGED <<clients, unused, hooks, owned, grabbed, seat, gen, todo, owners, seq,
                 synthq, nested, device, applied, down, bounds, refused, overtaken>>

\* A mutant: a suppressed release has no effect.
EmitNothing ==
  /\ lane # <<>> /\ Head(lane).stage = "block"
  /\ lane' = Tail(lane)
  /\ UNCHANGED <<main, owners, ledger, seq, synthq, nested, device, applied, down, bounds,
                 refused, overtaken>>

\* lane_emit_output: a suppressed release still ends what its key's Modify held.
\* The event then leaves the lane.
EmitCleanup ==
  /\ lane # <<>> /\ Head(lane).stage = "block"
  /\ LET e == Head(lane)
     IN  \/ /\ e.origin = "physical" /\ ~e.action.press
            /\ \E ok \in BOOLEAN :
                 /\ PushPacket([e.action EXCEPT !.type = "suppressed"], ok)
                 /\ failOpen' = (failOpen \/ ~ok)
                 /\ refused' = (refused \/ ~ok)
         \/ /\ e.origin = "synthetic" \/ e.action.press
            /\ UNCHANGED <<ledger, failOpen, refused>>
  /\ lane' = Tail(lane)
  /\ UNCHANGED <<clients, unused, hooks, owned, grabbed, seat, gen, todo, owners, seq,
                 synthq, nested, device, applied, down, bounds, overtaken>>

\* lane_process_nested_transaction: while its parent's callback waits the
\* transaction passes the hooks, which may block it, as a fragment; after that
\* it fails open as one batch.  A former generation's is dropped.
RunNested ==
  /\ nested.stage = "queued"
  /\ lane # <<>> => Head(lane).stage = "call"
  /\ LET a == Action("synth", nested.gen, Sender(nested.conn), nested.key, TRUE)
     IN  \/ /\ Stale(nested.gen) \/ ~nested.orphan
            /\ UNCHANGED ledger
         \/ /\ ~Stale(nested.gen)
            /\ \E fragment \in {FALSE, ~nested.orphan}, ok \in BOOLEAN :
                 PushSynth(a, fragment, FALSE, ok)
  /\ nested' = [nested EXCEPT !.stage = "ran"]
  /\ UNCHANGED <<main, owners, seq, synthq, lane, device, applied, down, bounds,
                 refused, overtaken>>

\* No release marker orders a closed connection's recursive batch.
FinishNested ==
  /\ nested.stage = "ran"
  /\ nested' = NoNested
  /\ \/ /\ owners[nested.conn] = "gone"
        /\ ReleaseOutput(nested.conn, FALSE)
     \/ /\ owners[nested.conn] # "gone"
        /\ UNCHANGED <<ledger, failOpen, refused>>
  /\ UNCHANGED <<clients, unused, hooks, owned, grabbed, seat, gen, todo, owners, seq,
                 synthq, lane, device, applied, down, bounds, overtaken>>

-----------------------------------------------------------------------------
(* The sequencer.                                                          *)

Nothing == Unscoped("none", Filter(None, FALSE))

Pop ==
  /\ seq.stage = "idle" /\ queue # <<>>
  /\ seq' = [stage |-> "popped", action |-> Head(queue)]
  /\ queue' = Tail(queue)
  /\ UNCHANGED <<main, owners, enqueued, synthq, lane, nested, device, applied,
                 down, bounds, refused, overtaken>>

\* apply_output_action under execution_mutex, up to the generation check.
BeginWrite ==
  /\ seq.stage = "popped"
  /\ seq' = IF Stale(seq.action.gen) THEN [stage |-> "idle", action |-> Nothing]
            ELSE [seq EXCEPT !.stage = "writing"]
  /\ UNCHANGED <<main, owners, ledger, synthq, lane, nested, device, applied, down,
                 bounds, refused, overtaken>>

\* The write and the written view; recreated devices may fail to reopen, and
\* without a device ksi_linux_synth_send_input does nothing.
EndWrite ==
  /\ seq.stage = "writing"
  /\ seq' = [stage |-> "idle", action |-> Nothing]
  /\ IF seq.action.type = "recreate" THEN device' \in {"up", "gone"} ELSE UNCHANGED device
  /\ applied' = IF seq.action.type = "synth" /\ device = "gone" THEN applied
                ELSE Effect(applied, seq.action)
  /\ UNCHANGED <<main, owners, ledger, synthq, lane, nested, down, bounds, refused, overtaken>>

-----------------------------------------------------------------------------

Init ==
  /\ clients = {} /\ unused = Conns /\ hooks = {} /\ owned = FALSE /\ grabbed = FALSE
  /\ seat \in Users /\ gen = 1 /\ failOpen = FALSE /\ todo = <<>>
  /\ owners = [c \in Conns |-> "gone"]
  /\ queue = <<>>
  /\ enqueued = [held |-> {}, target |-> 1] /\ applied = enqueued
  /\ seq = [stage |-> "idle", action |-> Nothing]
  /\ synthq = <<>> /\ lane = <<>> /\ nested = NoNested
  /\ device = "up" /\ down = {}
  /\ inputs = 0 /\ trouble = 0
  /\ refused = FALSE /\ overtaken = {}

\* Everything the main thread does on its own account.
Request ==
  \/ \E c \in Conns : Connect(c) \/ Subscribe(c) \/ Unsubscribe(c)
                      \/ Quarantine(c) \/ Disconnect(c)
  \/ \E u \in Users \cup {None} : ChangeSeat(u)
  \/ FencePermissions \/ Panic \/ Recreate
  \/ \E c \in Conns, key \in Keys : SendNested(c, key)
  \/ \E c \in Conns, key \in Keys, press \in BOOLEAN : Send(c, key, press)
  \/ \E key \in Keys : Physical(key)
  \/ Grab

\* What the main thread still owes.
MainStep ==
  \/ SyncOwners \/ UpdateGrab \/ ReleaseClass \/ ReleaseHook \/ PushMarker \/ ReleaseGeneric
  \/ Flush \/ WaitForInflight \/ DiscardStale \/ PushReleaseAll \/ TakeSeat

LaneStep ==
  \/ Decide \/ EmitModify \/ EmitEgress \/ EmitCleanup
  \/ RunNested \/ FinishNested

SequencerStep == Pop \/ BeginWrite \/ EndWrite

Next == Request \/ MainStep \/ FailOpen \/ Ingress \/ LaneStep \/ SequencerStep

Spec == Init /\ [][Next]_vars

-----------------------------------------------------------------------------

\* A handler is between advancing the generation and queueing RELEASE_ALL.
Fencing == \E i \in DOMAIN todo : todo[i].op = "all"

\* What the sequencer still has to write, the popped action first.
Unwritten ==
  Fresh((IF seq.stage = "idle" THEN <<>> ELSE <<seq.action>>) \o queue)

Pending(type) == \E i \in DOMAIN Unwritten : Unwritten[i].type = type

\* Writing out the queue turns the written view into the admitted one: what a
\* query is told about a key is what the devices will show (linux_synth.c:57).
\* Devices that failed to reopen are exempt until the next recovery is queued.
ViewsAgree ==
  ~Fencing /\ ~refused /\ (device = "up" \/ Pending("recreate"))
    => Replayed(applied, Unwritten) = enqueued

\* While one user owns the seat, the sequencer never writes the synthetic
\* output of another's client (daemon.c:761), no key is admitted as held by
\* one, and a key still held on the devices has RELEASE_ALL coming.
NothingForeign ==
  seat # None
    => /\ seq.stage = "writing" /\ seq.action.type = "synth" => User[seq.action.owner.conn] = seat
       /\ ~refused => /\ \A h \in enqueued.held : User[h[1].conn] = seat
                     /\ \A h \in applied.held : User[h[1].conn] # seat => Pending("all")

\* Work that can still admit output of connection c, or its release.
Outstanding(c) ==
  ~Idle \/ Waiting(c) \/ nested.conn = c

\* A connection that has closed, and whose accepted output has been admitted,
\* holds no key: everything it sent is followed by a release, unless the
\* synthetic queue had no room for the release behind what it sent.
ClosedHoldsNothing ==
  ~refused
    => \A c \in Conns \ (clients \cup unused \cup overtaken) :
         ~Outstanding(c) => \A h \in enqueued.held : h[1].conn # c

\* A hook that an open connection unsubscribed, or lost to a quarantine or to
\* fail-open, holds nothing and can make no new hold, whatever its lane still
\* decides (hook_lanes.inc:118).
RevokedHoldsNothing ==
  Idle /\ ~refused
    => \A h \in enqueued.held :
         h[1].hook /\ h[1].conn \in clients => h[1].conn \in hooks

\* A Modify hold ends with the physical key it replaced, whatever the hooks
\* decide about that key's release.
SourceHoldsEnd ==
  Idle /\ ~refused
    => \A h \in enqueued.held :
         \/ h[1].src \in down \cup {None}
         \/ \E i \in DOMAIN lane :
              lane[i].origin = "physical" /\ lane[i].action.key = h[1].src

-----------------------------------------------------------------------------
(* Liveness: the sequencer and the lane are loops that block only on their *)
(* own queues, callbacks end by their deadline, and the main thread always *)
(* returns to its loop, which serves the synthetic queue and fail-open.    *)

Fairness ==
  /\ WF_vars(SequencerStep)
  /\ WF_vars(LaneStep)
  /\ WF_vars(MainStep)
  /\ WF_vars(FailOpen)
  /\ WF_vars(Ingress)

FairSpec == Spec /\ Fairness

\* What a closed connection held on the devices is released, unless its release
\* had to overtake what it sent.
HoldsReleased ==
  \A c \in Conns :
    c \notin clients \cup unused
      ~> (refused \/ c \in overtaken \/ \A h \in applied.held : h[1].conn # c)

=============================================================================
