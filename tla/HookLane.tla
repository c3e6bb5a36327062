------------------------------ MODULE HookLane ------------------------------
(***************************************************************************)
(* One hook lane (hook_lanes.inc): the thread that takes the physical      *)
(* events of one hook type, one at a time, through the callback streams    *)
(* subscribed to it, and the main thread that dispatches the events,       *)
(* receives the clients' decisions and accounts for their failures.        *)
(*                                                                         *)
(* The decision queue is one slot.  A reply is accepted in two steps, as   *)
(* in handle_hook_decision: the main thread compares it with the lane's    *)
(* current event and responder, and later puts it into the slot; the lane  *)
(* may have moved on in between.  Giving up on a callback takes the lane   *)
(* three steps (retire the reply, clear the responder, mark the stream).   *)
(*                                                                         *)
(* A lane waits for its turn on the stream's call stack before each call;  *)
(* CallStack models that protocol, here the wait ends either way.  The     *)
(* Sends a callback makes while the lane waits for it, which run their     *)
(* events inside that wait, are NestedSends' subject.                      *)
(***************************************************************************)
EXTENDS Integers, Sequences, FiniteSets

CONSTANTS
  Clients,       \* the callback streams of the seat's user
  MaxEvents,     \* bound on the physical events dispatched in one behaviour
  QueueSize,     \* KSI_MAX_LANE_ACTIONS
  Reserve,       \* KSI_LANE_TRANSITION_RESERVE
  CommandSize,   \* KSI_MAX_PENDING_COMMANDS
  MaxTrouble,    \* bound on the disturbances (see Trouble) in one behaviour
  MaxStrikes,    \* KSI_MAX_CONSECUTIVE_HOOK_FAILURES
  Kinds,         \* the kinds of events dispatched: "key", "motion"
  Verdicts       \* the decisions clients make: "pass", "block", "modify"

ASSUME BoundAssumption ==
  /\ MaxEvents \in Nat
  /\ QueueSize \in Nat /\ Reserve \in 0..QueueSize
  /\ CommandSize \in Nat
  /\ MaxTrouble \in Nat
  /\ MaxStrikes \in Nat \ {0}

ASSUME InputAssumption ==
  /\ Kinds \subseteq {"key", "motion"}
  /\ Verdicts \subseteq {"pass", "block", "modify"}

None == "none"

ASSUME ClientAssumption == None \notin Clients

VARIABLES
  conn,         \* conn[c]: "up", or what closed the stream
  order,        \* clients subscribed to this hook type, the newest first
  quarantined,  \* quarantined[c]: the hook waits for its retry time
  strikes,      \* strikes[c]: consecutive_hook_failures
  trouble,      \* disturbances so far, at most MaxTrouble
  owner,        \* the clients' user owns the seat
  failOpen,     \* g_fail_open_requested
  failures,     \* LANE_HOOK_FAILURE commands queued to the main thread
  stalled,      \* stalled[c]: the stream's stalled bit for this lane
  expired,      \* expired[c]: the stream's retired callback, or 0
  pending,      \* pending[c]: callbacks delivered to c and not answered
  held,         \* decision the main thread has checked and not yet pushed
  slot,         \* lane->decision_queue
  queue,        \* lane->action_queue: events with their subscriber snapshots
  nextEvent,    \* next_event_id
  kind,         \* kind[e]
  cancelled,    \* events whose flush generation is not the lane's any more
  foreign,      \* events whose input generation is not the seat's any more
  pc,           \* where the lane thread is
  cur,          \* lane->current_event_id
  subs,         \* the subscribers of cur not yet finished with
  responder,    \* lane->current_responder_connection_id
  verdict,      \* the final decision so far, and who made it
  decider,
  given,        \* given[c][e]: what c replied for e while e was in flight (history)
  fate          \* fate[e]: what became of event e

clientVars == <<conn, order, quarantined, strikes>>
seatVars == <<owner, failOpen, failures>>
streamVars == <<stalled, expired, pending>>
decisionVars == <<held, slot, given>>
eventVars == <<queue, nextEvent, kind, cancelled, foreign>>
laneVars == <<pc, cur, subs, responder, verdict, decider>>
vars == <<trouble, clientVars, seatVars, streamVars, decisionVars, eventVars, laneVars, fate>>

Event == 1..MaxEvents
NoDecision == [event |-> 0, client |-> None, verdict |-> "pass"]

\* conn[c] says why a stream was closed: by its client ("closed"); by MaxStrikes
\* failures ("struck"); because its reply matched no callback ("late"), came
\* while the user did not own the seat ("seat"), found the decision slot taken
\* ("slot"), or was malformed or beyond the client's rights ("refused");
\* because the user revoked the permission ("revoked").
\*
\* pc, the lane thread: between events ("idle"); about to look at its next
\* subscriber ("next"); waiting for its turn ("turn"); about to write the event
\* ("send"); waiting for the decision ("wait"); having retired the reply
\* ("expired"); having cleared the responder ("retired"); about to emit
\* ("finish").
\*
\* fate[e] is "none", "queued", and in the end "passed", "blocked", "modified",
\* "lost" or "dropped".
Init ==
  /\ conn = [c \in Clients |-> "up"]
  /\ order = <<>>
  /\ quarantined = [c \in Clients |-> FALSE]
  /\ strikes = [c \in Clients |-> 0]
  /\ trouble = 0
  /\ owner = TRUE
  /\ failOpen = FALSE
  /\ failures = <<>>
  /\ stalled = [c \in Clients |-> FALSE]
  /\ expired = [c \in Clients |-> 0]
  /\ pending = [c \in Clients |-> <<>>]
  /\ held = NoDecision
  /\ slot = NoDecision
  /\ queue = <<>>
  /\ nextEvent = 1
  /\ kind = [e \in Event |-> "none"]
  /\ cancelled = {}
  /\ foreign = {}
  /\ pc = "idle"
  /\ cur = 0
  /\ subs = <<>>
  /\ responder = None
  /\ verdict = "pass"
  /\ decider = None
  /\ given = [c \in Clients |-> [e \in Event |-> "none"]]
  /\ fate = [e \in Event |-> "none"]

-----------------------------------------------------------------------------
(* Helpers of both threads.                                                *)

Up(c) == conn[c] = "up"
Subscribers == {order[i] : i \in 1..Len(order)}
Subscribed(c) == c \in Subscribers

\* Some of the subscribers, sorted as create_hook_lane_event sorts its candidates:
\* by the ordinal of the subscription, the newest first.
Position(c) == CHOOSE i \in 1..Len(order) : order[i] = c
Sorted(S) ==
  CHOOSE s \in [1..Cardinality(S) -> S] :
    \A i, j \in 1..Cardinality(S) : i < j => Position(s[i]) < Position(s[j])
Without(c) == Sorted(Subscribers \ {c})

\* output_owner_is_live_locked: the hook may still produce Modify output.
Live(c) == Up(c) /\ Subscribed(c) /\ ~quarantined[c]

\* Events dispatched and not finished.
InFlight == {e \in Event : fate[e] = "queued"}

\* lane_event_cancelled.
Cancelled(e) == e \in cancelled

\* A mutant: a transition may overtake its lane as a motion may.
KeepsNoOrder(k) == FALSE

\* keeps_lane_order: a key or button transition, unlike a motion, may not
\* overtake its lane.
KeepsLaneOrder(k) == k = "key"

\* One of the disturbances MaxTrouble bounds: a client unsubscribes, closes or is
\* revoked, the seat changes hands, the panic chord, a failing write, a full
\* output queue.
Trouble == trouble < MaxTrouble /\ trouble' = trouble + 1

\* lane_post_hook_failure: a full command ring requests fail-open instead.
PostFailure(c) ==
  IF Len(failures) < CommandSize
    THEN failures' = Append(failures, c) /\ UNCHANGED failOpen
    ELSE failOpen' = TRUE /\ UNCHANGED failures

\* remove_client: the stream is invalidated, its subscriptions and its account end.
RemoveClient(c, why) ==
  /\ conn' = [conn EXCEPT ![c] = why]
  /\ order' = Without(c)
  /\ pending' = [pending EXCEPT ![c] = <<>>]
  /\ quarantined' = [quarantined EXCEPT ![c] = FALSE]
  /\ strikes' = [strikes EXCEPT ![c] = 0]

-----------------------------------------------------------------------------
(* The main thread.                                                        *)

\* It is between two requests, not inside handle_hook_decision.
MainFree == held = NoDecision

\* create_hook_lane_event's snapshot: newest subscription first, and none of
\* these clients' while another user owns the seat.
Snapshot == Sorted({c \in Subscribers : owner /\ ~quarantined[c]})

\* enqueue_hook_lane_event's admission: motions leave a reserve to transitions.
Fits(k) == Len(queue) + (IF KeepsLaneOrder(k) THEN 0 ELSE Reserve) < QueueSize

\* complete_hook_dispatch_fallback, for an event its lane could not take: a
\* motion passes (unless the output queue is full), a transition fails open.
Fallback(e, k) ==
  \/ /\ ~KeepsLaneOrder(k)
     /\ fate' = [fate EXCEPT ![e] = "passed"]
     /\ UNCHANGED <<failOpen, trouble>>
  \/ /\ (KeepsLaneOrder(k) /\ UNCHANGED trouble) \/ Trouble
     /\ fate' = [fate EXCEPT ![e] = "lost"]
     /\ failOpen' = TRUE

\* daemon_handle_hook_event, while this or another user owns the seat.
Dispatch(k) ==
  LET e == nextEvent
  IN /\ MainFree
     /\ e <= MaxEvents
     /\ nextEvent' = e + 1
     /\ kind' = [kind EXCEPT ![e] = k]
     /\ IF Fits(k)
          THEN /\ queue' = Append(queue, [event |-> e, subs |-> Snapshot])
               /\ fate' = [fate EXCEPT ![e] = "queued"]
               /\ UNCHANGED <<failOpen, trouble>>
          ELSE /\ Fallback(e, k)
               /\ UNCHANGED queue
     /\ UNCHANGED <<clientVars, owner, failures, streamVars, decisionVars, cancelled,
                    foreign, laneVars>>

\* handle_hook_subscription.
Subscribe(c) ==
  /\ MainFree
  /\ owner
  /\ Up(c)
  /\ ~Subscribed(c)
  /\ order' = <<c>> \o order
  /\ UNCHANGED <<trouble, conn, quarantined, strikes, seatVars, streamVars,
                 decisionVars, eventVars, laneVars, fate>>

Unsubscribe(c) ==
  /\ MainFree
  /\ Trouble
  /\ Up(c)
  /\ Subscribed(c)
  /\ order' = Without(c)
  /\ UNCHANGED <<conn, quarantined, strikes, seatVars, streamVars,
                 decisionVars, eventVars, laneVars, fate>>

\* handle_hook_decision up to its push: c answers its oldest callback with v.
\* The reply is for the callback the lane waits for, or for the one the stream
\* retired last, or it is refused.
HandleReply(c, v) ==
  LET e == Head(pending[c])
  IN /\ MainFree
     /\ Up(c)
     /\ pending[c] # <<>>
     /\ given' = IF fate[e] = "queued" THEN [given EXCEPT ![c][e] = v] ELSE given
     /\ \/ /\ cur = e /\ responder = c
           /\ held' = [event |-> e, client |-> c, verdict |-> v]
           /\ pending' = [pending EXCEPT ![c] = Tail(@)]
           /\ UNCHANGED <<conn, order, expired, quarantined, strikes>>
        \/ /\ ~(cur = e /\ responder = c)
           /\ expired[c] = e
           /\ expired' = [expired EXCEPT ![c] = 0]
           /\ \/ /\ pending' = [pending EXCEPT ![c] = Tail(@)]
                 /\ UNCHANGED <<conn, order, quarantined, strikes>>
              \/ RemoveClient(c, "refused")
           /\ UNCHANGED held
        \/ /\ ~(cur = e /\ responder = c)
           /\ expired[c] # e
           /\ RemoveClient(c, "late")
           /\ UNCHANGED <<expired, held>>
     /\ UNCHANGED <<trouble, seatVars, stalled, slot,
                    eventVars, laneVars, fate>>

\* The rest of handle_hook_decision: the lane may no longer be waiting.  A reply
\* that is malformed or not allowed becomes Pass and ends the stream; one that
\* reports the callback's failure becomes Pass whoever owns the seat.  The strikes
\* are forgotten when 60 seconds have passed since the last quarantine.
PushDecision ==
  LET c == held.client
      pass == [held EXCEPT !.verdict = "pass"]
  IN /\ held # NoDecision
     /\ held' = NoDecision
     /\ \/ /\ slot' = IF slot = NoDecision THEN pass ELSE slot
           /\ RemoveClient(c, "refused") \/ (~owner /\ RemoveClient(c, "seat"))
        \/ /\ owner \/ held.verdict = "pass"
           /\ slot # NoDecision
           /\ RemoveClient(c, "slot")
           /\ UNCHANGED slot
        \/ /\ owner \/ held.verdict = "pass"
           /\ slot = NoDecision
           /\ slot' = held
           /\ \/ owner /\ strikes' = [strikes EXCEPT ![c] = 0]
              \/ UNCHANGED strikes
           /\ UNCHANGED <<conn, order, pending, quarantined>>
     /\ UNCHANGED <<trouble, seatVars, stalled, expired, given,
                    eventVars, laneVars, fate>>

\* LANE_HOOK_FAILURE: record_client_hook_failure quarantines the hook, counting
\* a strike (the first one again after 60 quiet seconds), and removes the client
\* at the last one.
RecordFailure ==
  LET c == Head(failures)
  IN /\ MainFree
     /\ failures # <<>>
     /\ failures' = Tail(failures)
     /\ IF owner /\ Live(c)
          THEN \E n \in {strikes[c] + 1, 1} :
                 /\ stalled' = [stalled EXCEPT ![c] = TRUE]
                 /\ IF n >= MaxStrikes
                      THEN RemoveClient(c, "struck")
                      ELSE /\ strikes' = [strikes EXCEPT ![c] = n]
                           /\ quarantined' = [quarantined EXCEPT ![c] = TRUE]
                           /\ UNCHANGED <<conn, order, pending>>
          ELSE UNCHANGED <<strikes, quarantined, stalled, conn, order, pending>>
     /\ UNCHANGED <<trouble, owner, failOpen, expired, decisionVars,
                    eventVars, laneVars, fate>>

\* retry_quarantined_hooks: the retry time of c's quarantine has come.
Rearm(c) ==
  /\ MainFree
  /\ Up(c)
  /\ quarantined[c]
  /\ quarantined' = [quarantined EXCEPT ![c] = FALSE]
  /\ stalled' = [stalled EXCEPT ![c] = FALSE]
  /\ UNCHANGED <<trouble, conn, order, strikes, seatVars, expired, pending,
                 decisionVars, eventVars, laneVars, fate>>

\* The physical panic chord (daemon_handle_panic) while hooks are active.
Panic ==
  /\ MainFree
  /\ Trouble
  /\ \E c \in Clients : Live(c)
  /\ ~failOpen
  /\ failOpen' = TRUE
  /\ UNCHANGED <<clientVars, owner, failures, streamVars, decisionVars, eventVars,
                 laneVars, fate>>

\* apply_fail_open_if_requested: clear_hook_state ends every subscription and
\* flushes the lane.
ApplyFailOpen ==
  /\ MainFree
  /\ failOpen
  /\ failOpen' = FALSE
  /\ order' = <<>>
  /\ strikes' = [c \in Clients |-> 0]
  /\ cancelled' = cancelled \cup InFlight
  /\ UNCHANGED <<trouble, conn, quarantined, owner, failures, streamVars,
                 decisionVars, queue, nextEvent, kind, foreign, laneVars, fate>>

\* set_active_input_owner: the user loses or regains the seat; subscriptions
\* stay, everything in flight belongs to the former owner.
SeatChange ==
  /\ MainFree
  /\ Trouble
  /\ owner' = ~owner
  /\ cancelled' = cancelled \cup InFlight
  /\ foreign' = foreign \cup InFlight
  /\ UNCHANGED <<clientVars, failOpen, failures, streamVars, decisionVars, queue,
                 nextEvent, kind, laneVars, fate>>

\* The client closes its connection.
Close(c) ==
  /\ MainFree
  /\ Trouble
  /\ Up(c)
  /\ RemoveClient(c, "closed")
  /\ UNCHANGED <<seatVars, stalled, expired,
                 decisionVars, eventVars, laneVars, fate>>

\* invalidate_connected_permissions: the user revokes c's permission to monitor
\* input; the stream is invalidated and the lane flushed.
Revoke(c) ==
  /\ MainFree
  /\ Trouble
  /\ Up(c)
  /\ RemoveClient(c, "revoked")
  /\ stalled' = [stalled EXCEPT ![c] = FALSE]
  /\ cancelled' = cancelled \cup InFlight
  /\ UNCHANGED <<seatVars, expired, decisionVars, queue, nextEvent,
                 kind, foreign, laneVars, fate>>

-----------------------------------------------------------------------------
(* The lane thread.                                                        *)

\* lane_thread_main takes the next event; lane_process_event starts on it.
LanePop ==
  /\ pc = "idle"
  /\ queue # <<>>
  /\ queue' = Tail(queue)
  /\ cur' = Head(queue).event
  /\ subs' = Head(queue).subs
  /\ verdict' = "pass"
  /\ decider' = None
  /\ pc' = IF Cancelled(Head(queue).event) THEN "finish" ELSE "next"
  /\ UNCHANGED <<trouble, clientVars, seatVars, streamVars, decisionVars, nextEvent, kind,
                 cancelled, foreign, responder, fate>>

\* The next subscriber of the snapshot, passed over when it is stalled.
LaneNext ==
  /\ pc = "next"
  /\ \/ /\ subs = <<>>
        /\ pc' = "finish"
        /\ UNCHANGED subs
     \/ /\ subs # <<>>
        /\ stalled[Head(subs)]
        /\ subs' = Tail(subs)
        /\ UNCHANGED pc
     \/ /\ subs # <<>>
        /\ ~stalled[Head(subs)]
        /\ pc' = "turn"
        /\ UNCHANGED subs
  /\ UNCHANGED <<trouble, clientVars, seatVars, streamVars, decisionVars, eventVars, cur,
                 responder, verdict, decider, fate>>

\* hook_send_ref_wait_event_turn returns: with the turn, which only a valid
\* stream grants, or without it.
LaneTurn ==
  LET c == Head(subs)
  IN /\ pc = "turn"
     /\ \/ /\ Cancelled(cur)
           /\ pc' = "finish"
           /\ UNCHANGED <<subs, responder>>
        \/ /\ Up(c)
           /\ ~Cancelled(cur)
           /\ responder' = c
           /\ pc' = "send"
           /\ UNCHANGED subs
        \/ /\ ~Cancelled(cur)
           /\ subs' = Tail(subs)
           /\ pc' = "next"
           /\ UNCHANGED responder
     /\ UNCHANGED <<trouble, clientVars, seatVars, streamVars, decisionVars, eventVars, cur,
                    verdict, decider, fate>>

\* hook_send_ref_send: a write may fail at any time, and fails on a closed stream.
LaneSend ==
  LET c == Head(subs)
  IN /\ pc = "send"
     /\ \/ /\ Up(c)
           /\ pending' = [pending EXCEPT ![c] = Append(@, cur)]
           /\ pc' = "wait"
           /\ UNCHANGED <<subs, responder, failures, failOpen, trouble>>
        \/ /\ (~Up(c) /\ UNCHANGED trouble) \/ (Up(c) /\ Trouble)
           /\ responder' = None
           /\ PostFailure(c)
           /\ subs' = Tail(subs)
           /\ pc' = "next"
           /\ UNCHANGED pending
     /\ UNCHANGED <<clientVars, owner, stalled, expired,
                    decisionVars, eventVars, cur, verdict, decider, fate>>

\* lane_wait_for_matching_decision takes what is in the slot and discards what
\* does not answer its question.
Answers(d, e, c) == d.event = e /\ d.client = c

\* A mutant: what was popped and did not answer is used when nothing else comes.
LaneTakeUnmatched ==
  LET c == Head(subs)
  IN /\ pc = "wait"
     /\ slot # NoDecision
     /\ slot' = NoDecision
     /\ verdict' = slot.verdict
     /\ decider' = slot.client
     /\ IF Answers(slot, cur, c)
          THEN /\ responder' = None
               /\ stalled' = [stalled EXCEPT ![c] = FALSE]
               /\ subs' = Tail(subs)
               /\ pc' = IF slot.verdict = "pass" THEN "next" ELSE "finish"
          ELSE UNCHANGED <<responder, stalled, subs, pc>>
     /\ UNCHANGED <<trouble, clientVars, seatVars, expired,
                    pending, held, given, eventVars, cur, fate>>

\* The answer is taken.  The nested events that lane_wait_for_matching_decision
\* runs before it are in NestedSends.
LaneTake ==
  LET c == Head(subs)
  IN /\ pc = "wait"
     /\ slot # NoDecision
     /\ slot' = NoDecision
     /\ IF Answers(slot, cur, c)
          THEN /\ responder' = None
               /\ stalled' = [stalled EXCEPT ![c] = FALSE]
               /\ subs' = Tail(subs)
               /\ IF slot.verdict = "pass"
                    THEN pc' = "next" /\ UNCHANGED <<verdict, decider>>
                    ELSE pc' = "finish" /\ verdict' = slot.verdict /\ decider' = slot.client
          ELSE UNCHANGED <<responder, stalled, subs, pc, verdict, decider>>
     /\ UNCHANGED <<trouble, clientVars, seatVars, expired,
                    pending, held, given, eventVars, cur, fate>>

\* A mutant: the wait ends with the stream or the event, and has no deadline.
LaneExpireNoDeadline ==
  /\ pc = "wait"
  /\ Cancelled(cur) \/ ~Up(Head(subs))
  /\ expired' = [expired EXCEPT ![Head(subs)] = cur]
  /\ pc' = "expired"
  /\ UNCHANGED <<trouble, clientVars, seatVars, stalled, pending, decisionVars, eventVars,
                 cur, subs, responder, verdict, decider, fate>>

\* A mutant: the responder is cleared and the reply not retired.
LaneExpireForgetting ==
  /\ pc = "wait"
  /\ responder' = None
  /\ pc' = "expired"
  /\ UNCHANGED <<trouble, clientVars, seatVars, streamVars, decisionVars, eventVars, cur,
                 subs, verdict, decider, fate>>

\* The callback's deadline passes, its event is cancelled or its stream closes:
\* the reply is retired first, so that a late one can be told from a wrong one.
LaneExpire ==
  /\ pc = "wait"
  /\ expired' = [expired EXCEPT ![Head(subs)] = cur]
  /\ pc' = "expired"
  /\ UNCHANGED <<trouble, clientVars, seatVars, stalled, pending, decisionVars, eventVars, cur,
                 subs, responder, verdict, decider, fate>>

\* lane_clear_responder.
LaneClearResponder ==
  /\ pc = "expired"
  /\ responder' = None
  /\ pc' = "retired"
  /\ UNCHANGED <<trouble, clientVars, seatVars, streamVars, decisionVars, eventVars, cur, subs,
                 verdict, decider, fate>>

\* Unless the event was cancelled, the stream is stalled and the failure posted.
LaneStall ==
  LET c == Head(subs)
  IN /\ pc = "retired"
     /\ IF Cancelled(cur)
          THEN /\ pc' = "finish"
               /\ UNCHANGED <<stalled, subs, failures, failOpen>>
          ELSE /\ stalled' = [stalled EXCEPT ![c] = TRUE]
               /\ PostFailure(c)
               /\ subs' = Tail(subs)
               /\ pc' = "next"
     /\ UNCHANGED <<trouble, clientVars, owner, expired, pending,
                    decisionVars, eventVars, cur, responder, verdict, decider, fate>>

\* lane_emit_output and the end of lane_process_event.  Output of a former
\* owner's input is dropped; a replacement needs a live hook and is withdrawn by
\* a flush, the event then passes; a full output queue fails open (it may have
\* no room for the suppressed release of a key either).
LaneFinish ==
  LET pass == /\ fate' = [fate EXCEPT ![cur] = "passed"]
              /\ UNCHANGED <<failOpen, trouble>>
      full == /\ Trouble
              /\ fate' = [fate EXCEPT ![cur] = "lost"]
              /\ failOpen' = TRUE
      suppress(how) == /\ fate' = [fate EXCEPT ![cur] = how]
                       /\ \/ UNCHANGED <<failOpen, trouble>>
                          \/ Trouble /\ failOpen' = TRUE
  IN /\ pc = "finish"
     /\ \/ /\ cur \in foreign
           /\ fate' = [fate EXCEPT ![cur] = "dropped"]
           /\ UNCHANGED <<failOpen, trouble>>
        \/ /\ cur \notin foreign
           /\ \/ verdict = "block" /\ suppress("blocked")
              \/ verdict = "modify" /\ Live(decider) /\ ~Cancelled(cur) /\ suppress("modified")
              \/ verdict # "block" /\ (pass \/ full)
     /\ cur' = 0
     /\ subs' = <<>>
     /\ responder' = None
     /\ verdict' = "pass"
     /\ decider' = None
     /\ pc' = "idle"
     /\ cancelled' = cancelled \ {cur}
     /\ foreign' = foreign \ {cur}
     /\ given' = [c \in Clients |-> [given[c] EXCEPT ![cur] = "none"]]
     /\ UNCHANGED <<clientVars, owner, failures, streamVars, held, slot, queue, nextEvent,
                    kind>>

-----------------------------------------------------------------------------

Lane ==
  \/ LanePop \/ LaneNext \/ LaneTurn \/ LaneSend \/ LaneTake
  \/ LaneExpire \/ LaneClearResponder \/ LaneStall \/ LaneFinish

Main ==
  \/ \E k \in Kinds : Dispatch(k)
  \/ \E c \in Clients : Subscribe(c) \/ Unsubscribe(c) \/ Rearm(c) \/ Close(c) \/ Revoke(c)
  \/ \E c \in Clients, v \in Verdicts : HandleReply(c, v)
  \/ PushDecision \/ RecordFailure \/ Panic \/ ApplyFailOpen \/ SeatChange

\* The bounds are used up and nothing is in flight.
Finished ==
  /\ nextEvent > MaxEvents /\ trouble = MaxTrouble
  /\ InFlight = {} /\ MainFree /\ failures = <<>> /\ ~failOpen
  /\ UNCHANGED vars

Next == Main \/ Lane \/ Finished

Spec == Init /\ [][Next]_vars

\* The lane thread runs, its waits are bounded by deadlines.
FairSpec == Spec /\ WF_vars(Lane)

-----------------------------------------------------------------------------
(* Properties.                                                             *)

\* An event is blocked or replaced only by a decision its decider really made
\* for that event, and whose callback had not been given up: neither a decision
\* left in the slot by an earlier event nor one that came too late for its own
\* decides (lane_wait_for_matching_decision).
Attributed ==
  [][\A e \in Event :
       (fate[e] = "queued" /\ fate'[e] \in {"blocked", "modified"}) =>
         /\ decider # None
         /\ expired[decider] # e
         /\ given[decider][e] = (IF fate'[e] = "blocked" THEN "block" ELSE "modify")]_vars

\* Key transitions leave the daemon in the order in which they arrived, also
\* when the lane is full or fails open (keeps_lane_order, the lane's FIFO).
TransitionOrder ==
  [][\A e \in Event :
       (fate[e] # "passed" /\ fate'[e] = "passed" /\ kind'[e] = "key") =>
         \A later \in Event :
           (later > e /\ kind[later] = "key") => fate[later] # "passed"]_vars

\* A reply that is the client's only outstanding one is never taken for a wrong
\* one, however late it is: the reply is retired before the responder is cleared.
LateOnlyWhenBehind ==
  [][\A c \in Clients :
       (Up(c) /\ conn'[c] = "late") => Len(pending[c]) > 1]_vars

\* Every queued event is finished: no callback, cancelled or not, holds the
\* lane for ever.
EventsFinish ==
  \A e \in Event : (fate[e] = "queued") ~> (fate[e] # "queued")

=============================================================================
