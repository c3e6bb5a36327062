---------------------------- MODULE NestedSends ----------------------------
(***************************************************************************)
(* The Sends a hook makes from inside its callback (hook_lanes.inc, the    *)
(* recursive branch of handle_synthesize_input in protocol_server.inc).    *)
(*                                                                         *)
(* The lane waits for a callback's decision and meanwhile runs the Sends   *)
(* that callback makes: each input of a Send is an event of its own, goes  *)
(* through the subscribed hooks, the sender's included, and may be the     *)
(* parent of further Sends.  So the lane thread is a stack of events and   *)
(* transactions, and the three atomics by which the main thread knows what *)
(* the lane waits for are saved and restored around every event.           *)
(*                                                                         *)
(* A client follows the protocol: it has one thread, Sends on this stream  *)
(* only from a callback, reads only while it waits for a message, and      *)
(* answers what it was called for last.  It may be slow, and close.        *)
(*                                                                         *)
(* One lane and one hook type.  What else may happen to a physical event   *)
(* is in HookLane, turns contended by two lanes are in CallStack, what     *)
(* becomes of admitted output is in OutputQueue.                           *)
(***************************************************************************)
EXTENDS Integers, Sequences, FiniteSets, SequencesExt

CONSTANTS
  Clients,       \* the callback streams of the seat's user
  MaxEvents,     \* bound on the physical events dispatched in one behaviour
  MaxSends,      \* bound on the Sends made in one behaviour
  Members,       \* the inputs of a Send, such as a key's press and release
  MaxDepth,      \* KSI_MAX_RECURSION_DEPTH
  CommandSize,   \* KSI_MAX_PENDING_COMMANDS
  MaxTrouble,    \* bound on the disturbances (see Trouble) in one behaviour
  MaxStrikes,    \* KSI_MAX_CONSECUTIVE_HOOK_FAILURES
  Verdicts       \* the decisions clients make: "pass", "block", "modify"

ASSUME NestedBounds ==
  /\ {MaxEvents, MaxSends, MaxDepth, CommandSize, MaxTrouble} \subseteq Nat
  /\ {Members, MaxStrikes} \subseteq Nat \ {0}
  /\ Verdicts \subseteq {"pass", "block", "modify"}

None == "none"

ASSUME NestedClients == None \notin Clients

VARIABLES
  conn,         \* conn[c]: "up", or what ended the stream
  order,        \* the subscribed clients, the newest subscription first
  quarantined,  \* quarantined[c]: the hook waits for its retry time
  strikes,      \* strikes[c]: consecutive_hook_failures
  stalled,      \* stalled[c]: the stream's stalled bit for this lane
  expired,      \* expired[c]: the stream's retired callback, or 0
  calls,        \* calls[c]: the stream's call stack, frames [event, pumping]
  inbox,        \* inbox[c]: callbacks and answers written to c, not yet read
  running,      \* running[c]: c's own stack of callbacks and Sends
  owner,        \* the clients' user owns the seat
  failOpen,     \* g_fail_open_requested
  commands,     \* the main thread's command ring
  held,         \* decision the main thread has checked and not yet pushed
  slot,         \* lane->decision_queue
  asked,        \* Send the main thread has checked and not yet queued, or 0
  queue,        \* lane->action_queue
  nested,       \* lane->nested_queue
  events,       \* every event so far, physical ones and members of Sends
  sends,        \* every recursive transaction so far
  lane,         \* what the lane thread is in: events and transactions
  at,           \* lane->current_event_id, _responder_connection_id, _nesting_depth
  left,         \* the members of Sends put out, in order (history)
  stopped,      \* the members blocked or replaced by a hook (history)
  refused,      \* the Sends some output of which found no room (history)
  trouble       \* disturbances so far, at most MaxTrouble

clientVars == <<conn, order, quarantined, strikes>>
streamVars == <<stalled, expired, calls>>
scriptVars == <<inbox, running>>
mainVars == <<owner, failOpen, commands, held, slot, asked>>
eventVars == <<queue, nested, events, sends>>
outVars == <<left, stopped, refused>>
vars == <<clientVars, streamVars, scriptVars, mainVars, eventVars, lane, at, outVars, trouble>>

NoDecision == [event |-> 0, client |-> None, verdict |-> "pass"]
Nowhere == [event |-> 0, responder |-> None, depth |-> 0]

Init ==
  /\ conn = [c \in Clients |-> "up"]
  /\ order \in {s \in [1..Cardinality(Clients) -> Clients] :
                  \A c \in Clients : \E i \in DOMAIN s : s[i] = c}
  /\ quarantined = [c \in Clients |-> FALSE]
  /\ strikes = [c \in Clients |-> 0]
  /\ stalled = [c \in Clients |-> FALSE]
  /\ expired = [c \in Clients |-> 0]
  /\ calls = [c \in Clients |-> <<>>]
  /\ inbox = [c \in Clients |-> <<>>]
  /\ running = [c \in Clients |-> <<>>]
  /\ owner = TRUE
  /\ failOpen = FALSE
  /\ commands = <<>>
  /\ held = NoDecision
  /\ slot = NoDecision
  /\ asked = 0
  /\ queue = <<>>
  /\ nested = <<>>
  /\ events = <<>>
  /\ sends = <<>>
  /\ lane = <<>>
  /\ at = Nowhere
  /\ left = <<>>
  /\ stopped = {}
  /\ refused = {}
  /\ trouble = 0

-----------------------------------------------------------------------------
(* Helpers of the threads.                                                 *)

Up(c) == conn[c] = "up"

\* One of the disturbances MaxTrouble bounds: a client closes or is revoked, the
\* seat changes hands, a failing write, a full output queue.
Trouble == trouble < MaxTrouble /\ trouble' = trouble + 1

\* output_owner_is_live_locked: the hook may still produce Modify output.
Live(c) == Up(c) /\ Contains(order, c) /\ ~quarantined[c]

\* lane_event_cancelled; a flush and a seat change reach what is in flight.
Cancelled(e) == events[e].flushed
Flushed(foreign) ==
  /\ events' = [e \in DOMAIN events |->
                  IF events[e].open THEN [events[e] EXCEPT !.flushed = TRUE] ELSE events[e]]
  /\ sends' = [s \in DOMAIN sends |->
                 IF sends[s].result = "open"
                   THEN [sends[s] EXCEPT !.flushed = TRUE, !.foreign = @ \/ foreign]
                   ELSE sends[s]]

\* The command ring, and what its users do when it is full: lane_post_hook_failure
\* requests fail-open, synth_completion_release_one gives the stream up.
Room == Len(commands) < CommandSize
PostFailure(c) ==
  IF Room THEN commands' = Append(commands, [kind |-> "failure", of |-> c]) /\ UNCHANGED failOpen
          ELSE failOpen' = TRUE /\ UNCHANGED commands
\* A mutant: the answer is posted twice.
PostAckTwice(s, c) ==
  IF Len(commands) + 1 < CommandSize
    THEN commands' = commands \o <<[kind |-> "ack", of |-> s], [kind |-> "ack", of |-> s]>>
         /\ UNCHANGED conn
    ELSE conn' = [conn EXCEPT ![c] = IF @ = "up" THEN "broken" ELSE @] /\ UNCHANGED commands
\* A mutant: a full ring loses the answer and the stream stays open.
PostAckDropped(s, c) ==
  /\ commands' = IF Room THEN Append(commands, [kind |-> "ack", of |-> s]) ELSE commands
  /\ UNCHANGED conn
PostAck(s, c) ==
  IF Room THEN commands' = Append(commands, [kind |-> "ack", of |-> s]) /\ UNCHANGED conn
          ELSE conn' = [conn EXCEPT ![c] = IF @ = "up" THEN "broken" ELSE @] /\ UNCHANGED commands

\* remove_client.
RemoveClient(c, why) ==
  /\ conn' = [conn EXCEPT ![c] = why]
  /\ order' = SelectSeq(order, LAMBDA d : d # c)
  /\ quarantined' = [quarantined EXCEPT ![c] = FALSE]
  /\ strikes' = [strikes EXCEPT ![c] = 0]
  /\ inbox' = [inbox EXCEPT ![c] = <<>>]
  /\ running' = [running EXCEPT ![c] = <<>>]

Callback(e) == [kind |-> "callback", of |-> e]
Answer(s) == [kind |-> "send", of |-> s]
Tell(c, m) == inbox' = [inbox EXCEPT ![c] = Append(@, m)]

-----------------------------------------------------------------------------
(* The client, as client.c lets it be: wait_response and ksi_hook_next.    *)

\* It reads when it is idle or waits for a Send: a callback starts the handler,
\* an answer must be the one of the Send made last.
Read(c) ==
  LET m == Head(inbox[c])
      waits == running[c] # <<>> /\ Last(running[c]).kind = "send"
  IN /\ Up(c)
     /\ inbox[c] # <<>>
     /\ running[c] = <<>> \/ waits
     /\ \/ /\ m.kind = "callback"
           /\ running' = [running EXCEPT ![c] = Append(@, m)]
           /\ inbox' = [inbox EXCEPT ![c] = Tail(@)]
           /\ UNCHANGED clientVars
        \/ /\ waits /\ m = Last(running[c])
           /\ running' = [running EXCEPT ![c] = Front(@)]
           /\ inbox' = [inbox EXCEPT ![c] = Tail(@)]
           /\ UNCHANGED clientVars
        \/ /\ m.kind = "send"
           /\ ~(waits /\ m = Last(running[c]))
           /\ RemoveClient(c, "unexpected")
     /\ UNCHANGED <<streamVars, mainVars, eventVars, lane, at, outVars, trouble>>

InCallback(c) == Up(c) /\ running[c] # <<>> /\ Last(running[c]).kind = "callback"

-----------------------------------------------------------------------------
(* The main thread.                                                        *)

\* It is between two requests.
MainFree == held = NoDecision /\ asked = 0

\* create_hook_lane_event: the event and its snapshot of the subscribers.
Subscribers == SelectSeq(order, LAMBDA c : owner /\ ~quarantined[c])
NewEvent(depth, s, i) ==
  [subs |-> SelectSeq(Subscribers, Up), depth |-> depth, send |-> s, member |-> i,
   open |-> TRUE, flushed |-> FALSE]

Physical == {e \in DOMAIN events : events[e].send = 0}

\* daemon_handle_hook_event.
Dispatch ==
  /\ MainFree
  /\ Cardinality(Physical) < MaxEvents
  /\ events' = Append(events, NewEvent(0, 0, 0))
  /\ queue' = Append(queue, Len(events) + 1)
  /\ UNCHANGED <<clientVars, streamVars, scriptVars, mainVars, nested, sends, lane, at, outVars,
                 trouble>>

\* handle_hook_decision up to its push: c's callback returns v.
HandleReply(c, v) ==
  LET e == Last(running[c]).of
      current == at.event = e /\ at.responder = c
  IN /\ MainFree
     /\ InCallback(c)
     /\ \/ /\ current
           /\ held' = [event |-> e, client |-> c, verdict |-> v]
           /\ running' = [running EXCEPT ![c] = Front(@)]
           /\ UNCHANGED <<clientVars, expired, inbox>>
        \/ /\ ~current /\ expired[c] = e
           /\ expired' = [expired EXCEPT ![c] = 0]
           /\ running' = [running EXCEPT ![c] = Front(@)]
           /\ UNCHANGED <<clientVars, held, inbox>>
        \/ /\ ~current /\ expired[c] # e
           /\ RemoveClient(c, "late")
           /\ UNCHANGED <<expired, held>>
     /\ UNCHANGED <<stalled, calls, owner, failOpen, commands, slot, asked, eventVars, lane, at,
                    outVars, trouble>>

\* The rest of handle_hook_decision.
PushDecision ==
  LET c == held.client
  IN /\ held # NoDecision
     /\ held' = NoDecision
     /\ slot' = IF slot # NoDecision THEN slot
                ELSE IF owner THEN held ELSE [held EXCEPT !.verdict = "pass"]
     /\ IF owner /\ slot = NoDecision
          THEN /\ \/ strikes' = [strikes EXCEPT ![c] = 0]
                  \/ UNCHANGED strikes
               /\ UNCHANGED <<conn, order, quarantined, scriptVars>>
          ELSE RemoveClient(c, IF owner THEN "slot" ELSE "seat")
     /\ UNCHANGED <<streamVars, owner, failOpen, commands, asked, eventVars, lane, at, outVars,
                    trouble>>

\* output_queue_push_synth with members of Send s: a full queue refuses them; a
\* former owner's are dropped on purpose, which the caller is not told.
Batch(s, i, j) == [k \in 1..(j - i + 1) |-> <<s, i + k - 1>>]
PutOut(s, foreign, batch, ok) ==
  \/ /\ ok
     /\ left' = IF foreign THEN left ELSE left \o batch
     /\ UNCHANGED <<refused, trouble>>
  \/ /\ ~ok /\ ~foreign /\ Trouble
     /\ refused' = refused \cup {s}
     /\ UNCHANGED left

\* hook_send_ref_current_event_id.
CurrentEvent(c) == IF calls[c] = <<>> THEN 0 ELSE Last(calls[c]).event

\* handle_synthesize_input up to hook_send_ref_begin_pump: c Sends from its
\* callback and waits.  Without a current callback the batch is an ordinary one;
\* it is answered at once when c may not Send, when its callback is not the
\* lane's any more, at the depth limit, and when it bypasses the hooks.
HandleSend(c) ==
  LET s == Len(sends) + 1
      parent == CurrentEvent(c)
      current == at.event = parent /\ at.responder = c
      made(result) ==
        sends' = Append(sends, [client |-> c, parent |-> parent, depth |-> at.depth + 1,
                                events |-> <<>>, result |-> result,
                                answered |-> result \in {"ok", "rejected"},
                                flushed |-> FALSE, foreign |-> FALSE])
  IN /\ MainFree
     /\ InCallback(c)
     /\ s <= MaxSends
     /\ running' = [running EXCEPT ![c] = Append(@, Answer(s))]
     /\ \/ /\ owner /\ parent = 0
           /\ made("outside")
           /\ UNCHANGED <<inbox, left, refused, asked, trouble>>
        \/ /\ ~owner \/ (parent # 0 /\ ~(current /\ at.depth + 1 <= MaxDepth))
           /\ made("rejected")
           /\ Tell(c, Answer(s))
           /\ UNCHANGED <<left, refused, asked, trouble>>
        \/ /\ owner /\ parent # 0 /\ current /\ at.depth + 1 <= MaxDepth
           /\ \/ /\ made("asked")
                 /\ asked' = s
                 /\ UNCHANGED <<inbox, left, refused, trouble>>
              \/ \E ok \in BOOLEAN :
                   /\ PutOut(s, FALSE, Batch(s, 1, Members), ok)
                   /\ made(IF ok THEN "ok" ELSE "rejected")
                   /\ Tell(c, Answer(s))
                   /\ UNCHANGED asked
     /\ UNCHANGED <<clientVars, streamVars, owner, failOpen, commands, held, slot, queue,
                    nested, events, lane, at, stopped>>

\* The rest of it.  The callback's frame is marked as pumping and the transaction
\* handed to the lane, each input with an event if some hook is to see it; the
\* lane may have given the callback up, and then the Send fails.  (That memory or
\* the nested queue runs out after the frame was marked is in CallStack.)
QueueSend ==
  LET s == asked
      c == sends[s].client
      n == Len(events)
  IN /\ asked # 0
     /\ asked' = 0
     /\ \/ /\ Up(c) /\ calls[c] # <<>> /\ Last(calls[c]) = [event |-> sends[s].parent, pumping |-> FALSE]
           /\ calls' = [calls EXCEPT ![c][Len(calls[c])].pumping = TRUE]
           /\ events' = IF Subscribers = <<>> THEN events
                        ELSE events \o [i \in 1..Members |-> NewEvent(sends[s].depth, s, i)]
           /\ sends' = [sends EXCEPT ![s].result = "open",
                                     ![s].events = [i \in 1..Members |->
                                                      IF Subscribers = <<>> THEN 0 ELSE n + i]]
           /\ nested' = Append(nested, s)
           /\ UNCHANGED <<conn, commands>>
        \/ /\ ~(Up(c) /\ calls[c] # <<>>
                /\ Last(calls[c]) = [event |-> sends[s].parent, pumping |-> FALSE])
           /\ sends' = [sends EXCEPT ![s].result = "rejected"]
           /\ PostAck(s, c)
           /\ UNCHANGED <<calls, events, nested>>
     /\ UNCHANGED <<order, quarantined, strikes, stalled, expired, scriptVars, owner, failOpen,
                    held, slot, queue, lane, at, outVars, trouble>>

\* The rest of handle_synthesize_input, an ordinary batch: it has passed the hooks,
\* or needed none (both in OutputQueue), and its sender is answered.
AnswerOutside(s) ==
  LET c == sends[s].client
  IN /\ MainFree
     /\ sends[s].result = "outside" /\ ~sends[s].answered
     /\ sends' = [sends EXCEPT ![s].answered = TRUE]
     /\ IF Up(c) THEN Tell(c, Answer(s)) ELSE UNCHANGED inbox
     /\ UNCHANGED <<clientVars, streamVars, running, mainVars, queue, nested, events, lane, at,
                    outVars, trouble>>

\* The frame of s's parent is the innermost one and pumping (hook_send_ref_end_pump;
\* with one lane no frame can be above it, CallStack has the wait for those).
CanResume(s) ==
  LET c == sends[s].client
  IN Up(c) /\ calls[c] # <<>> /\ Last(calls[c]) = [event |-> sends[s].parent, pumping |-> TRUE]

\* SYNTH_ACK, synth_completion_send_result: a recursive Send resumes its callback
\* before it is answered; when the callback is gone the stream is given up.
AckSend ==
  LET s == Head(commands).of
      c == sends[s].client
      recursive == sends[s].result # "rejected"
      break == conn' = [conn EXCEPT ![c] = IF @ = "up" THEN "broken" ELSE @]
  IN /\ MainFree
     /\ commands # <<>> /\ Head(commands).kind = "ack"
     /\ commands' = Tail(commands)
     /\ sends' = [sends EXCEPT ![s].answered = TRUE]
     /\ \/ /\ recursive /\ ~CanResume(s)
           /\ break
           /\ UNCHANGED <<calls, inbox, trouble>>
        \/ /\ recursive => CanResume(s)
           /\ calls' = IF recursive THEN [calls EXCEPT ![c][Len(calls[c])].pumping = FALSE] ELSE calls
           /\ \/ /\ Up(c)
                 /\ Tell(c, Answer(s))
                 /\ UNCHANGED <<conn, trouble>>
              \/ /\ (~Up(c) /\ UNCHANGED trouble) \/ (Up(c) /\ Trouble)
                 /\ break
                 /\ UNCHANGED inbox
     /\ UNCHANGED <<order, quarantined, strikes, stalled, expired, running, owner, failOpen, held,
                    slot, asked, queue, nested, events, lane, at, outVars>>

\* LANE_HOOK_FAILURE, record_client_hook_failure.
RecordFailure ==
  LET c == Head(commands).of
  IN /\ MainFree
     /\ commands # <<>> /\ Head(commands).kind = "failure"
     /\ commands' = Tail(commands)
     /\ IF owner /\ Contains(order, c) /\ ~quarantined[c]
          THEN \E n \in {strikes[c] + 1, 1} :
                 /\ stalled' = [stalled EXCEPT ![c] = TRUE]
                 /\ IF n >= MaxStrikes
                      THEN RemoveClient(c, "struck")
                      ELSE /\ strikes' = [strikes EXCEPT ![c] = n]
                           /\ quarantined' = [quarantined EXCEPT ![c] = TRUE]
                           /\ UNCHANGED <<conn, order, scriptVars>>
          ELSE UNCHANGED <<stalled, clientVars, scriptVars>>
     /\ UNCHANGED <<expired, calls, owner, failOpen, held, slot, asked, eventVars, lane, at,
                    outVars, trouble>>

\* retry_quarantined_hooks: the retry time of c's quarantine has come.
Rearm(c) ==
  /\ MainFree
  /\ quarantined[c]
  /\ quarantined' = [quarantined EXCEPT ![c] = FALSE]
  /\ stalled' = [stalled EXCEPT ![c] = FALSE]
  /\ UNCHANGED <<conn, order, strikes, expired, calls, scriptVars, mainVars, eventVars, lane, at,
                 outVars, trouble>>

\* apply_fail_open_if_requested: every subscription ends, the lane is flushed.
ApplyFailOpen ==
  /\ MainFree
  /\ failOpen
  /\ failOpen' = FALSE
  /\ order' = <<>>
  /\ strikes' = [c \in Clients |-> 0]
  /\ Flushed(FALSE)
  /\ UNCHANGED <<conn, quarantined, streamVars, scriptVars, owner, commands, held, slot, asked,
                 queue, nested, lane, at, outVars, trouble>>

\* set_active_input_owner: the user loses or regains the seat.
SeatChange ==
  /\ MainFree
  /\ Trouble
  /\ owner' = ~owner
  /\ Flushed(TRUE)
  /\ UNCHANGED <<clientVars, streamVars, scriptVars, failOpen, commands, held, slot, asked,
                 queue, nested, lane, at, outVars>>

\* invalidate_connected_permissions flushes the lane when a hook's permission is
\* revoked: the hook of a client, or of a connection of which nothing else is
\* modelled.
Revoke(c) ==
  /\ MainFree
  /\ Trouble
  /\ Flushed(FALSE)
  /\ \/ /\ c \in Clients /\ Up(c)
        /\ RemoveClient(c, "revoked")
        /\ stalled' = [stalled EXCEPT ![c] = FALSE]
     \/ /\ c = None
        /\ UNCHANGED <<clientVars, scriptVars, stalled>>
  /\ UNCHANGED <<expired, calls, mainVars, queue, nested, lane, at, outVars>>

\* The client closes its connection, or the main thread finds it shut down.
Close(c) ==
  /\ MainFree
  /\ (Up(c) /\ Trouble) \/ (conn[c] = "broken" /\ UNCHANGED trouble)
  /\ RemoveClient(c, "closed")
  /\ UNCHANGED <<streamVars, mainVars, eventVars, lane, at, outVars>>

-----------------------------------------------------------------------------
(* The lane thread.                                                        *)

Top == Last(lane)
InEvent(pc) == lane # <<>> /\ Top.kind = "event" /\ Top.pc = pc
InSend(pc) == lane # <<>> /\ Top.kind = "send" /\ Top.pc = pc
Goto(pc) == lane' = [lane EXCEPT ![Len(lane)].pc = pc]

\* lane_process_event starts on e, lane_process_nested_transaction on s.
Enter(e) ==
  /\ lane' = Append(lane, [kind |-> "event", of |-> e, subs |-> events[e].subs,
                           pc |-> IF Cancelled(e) THEN "finish" ELSE "next",
                           verdict |-> "pass", decider |-> None, saved |-> at])
  /\ at' = [at EXCEPT !.event = e, !.depth = events[e].depth]
Begin(s) ==
  lane' = Append(lane, [kind |-> "send", of |-> s, pc |-> "start", next |-> 1, ok |-> TRUE])

\* lane_thread_main takes the next event.
LanePop ==
  /\ lane = <<>>
  /\ queue # <<>>
  /\ queue' = Tail(queue)
  /\ Enter(Head(queue))
  /\ UNCHANGED <<clientVars, streamVars, scriptVars, mainVars, nested, events, sends, outVars,
                 trouble>>

\* A transaction is taken by lane_thread_main, between events, or by
\* lane_wait_for_matching_decision, while a callback is out.
LaneNest ==
  /\ lane = <<>> \/ InEvent("wait")
  /\ nested # <<>>
  /\ nested' = Tail(nested)
  /\ Begin(Head(nested))
  /\ UNCHANGED <<clientVars, streamVars, scriptVars, mainVars, queue, events, sends, at, outVars,
                 trouble>>

\* The next subscriber of the snapshot, passed over when it is stalled.
LaneNext ==
  /\ InEvent("next")
  /\ \/ /\ Top.subs = <<>>
        /\ Goto("finish")
     \/ /\ Top.subs # <<>> /\ stalled[Head(Top.subs)]
        /\ lane' = [lane EXCEPT ![Len(lane)].subs = Tail(@)]
     \/ /\ Top.subs # <<>> /\ ~stalled[Head(Top.subs)]
        /\ Goto("turn")
  /\ UNCHANGED <<clientVars, streamVars, scriptVars, mainVars, eventVars, at, outVars, trouble>>

\* lane_event_release_subscriber_ref and the next subscriber: the callback's frame
\* leaves the stream's stack, the lane goes on at pc.
Done(c, pc) ==
  /\ calls' = [calls EXCEPT ![c] = SelectSeq(@, LAMBDA f : f.event # Top.of)]
  /\ lane' = [lane EXCEPT ![Len(lane)].subs = Tail(@), ![Len(lane)].pc = pc]

\* hook_send_ref_wait_event_turn: an idle stream, or one whose innermost callback
\* pumps, is entered; the turn may not come, when the stream is another lane's.
LaneTurn ==
  LET c == Head(Top.subs)
      e == Top.of
  IN /\ InEvent("turn")
     /\ \/ /\ Up(c)
           /\ calls[c] # <<>> => events[e].depth # 0 /\ Last(calls[c]).pumping
           /\ ~Cancelled(e)
           /\ calls' = [calls EXCEPT ![c] = Append(@, [event |-> e, pumping |-> FALSE])]
           /\ at' = [at EXCEPT !.responder = c]
           /\ Goto("send")
        \/ /\ Done(c, IF Cancelled(e) THEN "finish" ELSE "next")
           /\ UNCHANGED at
     /\ UNCHANGED <<clientVars, stalled, expired, scriptVars, mainVars, eventVars, outVars,
                    trouble>>

\* hook_send_ref_send: a write may fail at any time, and fails on a closed stream.
LaneSend ==
  LET c == Head(Top.subs)
  IN /\ InEvent("send")
     /\ \/ /\ Up(c)
           /\ Tell(c, Callback(Top.of))
           /\ Goto("wait")
           /\ UNCHANGED <<at, calls, commands, failOpen, trouble>>
        \/ /\ (~Up(c) /\ UNCHANGED trouble) \/ (Up(c) /\ Trouble)
           /\ at' = [at EXCEPT !.responder = None]
           /\ PostFailure(c)
           /\ Done(c, "next")
           /\ UNCHANGED inbox
     /\ UNCHANGED <<clientVars, stalled, expired, running, owner, held, slot, asked, eventVars,
                    outVars>>

\* The decision in the slot is taken if it answers the question, else discarded.
Answers(d, e, c) == d.event = e /\ d.client = c
LaneTake ==
  LET c == Head(Top.subs)
  IN /\ InEvent("wait")
     /\ slot # NoDecision
     /\ slot' = NoDecision
     /\ IF Answers(slot, Top.of, c)
          THEN /\ at' = [at EXCEPT !.responder = None]
               /\ stalled' = [stalled EXCEPT ![c] = FALSE]
               /\ calls' = [calls EXCEPT ![c] = SelectSeq(@, LAMBDA f : f.event # Top.of)]
               /\ lane' = IF slot.verdict = "pass"
                            THEN [lane EXCEPT ![Len(lane)].subs = Tail(@), ![Len(lane)].pc = "next"]
                            ELSE [lane EXCEPT ![Len(lane)].pc = "finish",
                                              ![Len(lane)].verdict = slot.verdict,
                                              ![Len(lane)].decider = c]
          ELSE UNCHANGED <<at, stalled, calls, lane>>
     /\ UNCHANGED <<clientVars, expired, scriptVars, owner, failOpen, commands, held, asked,
                    eventVars, outVars, trouble>>

\* The callback's deadline passes, its event is cancelled or its stream closes:
\* the reply is retired, then the responder cleared and, unless the event was
\* cancelled, the stream stalled and the failure posted.
LaneExpire ==
  /\ InEvent("wait")
  /\ expired' = [expired EXCEPT ![Head(Top.subs)] = Top.of]
  /\ Goto("expired")
  /\ UNCHANGED <<clientVars, stalled, calls, scriptVars, mainVars, eventVars, at, outVars,
                 trouble>>

LaneStall ==
  LET c == Head(Top.subs)
  IN /\ InEvent("expired")
     /\ at' = [at EXCEPT !.responder = None]
     /\ IF Cancelled(Top.of)
          THEN /\ Done(c, "finish")
               /\ UNCHANGED <<stalled, commands, failOpen>>
          ELSE /\ stalled' = [stalled EXCEPT ![c] = TRUE]
               /\ PostFailure(c)
               /\ Done(c, "next")
     /\ UNCHANGED <<clientVars, expired, scriptVars, owner, held, slot, asked, eventVars, outVars,
                    trouble>>

\* The end of lane_process_event: the lane is back where it was, and its atomics.
\* A mutant: the responder of the event below is not put back.
LeaveUnrestored(stack) ==
  /\ at' = [Top.saved EXCEPT !.responder = None]
  /\ lane' = stack
  /\ events' = [events EXCEPT ![Top.of].open = FALSE]
Leave(stack) ==
  /\ at' = Top.saved
  /\ lane' = stack
  /\ events' = [events EXCEPT ![Top.of].open = FALSE]

\* A physical event leaves (HookLane says how); it fails open when the output
\* queue is full.
LaneFinish ==
  /\ InEvent("finish")
  /\ events[Top.of].send = 0
  /\ \/ UNCHANGED <<failOpen, trouble>>
     \/ failOpen' = TRUE /\ Trouble
  /\ Leave(Front(lane))
  /\ UNCHANGED <<clientVars, streamVars, scriptVars, owner, commands, held, slot, asked, queue,
                 nested, sends, outVars>>

\* A member of a Send leaves, unless a hook blocked or replaced it; a replacement
\* needs a live hook.  A cancelled member, or one the output queue refuses, is
\* left to lane_fail_open_nested_transaction.
LaneFinishMember ==
  LET e == Top.of
      s == events[e].send
      i == events[e].member
      below == Len(lane) - 1
      go == [Front(lane) EXCEPT ![below].next = i + 1]
      give == [Front(lane) EXCEPT ![below].pc = "failopen"]
  IN /\ InEvent("finish")
     /\ events[e].send # 0
     /\ \/ /\ Cancelled(e)
           /\ Leave(give)
           /\ UNCHANGED <<outVars, trouble>>
        \/ /\ ~Cancelled(e)
           /\ Top.verdict = "block" \/ (Top.verdict = "modify" /\ Live(Top.decider))
           /\ stopped' = stopped \cup {<<s, i>>}
           /\ Leave(go)
           /\ UNCHANGED <<left, refused, trouble>>
        \/ /\ ~Cancelled(e)
           /\ Top.verdict # "block"
           /\ \E ok \in BOOLEAN : PutOut(s, FALSE, Batch(s, i, i), ok) /\ Leave(IF ok THEN go ELSE give)
           /\ UNCHANGED stopped
     /\ UNCHANGED <<clientVars, streamVars, scriptVars, mainVars, queue, nested, sends>>

\* lane_process_nested_transaction: the parent's callback must still be what the
\* lane waits for, else the hooks are bypassed; a former owner's Send is dropped.
ParentActive(s) ==
  /\ sends[s].depth <= MaxDepth
  /\ ~sends[s].flushed
  /\ at = [event |-> sends[s].parent, responder |-> sends[s].client, depth |-> sends[s].depth - 1]

LaneStart ==
  /\ InSend("start")
  /\ lane' = [lane EXCEPT ![Len(lane)].pc =
                CASE sends[Top.of].foreign -> "complete"
                  [] ParentActive(Top.of) /\ ~sends[Top.of].foreign -> "run"
                  [] OTHER -> "failopen",
              ![Len(lane)].ok = ~sends[Top.of].foreign]
  /\ UNCHANGED <<clientVars, streamVars, scriptVars, mainVars, eventVars, at, outVars, trouble>>

\* The loop over the members: one without an event goes straight to the output.
LaneMember ==
  LET s == Top.of
      i == Top.next
      complete(ok) == lane' = [lane EXCEPT ![Len(lane)].pc = "complete", ![Len(lane)].ok = ok]
  IN /\ InSend("run")
     /\ \/ /\ i > Members
           /\ complete(TRUE)
           /\ UNCHANGED <<at, outVars, trouble>>
        \/ /\ i <= Members /\ sends[s].foreign
           /\ complete(FALSE)
           /\ UNCHANGED <<at, outVars, trouble>>
        \/ /\ i <= Members /\ ~sends[s].foreign /\ sends[s].events[i] = 0
           /\ \E ok \in BOOLEAN :
                /\ PutOut(s, FALSE, Batch(s, i, i), ok)
                /\ IF ok THEN lane' = [lane EXCEPT ![Len(lane)].next = i + 1] ELSE complete(FALSE)
           /\ UNCHANGED <<at, stopped>>
        \/ /\ i <= Members /\ ~sends[s].foreign /\ sends[s].events[i] # 0
           /\ Enter(sends[s].events[i])
           /\ UNCHANGED <<outVars, trouble>>
     /\ UNCHANGED <<clientVars, streamVars, scriptVars, mainVars, eventVars>>

\* lane_fail_open_nested_transaction: the members not yet out, the cancelled one
\* included, go as one batch.
\* A mutant: the batch starts with the first member again.
RemainingAll(s, i) == Batch(s, 1, Members)
\* A mutant: the batch leaves out the cancelled member.
RemainingAfter(s, i) == Batch(s, i + 1, Members)
Remaining(s, i) == Batch(s, i, Members)

LaneFailOpen ==
  LET s == Top.of
      rest == {e \in DOMAIN events : events[e].send = s}
  IN /\ InSend("failopen")
     /\ \E ok \in BOOLEAN :
          /\ PutOut(s, sends[s].foreign, Remaining(s, Top.next), ok)
          /\ lane' = [lane EXCEPT ![Len(lane)].pc = "complete", ![Len(lane)].ok = ok]
     /\ events' = [e \in DOMAIN events |->
                     IF e \in rest THEN [events[e] EXCEPT !.open = FALSE] ELSE events[e]]
     /\ UNCHANGED <<clientVars, streamVars, scriptVars, mainVars, queue, nested, sends, at,
                    stopped>>

\* The transaction's end: its result is posted to the main thread.
LaneComplete ==
  LET s == Top.of
  IN /\ InSend("complete")
     /\ sends' = [sends EXCEPT ![s].result = IF Top.ok THEN "ok" ELSE "failed"]
     /\ PostAck(s, sends[s].client)
     /\ lane' = Front(lane)
     /\ UNCHANGED <<order, quarantined, strikes, streamVars, scriptVars, owner, failOpen, held,
                    slot, asked, queue, nested, events, at, outVars, trouble>>

-----------------------------------------------------------------------------

Lane ==
  \/ LanePop \/ LaneNest \/ LaneNext \/ LaneTurn \/ LaneSend \/ LaneTake \/ LaneExpire
  \/ LaneStall \/ LaneFinish \/ LaneFinishMember \/ LaneStart \/ LaneMember \/ LaneFailOpen
  \/ LaneComplete

\* What the main thread finishes or takes from its command ring, without a client.
Main == QueueSend \/ PushDecision \/ AckSend \/ RecordFailure

Environment ==
  \/ Dispatch \/ ApplyFailOpen \/ SeatChange \/ Revoke(None)
  \/ \E c \in Clients : Read(c) \/ HandleSend(c) \/ Rearm(c) \/ Close(c) \/ Revoke(c)
  \/ \E c \in Clients, v \in Verdicts : HandleReply(c, v)
  \/ \E s \in DOMAIN sends : AnswerOutside(s)

\* Nothing is in flight; more may come.
Finished ==
  /\ lane = <<>> /\ nested = <<>> /\ queue = <<>> /\ commands = <<>> /\ MainFree
  /\ UNCHANGED vars

Next == Lane \/ Main \/ Environment \/ Finished

Spec == Init /\ [][Next]_vars

-----------------------------------------------------------------------------
(* Properties.                                                             *)

\* The inputs of a Send leave once each and in order, and none that a hook blocked
\* or replaced leaves too.
MembersInOrder ==
  /\ \A i, j \in DOMAIN left :
       i < j /\ left[i][1] = left[j][1] => left[i][2] < left[j][2]
  /\ \A i \in DOMAIN left : left[i] \notin stopped

\* When a Send succeeds each of its inputs has left or been decided on by a hook; it
\* fails only because the output queue refused it or the seat changed hands.
NothingLost ==
  \A s \in DOMAIN sends :
    /\ sends[s].result = "ok" /\ ~sends[s].foreign =>
         \A i \in 1..Members : Contains(left, <<s, i>>) \/ <<s, i>> \in stopped
    /\ sends[s].result = "failed" => sends[s].foreign \/ s \in refused

\* Where a Send's answer is to come from: the main thread is queueing it, it waits
\* for the lane, the lane is in it, or its result is in the command ring.
InFlight(s) ==
  \/ asked = s
  \/ Contains(nested, s)
  \/ \E i \in DOMAIN lane : lane[i].kind = "send" /\ lane[i].of = s
  \/ Contains(commands, [kind |-> "ack", of |-> s])

\* A recursive Send is answered or its stream given up; until then it is in flight.
AnswerToCome ==
  \A s \in DOMAIN sends :
    sends[s].result # "outside" /\ Up(sends[s].client) => sends[s].answered \/ InFlight(s)

\* A Send admitted is never cut short, whatever nests in it and wherever it is cut
\* off and the rest of it put out without the hooks: a timeout, a flush or a parent
\* that went away loses, repeats or reorders none of its inputs (the comment above
\* lane_fail_open_nested_transaction), and its answer still comes, or its stream is
\* given up when the command ring is full (synth_completion_release_one).
SendWhole == MembersInOrder /\ NothingLost /\ AnswerToCome

\* c is in a callback the daemon has given up.
Behind(c) ==
  \E j \in DOMAIN running[c] :
    /\ running[c][j].kind = "callback"
    /\ \A i \in DOMAIN calls[c] : calls[c][i].event # running[c][j].of

\* A stream is ended for what its client or the daemon sent on it only after a
\* callback was retired under a client still in it.  wait_response never meets the
\* answer of another Send than the innermost one (docs/protocol.md makes no
\* exception: "A client must synchronously dispatch and answer each child before it
\* can receive the parent response"), and handle_hook_decision never refuses a reply
\* that is still due: the lane's atomics it compares the reply with name the outer
\* event again when what nested in it is over (lane_context_restore).
StreamsKept ==
  [][\A c \in Clients :
       conn[c] = "up" /\ conn'[c] \in {"unexpected", "late"} => Behind(c)]_vars

\* "Snapshots captured before quarantine was recorded skip immediately"
\* (lane_call_subscriber): the lane does not call a quarantined hook for an event
\* that was queued before the quarantine.
QuarantinedSkipped ==
  [][\A c \in Clients :
       InEvent("next") /\ Top.subs # <<>> /\ Head(Top.subs) = c /\ quarantined[c] =>
         ~(lane' # <<>> /\ Last(lane').pc = "turn")]_vars

=============================================================================
