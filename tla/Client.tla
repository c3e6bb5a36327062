------------------------------- MODULE Client -------------------------------
(***************************************************************************)
(* The client library, src/client.c: one connection used by one thread.    *)
(*                                                                         *)
(* A synchronous request reads frames until its own response arrives; on   *)
(* the way it buffers service events and answers nested hook events by     *)
(* calling the application's handler, which may issue requests again.      *)
(* The *_next calls read the same stream, give up after a timeout and are  *)
(* continued later, possibly in the middle of a frame.  The service is the *)
(* environment: it answers requests in any order and sends the events its  *)
(* protocol allows to the connection's role.                               *)
(***************************************************************************)
EXTENDS Naturals, Sequences, FiniteSets

CONSTANTS
    Roles,          \* the roles the connection may have
    Capacity,       \* KSI_CLIENT_NOTIFICATION_CAPACITY
    MaxRecursion,   \* KSI_CLIENT_MAX_RECURSION
    MaxCalls,       \* bound: requests the application makes
    MaxPosts,       \* bound: frames the service sends beside responses
    MaxSkip         \* bound: keyboard changes numbered between two records sent

ASSUME RolesAssumption == Roles \subseteq {"rpc", "lease", "callback", "observer"}
ASSUME BoundsAssumption ==
    /\ Capacity \in Nat \ {0} /\ MaxRecursion \in Nat \ {0}
    /\ MaxCalls \in Nat /\ MaxPosts \in Nat /\ MaxSkip \in Nat

VARIABLES
    role,       \* connection->role
    c,          \* the buffers and grants of struct ksi_connection
    stack,      \* the thread's nested calls, innermost last
    rx,         \* the header already read, its payload still to come
    open,       \* FALSE once terminal_failure has shut the socket down
    eof,        \* the service has closed its end
    torn,       \* a send timed out in the middle of a frame
    nextId,     \* connection->next_request_id
    wire,       \* parts of frames sent by the service and not read
    late,       \* whether the last of these parts is still to arrive
    asked,      \* requests the service has to answer
    grants,     \* the service's view of the lease's scopes
    posts,      \* frames posted so far
    keySeq,     \* the number of the last keyboard record sent to this connection
    seen,       \* the last keyboard record given to the application
    owed        \* observations accepted, neither delivered nor reported lost

vars == <<role, c, stack, rx, open, eof, torn, nextId, wire, late, asked,
          grants, posts, keySeq, seen, owed>>

\* A keyboard record carries its number n.  prev is not on the wire: it remembers
\* for a delta, the record the service had sent this connection before, to which it
\* is relative.
NoFrame == [kind |-> "none", id |-> 0, ok |-> TRUE, scopes |-> {}, n |-> 0, prev |-> 0]
Frame(kind, id, ok, scopes, n) ==
    [kind |-> kind, id |-> id, ok |-> ok, scopes |-> scopes, n |-> n, prev |-> 0]
KeyFrame(kind, n, prev) ==
    [kind |-> kind, id |-> 0, ok |-> TRUE, scopes |-> {}, n |-> n, prev |-> prev]
Message(kind, scopes, n) == [kind |-> kind, scopes |-> scopes, n |-> n, prev |-> 0]
KeyMessage(kind, scopes, n, prev) ==
    [kind |-> kind, scopes |-> scopes, n |-> n, prev |-> prev]

Scopes == {"monitor", "control"}
KeyRecords == {"snapshot", "delta"}
Events == KeyRecords \cup {"observe", "revoked", "granted", "device", "quarantined"}

Top == stack[Len(stack)]
Pop == SubSeq(stack, 1, Len(stack) - 1)
AppTurn == c.up /\ (stack # <<>> => Top.fn = "handler")
Waiting(fn) == stack # <<>> /\ Top.fn = fn
Depth == Cardinality({i \in DOMAIN stack : stack[i].fn = "handler"})

-----------------------------------------------------------------------------
(* The buffers of a connection                                             *)

Buffered(d) ==
    \/ d.notes # <<>> \/ d.obs # 0 \/ d.dropped # 0 \/ d.leases # <<>>
    \/ role = "observer" /\ d.pending # {}

UpdateReadiness(d) == [d EXCEPT !.ready = Buffered(d)]

\* A mutant: the event is remembered and the grants are not touched.
RevocationOnlyNoted(d, revoked) == [d EXCEPT !.pending = @ \cup revoked]

ApplyRevocation(d, revoked) ==
    [d EXCEPT !.granted = @ \ revoked, !.pending = @ \cup revoked]

\* What an event does to the grants before it is buffered, or fails to be.
Absorb(d, f) ==
    CASE f.kind = "granted" /\ role \in {"lease", "rpc"} -> [d EXCEPT !.granted = f.scopes]
      [] f.kind = "revoked" /\ role \in {"lease", "rpc"} ->
            [ApplyRevocation(d, f.scopes) EXCEPT !.pending = {}]
      [] f.kind = "revoked" /\ role \notin {"lease", "rpc"} -> ApplyRevocation(d, f.scopes)
      [] OTHER -> d

\* A keyboard record replaces an unread one at the end of the queue.
Coalesces(d, f) ==
    f.kind \in KeyRecords /\ d.leases # <<>> /\ d.leases[Len(d.leases)].kind \in KeyRecords

\* A mutant: the replacing record keeps its kind.
QueueLeaseAsSent(d, f) ==
    LET m == KeyMessage(f.kind, d.granted, f.n, f.prev)
    IN  UpdateReadiness(IF Coalesces(d, f) THEN [d EXCEPT !.leases[Len(d.leases)] = m]
                                           ELSE [d EXCEPT !.leases = Append(@, m)])

QueueLease(d, f) ==
    LET m == KeyMessage(IF Coalesces(d, f) THEN "snapshot" ELSE f.kind, d.granted, f.n,
                        IF Coalesces(d, f) THEN 0 ELSE f.prev)
    IN  UpdateReadiness(IF Coalesces(d, f) THEN [d EXCEPT !.leases[Len(d.leases)] = m]
                                           ELSE [d EXCEPT !.leases = Append(@, m)])

QueueNotification(d, f) ==
    UpdateReadiness([d EXCEPT !.notes = Append(@, Message(f.kind, f.scopes, 0))])

QueueObservation(d, f) ==
    IF d.obs = Capacity THEN [d EXCEPT !.dropped = @ + 1]
                        ELSE UpdateReadiness([d EXCEPT !.obs = @ + 1])

CanQueue(d, f) ==
    CASE role \in {"lease", "rpc"} ->
            /\ f.kind \in KeyRecords \cup {"granted", "revoked"}
            /\ Coalesces(d, f) \/ Len(d.leases) < Capacity
      [] role = "callback" ->
            \/ f.kind = "device"
            \/ f.kind \in {"revoked", "quarantined"} /\ Len(d.notes) < Capacity
      [] role = "observer" -> f.kind \in {"observe", "device", "revoked"}

\* queue_service_event, for an event CanQueue accepts and Absorb has applied.
QueueEvent(d, f) ==
    CASE role \in {"lease", "rpc"} -> QueueLease(d, f)
      [] role = "callback" -> IF f.kind = "device" THEN d ELSE QueueNotification(d, f)
      [] role = "observer" /\ f.kind = "revoked" ->
            IF "monitor" \in f.scopes THEN [d EXCEPT !.obs = 0, !.dropped = 0] ELSE d
      [] role = "observer" /\ f.kind # "revoked" -> QueueObservation(d, f)

CanTake(d) ==
    CASE role = "callback" -> d.notes # <<>>
      [] role = "observer" -> d.pending # {} \/ d.obs # 0 \/ d.dropped # 0
      [] role \in {"lease", "rpc"} -> d.leases # <<>>

\* The message a *_next call gives the application, and the buffers after it.
Taken(d) ==
    CASE role = "callback" -> Head(d.notes)
      [] role = "observer" ->
            IF d.pending # {} THEN Message("revoked", d.pending, 0)
            ELSE IF d.obs # 0 THEN Message("observe", {}, 1)
            ELSE Message("overflow", {}, d.dropped)
      [] role \in {"lease", "rpc"} -> Head(d.leases)

Take(d) ==
    LET m == Taken(d) IN
    UpdateReadiness(
      CASE role = "callback" ->
            [d EXCEPT !.notes = Tail(@),
                      !.pending = IF m.kind = "revoked" THEN @ \ m.scopes ELSE @]
        [] role = "observer" ->
            [d EXCEPT !.pending = {}, !.obs = IF m.kind = "observe" THEN @ - 1 ELSE @,
                      !.dropped = IF m.kind = "overflow" THEN 0 ELSE @]
        [] role \in {"lease", "rpc"} -> [d EXCEPT !.leases = Tail(@)])

\* What the application is owed after an event is accepted, and after a message.
OwedOn(o, f) ==
    IF role # "observer" THEN o
    ELSE IF f.kind # "revoked" THEN o + 1
    ELSE IF "monitor" \in f.scopes THEN 0 ELSE o
OwedAfter(o, m) == IF role = "observer" THEN o - m.n ELSE o
SeenAfter(m) == IF m.kind \in KeyRecords THEN m ELSE seen

-----------------------------------------------------------------------------
(* The socket                                                              *)

Parts(f) == <<[part |-> "header", f |-> f], [part |-> "payload", f |-> f]>>

\* send_frame: a frame reaches the service whole, is cut short by a timeout, or
\* finds the stream closed.  After a frame that was cut short none is understood.
SendOutcomes == IF open /\ ~eof THEN {"ok", "timeout"} ELSE {"unavailable"}
Torn(outcome) == torn' = (torn \/ outcome = "timeout")
Reaches(outcome) == outcome = "ok" /\ ~torn

\* send_hook_response also refuses a malformed reply.
HookOutcomes == SendOutcomes \cup {"invalid"}

TerminalFailure == open' = FALSE

Readable == Len(wire) > (IF late THEN 1 ELSE 0)

Arrive ==
    /\ late
    /\ late' = FALSE
    /\ UNCHANGED <<role, c, stack, rx, open, eof, torn, nextId, wire, asked,
                   grants, posts, keySeq, seen, owed>>

-----------------------------------------------------------------------------
(* Calls of the application                                                *)

\* request and the calls built on it: send the frame, then wait for the answer.
Request(op) ==
    /\ AppTurn /\ nextId <= MaxCalls
    /\ nextId' = nextId + 1
    /\ \E outcome \in SendOutcomes :
        /\ open' = (open /\ outcome # "timeout")
        /\ asked' = IF Reaches(outcome) THEN asked \cup {[id |-> nextId, op |-> op]} ELSE asked
        /\ stack' = IF outcome = "ok"
                    THEN Append(stack, [fn |-> "request", id |-> nextId, op |-> op])
                    ELSE stack
    /\ UNCHANGED <<role, c, rx, eof, torn, wire, late, grants, posts, keySeq, seen, owed>>

\* The calls made of one request, which differ in the roles that may make them and
\* in what Accept does with the answer.  An answer is well formed: that the library
\* closes the stream on one that is not is left out.
Query == Request("query")
Synthesize == Request("query")
Subscribe == role \in {"callback", "observer"} /\ Request("query")
RevokePermissions == role = "rpc" /\ Request("query")
ListPermissions == role = "rpc" /\ Request("list")
Authorize == Request("authorize")

\* A *_next call: the message at hand, or a wait for frames.
NextMessage ==
    /\ AppTurn
    /\ IF CanTake(c)
       THEN /\ c' = Take(c)
            /\ seen' = SeenAfter(Taken(c)) /\ owed' = OwedAfter(owed, Taken(c))
            /\ UNCHANGED stack
       ELSE /\ stack' = Append(stack, [fn |-> "next", id |-> 0, op |-> "next"])
            /\ UNCHANGED <<c, seen, owed>>
    /\ UNCHANGED <<role, rx, open, eof, torn, nextId, wire, late, asked, grants,
                   posts, keySeq>>

HookNext == role = "callback" /\ c.outstanding = 0 /\ NextMessage
ObserverNext == role = "observer" /\ NextMessage
LeaseNext == role \in {"lease", "rpc"} /\ NextMessage

\* ksi_hook_reply_event; the library refuses a malformed reply and keeps the event.
ReplyEvent ==
    /\ AppTurn /\ c.outstanding # 0
    /\ \E outcome \in HookOutcomes :
        /\ Torn(outcome)
        /\ c' = IF outcome = "ok" THEN [c EXCEPT !.outstanding = 0] ELSE c
    /\ UNCHANGED <<role, stack, rx, open, eof, nextId, wire, late, asked, grants,
                   posts, keySeq, seen, owed>>

\* The nested handler returns; a reply that cannot be sent ends the outer request.
HandlerReturn ==
    /\ Waiting("handler")
    /\ \E outcome \in HookOutcomes :
        /\ Torn(outcome)
        /\ stack' = IF outcome = "ok" THEN Pop ELSE SubSeq(stack, 1, Len(stack) - 2)
    /\ UNCHANGED <<role, c, rx, open, eof, nextId, wire, late, asked, grants,
                   posts, keySeq, seen, owed>>

SetNestedHandler ==
    /\ AppTurn /\ role = "callback"
    /\ c' = [c EXCEPT !.handler = ~@]
    /\ UNCHANGED <<role, stack, rx, open, eof, torn, nextId, wire, late, asked,
                   grants, posts, keySeq, seen, owed>>

-----------------------------------------------------------------------------
(* Reading the stream                                                      *)

Reading == Waiting("request") \/ Waiting("next")

\* receive_frame, first half: the bytes at the front must be a header.
ReadHeader ==
    /\ Reading /\ rx = NoFrame /\ Readable
    /\ IF Head(wire).part = "header"
       THEN /\ rx' = Head(wire).f
            /\ wire' = Tail(wire)
            /\ UNCHANGED <<stack, open, late>>
       ELSE /\ TerminalFailure /\ stack' = Pop
            /\ UNCHANGED <<rx, wire, late>>
    /\ UNCHANGED <<role, c, eof, torn, nextId, asked, grants, posts, keySeq,
                   seen, owed>>

\* receive_frame, second half; f is what the caller then looks at.
ReadPayload(f) ==
    /\ Reading /\ rx = f /\ rx # NoFrame /\ Readable
    /\ rx' = NoFrame
    /\ wire' = Tail(wire) /\ UNCHANGED late

\* An event in wait_response or in a *_next call.
HandleEvent ==
    /\ rx.kind \in Events /\ ReadPayload(rx)
    /\ LET d == Absorb(c, rx)
           q == QueueEvent(d, rx)
           o == OwedOn(owed, rx)
       IN  IF ~CanQueue(d, rx)
           THEN /\ c' = d /\ stack' = Pop /\ TerminalFailure
                /\ UNCHANGED <<seen, owed>>
           ELSE IF Waiting("next") /\ CanTake(q)
           THEN /\ c' = Take(q) /\ stack' = Pop
                /\ seen' = SeenAfter(Taken(q)) /\ owed' = OwedAfter(o, Taken(q))
                /\ UNCHANGED open
           ELSE /\ c' = q /\ owed' = o
                /\ UNCHANGED <<stack, open, seen>>
    /\ UNCHANGED <<role, eof, torn, nextId, asked, grants, posts, keySeq>>

\* A hook event: handed out by ksi_hook_next, or answered inside a request by
\* the nested handler, by Pass without one, by a refusal when calls are too deep.
HandleHook ==
    /\ rx.kind = "hook" /\ ReadPayload(rx)
    /\ \/ /\ Waiting("next") /\ role = "callback"
          /\ c' = [c EXCEPT !.outstanding = rx.id] /\ stack' = Pop
          /\ UNCHANGED <<open, torn>>
       \/ /\ Waiting("next") /\ role # "callback"
          /\ TerminalFailure /\ stack' = Pop
          /\ UNCHANGED <<c, torn>>
       \/ /\ Waiting("request") /\ c.handler /\ Depth < MaxRecursion
          /\ stack' = Append(stack, [fn |-> "handler", id |-> rx.id, op |-> "hook"])
          /\ UNCHANGED <<c, open, torn>>
       \/ /\ Waiting("request") /\ ~(c.handler /\ Depth < MaxRecursion)
          /\ \E outcome \in SendOutcomes :
                /\ Torn(outcome)
                /\ stack' = IF outcome = "ok" THEN stack ELSE Pop
          /\ UNCHANGED <<c, open>>
    /\ UNCHANGED <<role, eof, nextId, asked, grants, posts, keySeq, seen, owed>>

\* wait_response's test that a response belongs to the innermost request.
IsResponse(f, call) == f.id = call.id

\* decode_status and what the calls do with a successful answer.
Accept(d, f, op) ==
    CASE f.ok /\ op = "hello" -> [d EXCEPT !.granted = f.scopes, !.up = TRUE]
      [] f.ok /\ op = "authorize" -> [d EXCEPT !.granted = @ \cup f.scopes]
      [] OTHER -> d

\* A response; entries of a permission list precede the last one.
HandleResponse ==
    /\ rx.kind \in {"response", "more"} /\ ReadPayload(rx)
    /\ IF Waiting("request") /\ IsResponse(rx, Top) /\ (rx.kind = "more" => Top.op = "list")
       THEN /\ stack' = IF rx.kind = "more" THEN stack ELSE Pop
            /\ c' = IF rx.kind = "more" THEN c ELSE Accept(c, rx, Top.op)
            /\ open' = (open /\ ~(Top.op = "hello" /\ ~rx.ok))
       ELSE /\ TerminalFailure /\ stack' = Pop
            /\ UNCHANGED <<c>>
    /\ UNCHANGED <<role, eof, torn, nextId, asked, grants, posts, keySeq, seen, owed>>

\* A mutant: a call that times out starts over at the next byte.
TimeoutForgets ==
    /\ Reading
    /\ stack' = Pop /\ rx' = NoFrame
    /\ \/ Waiting("request") /\ TerminalFailure
       \/ Waiting("next") /\ ~Readable /\ UNCHANGED open
    /\ UNCHANGED <<role, c, eof, torn, nextId, wire, late, asked, grants,
                   posts, keySeq, seen, owed>>

\* A deadline passes: fatal to a request; a *_next call keeps what it has read.
Timeout ==
    /\ Reading
    /\ stack' = Pop
    /\ \/ Waiting("request") /\ TerminalFailure
       \/ Waiting("next") /\ ~Readable /\ UNCHANGED open
    /\ UNCHANGED <<role, c, rx, eof, torn, nextId, wire, late, asked, grants,
                   posts, keySeq, seen, owed>>

\* Nothing is left to read and nothing will come: UNAVAILABLE.
Closed ==
    /\ Reading /\ wire = <<>> /\ (eof \/ ~open)
    /\ stack' = Pop
    /\ UNCHANGED <<role, c, rx, open, eof, torn, nextId, wire, late, asked, grants,
                   posts, keySeq, seen, owed>>

-----------------------------------------------------------------------------
(* The service                                                             *)

Post(frames) == wire' = wire \o frames /\ late' = TRUE
ServiceUp == open /\ ~eof

\* The answer to a request.  An authorization adds scopes to the lease and tells
\* the lease stream: after the answer to HELLO, ahead of the one to AUTHORIZE.
Answer(r) ==
    /\ ServiceUp /\ r \in asked
    /\ asked' = asked \ {r}
    /\ \E ok \in BOOLEAN, more \in SUBSET Scopes :
        /\ more # {} => role = "lease" /\ r.op \in {"hello", "authorize"}
        /\ grants' = grants \cup more
        /\ LET response == Parts(Frame("response", r.id, ok, IF ok THEN grants' ELSE {}, 0))
               told == IF role = "lease" THEN Parts(Frame("granted", 0, TRUE, grants', 0))
                                         ELSE <<>>
           IN  Post(CASE r.op = "hello" -> response \o told
                      [] r.op = "authorize" -> told \o response
                      [] OTHER -> response)
    /\ UNCHANGED <<role, c, stack, rx, open, eof, torn, nextId, posts, keySeq,
                   seen, owed>>

ListEntry(r) ==
    /\ ServiceUp /\ r \in asked /\ r.op = "list" /\ posts < MaxPosts
    /\ Post(Parts(Frame("more", r.id, TRUE, {}, 0)))
    /\ posts' = posts + 1
    /\ UNCHANGED <<role, c, stack, rx, open, eof, torn, nextId, asked, grants,
                   keySeq, seen, owed>>

\* Events and hook events for the connection's role.  publish_keyboard_states
\* numbers every change of the keyboard and passes over the clients whose user
\* does not own the seat, so the number of a record may jump.
Notify(kind) ==
    /\ ServiceUp /\ posts < MaxPosts
    /\ posts' = posts + 1
    /\ \/ /\ kind = "hook" /\ role = "callback"
          /\ Post(Parts(Frame(kind, 100 + posts, TRUE, {}, 0)))
          /\ UNCHANGED <<grants, keySeq>>
       \/ /\ kind \in {"device", "quarantined"} /\ role = "callback"
          /\ Post(Parts(Frame(kind, 0, TRUE, {}, 0)))
          /\ UNCHANGED <<grants, keySeq>>
       \/ /\ kind = "observe" /\ role = "observer"
          /\ Post(Parts(Frame(kind, 0, TRUE, {}, 0)))
          /\ UNCHANGED <<grants, keySeq>>
       \/ /\ kind = "revoked" /\ role # "rpc"
          /\ \E lost \in SUBSET grants \ {{}} :
                /\ grants' = grants \ lost
                /\ Post(Parts(Frame(kind, 0, TRUE, lost, 0)))
          /\ UNCHANGED keySeq
       \/ /\ kind = "delta" /\ role = "lease" /\ keySeq > 0
          /\ keySeq' \in (keySeq + 1)..(keySeq + 1 + MaxSkip)
          /\ Post(Parts(KeyFrame(kind, keySeq', keySeq)))
          /\ UNCHANGED grants
       \/ /\ kind = "snapshot" /\ role = "lease"
          /\ LET first == IF keySeq = 0 THEN 1 ELSE keySeq
             IN  keySeq' \in first..(first + MaxSkip)
          /\ Post(Parts(KeyFrame(kind, keySeq', 0)))
          /\ UNCHANGED grants
    /\ UNCHANGED <<role, c, stack, rx, open, eof, torn, nextId, asked,
                   seen, owed>>

ServiceClose ==
    /\ ServiceUp
    /\ eof' = TRUE
    /\ UNCHANGED <<role, c, stack, rx, open, torn, nextId, wire, late, asked, grants,
                   posts, keySeq, seen, owed>>

-----------------------------------------------------------------------------
\* ksi_connect has sent HELLO and waits for its answer.
Init ==
    /\ role \in Roles /\ grants = IF role = "lease" THEN {} ELSE Scopes
    /\ c = [notes |-> <<>>, leases |-> <<>>, obs |-> 0, dropped |-> 0, pending |-> {},
            granted |-> {}, ready |-> FALSE, outstanding |-> 0, handler |-> FALSE,
            up |-> FALSE]
    /\ stack = <<[fn |-> "request", id |-> 1, op |-> "hello"]>>
    /\ rx = NoFrame /\ open = TRUE /\ eof = FALSE /\ torn = FALSE
    /\ nextId = 2 /\ wire = <<>> /\ late = FALSE
    /\ asked = {[id |-> 1, op |-> "hello"]} /\ posts = 0 /\ keySeq = 0
    /\ seen = Message("snapshot", {}, 0) /\ owed = 0

Next ==
    \/ Arrive
    \/ Query \/ Synthesize \/ Subscribe \/ RevokePermissions \/ ListPermissions
    \/ Authorize
    \/ HookNext \/ ObserverNext \/ LeaseNext \/ ReplyEvent \/ HandlerReturn \/ SetNestedHandler
    \/ ReadHeader \/ HandleEvent \/ HandleHook \/ HandleResponse \/ Timeout \/ Closed
    \/ \E r \in asked : Answer(r) \/ ListEntry(r)
    \/ \E kind \in Events \cup {"hook"} : Notify(kind)
    \/ ServiceClose

Spec == Init /\ [][Next]_vars

-----------------------------------------------------------------------------
(* Properties                                                              *)

\* client.h:116, "Partial frames survive TIMEOUT": what is next on the stream is
\* always what the next receive_frame expects, after any mix of calls and timeouts.
StreamInSync ==
    wire # <<>> => Head(wire).part = (IF rx = NoFrame THEN "header" ELSE "payload")

\* A lease stream that has read everything agrees with the service on its scopes,
\* whatever order grants, revocations and authorizations were made in.
GrantsAgree ==
    (role = "lease" /\ c.up /\ open /\ wire = <<>> /\ rx = NoFrame)
        => c.granted = grants

\* An application is given a keyboard delta only right after the record it is
\* relative to, the one the service sent before it; where queue_lease_event
\* skipped one it says snapshot.  A gap between their numbers is the service's.
DeltaFollows ==
    [][(seen' # seen /\ open /\ seen'.kind = "delta")
          => seen'.prev = seen.n /\ seen.n < seen'.n]_vars

\* Every observation is delivered, still buffered or counted as dropped, once.
ObservationsCounted == owed = c.obs + c.dropped

=============================================================================
