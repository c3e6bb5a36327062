---------------------------- MODULE Authorization ----------------------------
(***************************************************************************)
(* Who may use the daemon: identification, permission checks, polkit       *)
(* prompts, revocation and the refresh after a revocation made elsewhere   *)
(* (daemon/grab_leases.inc, permission_workers.inc, privilege_workers.inc, *)
(* permission_completions.inc), with the worker pools they run on          *)
(* (WorkerPool).                                                           *)
(*                                                                         *)
(* The daemon's main thread keeps what a client was granted and never      *)
(* waits.  It gives a task to a pool, and a worker reads or writes the     *)
(* permission store, asks polkit, and puts the result in the command ring. *)
(* By the time the main thread takes it, the client may be gone or its fd  *)
(* reused, the seat may be another user's, and the permission revoked: by  *)
(* a client of this daemon or by another program, of which the daemon only *)
(* hears through inotify.  Generations, a reference count per connection   *)
(* and deadlines are what keeps the late answers out.                      *)
(*                                                                         *)
(* Each lease client has a lease of its own; another client only revokes.  *)
(* Hook and output effects of a revocation are in HookLane and             *)
(* OutputQueue.  Listing permissions, replies and notifications on the     *)
(* wire (but not their failing) are left out.                              *)
(***************************************************************************)
EXTENDS WorkerPool, FiniteSets, SequencesExt

CONSTANTS
  Leases,     \* clients that ask for permissions
  Revokers,   \* clients that ask for a revocation
  Apps,       \* application identities
  App,        \* App[c]: what ksp_identity_identify makes of c
  Scopes,     \* permission scopes
  Asked,      \* the sets of scopes a request may ask for
  Withdrawn,  \* and a revocation take back
  MaxConnections, MaxRequests, \* bounds on one behaviour, and the bound on its
  MaxTrouble  \* revocations, faults, seat changes, lost and new connections and stops together

Clients == Leases \cup Revokers
Connections == 1..MaxConnections
Pools == {"identify", "permission", "prompt"}

ASSUME ClientAssumption ==
  IsFiniteSet(Clients) /\ Leases \cap Revokers = {} /\ App \in [Leases -> Apps]
ASSUME ScopeAssumption == Asked \cup Withdrawn \subseteq SUBSET Scopes \ {{}}
ASSUME AuthorizationBounds == 
  /\ {MaxConnections, MaxRequests, MaxTrouble} \subseteq Nat
  /\ MaxConnections >= Cardinality(Clients)

VARIABLES
  d,        \* what the main thread keeps, the pools, tasks and references, see InitD
  store,    \* the permission store (external), and its inotify event not yet read
  approved, \* history: what the user approved since the last revocation of it
  used      \* how much of each bound is used

vars == <<d, store, approved, used>>

-----------------------------------------------------------------------------
(* Clients, connections and tasks *)

\* A client not connected.  "id" stands for identity_attempted, has_identity
\* and the IDENTIFYING state; "prompt" for the AWAITING_PROMPT state.
Absent == [conn |-> 0, pending |-> FALSE, scopes |-> {}, request |-> FALSE, id |-> "unknown",
           prompt |-> FALSE, task |-> "none", granted |-> {}, paused |-> FALSE]

\* The daemon is up and every client has connected once.
First == CHOOSE order \in Injection(Clients, 1..Cardinality(Clients)) : TRUE

InitD == [clients |-> [c \in Clients |-> [Absent EXCEPT !.conn = First[c]]],
          refs |-> [k \in Connections |-> IF k \in Range(First) THEN 1 ELSE 0], \* hook_send_ref ref_count
          valid |-> [k \in Connections |-> k \in Range(First)],                 \* and valid
          pools |-> [p \in Pools |-> IdlePool],
          running |-> {},          \* tasks workers are running
          ring |-> <<>>,           \* the command ring: tasks that are done
          inflight |-> FALSE,      \* permission_refresh_inflight
          failed |-> FALSE,        \* permission_monitor_failed
          owner |-> TRUE,          \* the clients' user is active on the seat
          phase |-> "run"]

Connected(x, c) == x.clients[c].conn # 0
Known(x) == {c \in Leases : x.clients[c].id = "known"}

PoolOf(t) == CASE t.kind = "identify" -> "identify" [] t.kind = "prompt" -> "prompt" [] OTHER -> "permission"

\* Tasks that hold a reference to their connection.
Refers(t) == t.kind \in {"check", "revoke", "prompt"}

\* Of a generation a task was made in, only whether it is still the current one
\* is kept: "input" stays in its set until active_input_generation advances,
\* "permission" until permission_generation does, "store" until the store's
\* does.  A task has the ones it will compare.
NewTask(x, c, kind) == [kind |-> kind, client |-> c, conn |-> x.clients[c].conn,
                        fresh |-> CASE kind = "identify" -> {}
                                    [] kind = "revoke" -> {"input"}
                                    [] OTHER -> {"input", "permission"},
                        stage |-> "start", status |-> "ok",
                        scopes |-> x.clients[c].scopes, apps |-> {}, missing |-> {}, allowed |-> {}]
RefreshTask(x) == [kind |-> "refresh", fresh |-> {"permission"}, stage |-> "start", status |-> "ok",
                   todo |-> {App[c] : c \in Known(x)}, snapshots |-> [a \in Apps |-> {}]]

\* A generation advances: no task made before is of the current one.
Old(t, generation) == [t EXCEPT !.fresh = @ \ {generation}]
AllOld(tasks, generation) == [i \in DOMAIN tasks |-> Old(tasks[i], generation)]
Advance(x, generation) ==
  [x EXCEPT !.running = {Old(t, generation) : t \in @},
            !.ring = AllOld(@, generation),
            !.pools = [p \in Pools |-> [x.pools[p] EXCEPT !.jobs = AllOld(@, generation)]]]

\* A task is accepted when its connection is valid, memory can be had and the
\* pool has room; "fault" stands for the last two.
Accepts(x, t, fault) ==
  /\ ~fault
  /\ CanSubmit(x.pools[PoolOf(t)])
  /\ Refers(t) => x.valid[t.conn]

Enqueue(x, t) == [x EXCEPT !.pools[PoolOf(t)] = Submit(@, t),
                           !.refs = IF Refers(t) THEN [x.refs EXCEPT ![t.conn] = @ + 1] ELSE x.refs]

Invalidate(x, k) == [x EXCEPT !.valid[k] = FALSE]

\* Drop the reference a task holds.
FreeTask(x, t) == IF Refers(t) THEN [x EXCEPT !.refs[t.conn] = @ - 1] ELSE x

FreeAll(x, tasks) ==
  LET Of(k) == {i \in DOMAIN tasks : Refers(tasks[i]) /\ tasks[i].conn = k}
  IN [x EXCEPT !.refs = [k \in Connections |-> @[k] - Cardinality(Of(k))]]

\* Each client that goes drops the reference of its connection.
RemoveClients(x, S) ==
  LET Of(k) == {c \in S : x.clients[c].conn = k}
  IN [x EXCEPT !.clients = [c \in Clients |-> IF c \in S THEN Absent ELSE @[c]],
               !.refs = [k \in Connections |-> @[k] - Cardinality(Of(k))],
               !.valid = [k \in Connections |-> @[k] /\ Of(k) = {}]]
RemoveClient(x, c) == RemoveClients(x, {c})

-----------------------------------------------------------------------------
(* Revocation, refresh and failing open *)

\* invalidate_connected_permissions, for the scopes revoked[a] of each application
\* a.  A notification that cannot be sent invalidates the connection.
InvalidatePermissions(x, revoked, fault) ==
  LET hit == {c \in Known(x) : x.clients[c].granted \cap revoked[App[c]] # {}}
  IN [Advance(x, "permission") EXCEPT
               !.clients = [c \in Clients |-> IF c \in hit THEN [x.clients[c] EXCEPT !.granted = @ \ revoked[App[c]]] ELSE x.clients[c]],
               !.valid = [k \in Connections |-> @[k] /\ ~(fault /\ \E c \in hit : x.clients[c].conn = k)]]

\* permission_monitor_fail_open.  That a SESSION_REVOKED that cannot be sent closes
\* its connection is left out here: nothing is granted to it any more.
FailOpen(x) ==
  IF x.failed THEN x
  ELSE [Advance(InvalidatePermissions(x, [a \in Apps |-> Scopes], FALSE), "input") EXCEPT !.failed = TRUE]

\* fence_permission_output, but for the queues it empties
Fence(x) == Advance(x, "input")

\* refresh_external_permissions, and failing open when it fails: before the
\* task is queued, or after.
Refresh(x, fault) ==
  LET t == RefreshTask(x)
      paused == [x EXCEPT !.clients = [c \in Clients |-> [x.clients[c] EXCEPT !.paused = c \in Leases /\ Connected(x, c)]]]
      begun == [Enqueue(Fence(paused), t) EXCEPT !.inflight = TRUE]
  IN CASE x.inflight -> x
       [] ~x.inflight /\ ~Accepts(x, t, fault = "submit") -> FailOpen(paused)
       [] OTHER -> IF fault = "fence" THEN FailOpen(begun) ELSE begun

-----------------------------------------------------------------------------
(* Authorization, up to the answer *)

\* The answer to a pending request, whatever it is; what was asked is not read
\* again.
Answer(x, c) == [x EXCEPT !.clients[c].pending = FALSE, !.clients[c].scopes = {}, !.clients[c].request = FALSE]

\* finish_client_authorization: SESSION_GRANTED that cannot be sent
\* invalidates the connection.
Grant(x, c, scopes, fault) ==
  LET y == [Answer(x, c) EXCEPT !.clients[c].granted = @ \cup scopes]
  IN IF fault = "send" THEN Invalidate(y, x.clients[c].conn) ELSE y

\* start_permission_check, or the refusal when it cannot be.
StartCheck(x, c, fault) ==
  LET t == NewTask(x, c, "check")
  IN IF ~x.failed /\ ~x.inflight /\ Accepts(x, t, fault = "submit")
     THEN [Enqueue(x, t) EXCEPT !.clients[c].task = "check"]
     ELSE Answer(x, c)

StartIdentify(x, c, fault) ==
  LET t == NewTask(x, c, "identify")
  IN IF Accepts(x, t, fault = "submit")
     THEN [Enqueue(x, t) EXCEPT !.clients[c].id = "busy"]
     ELSE [Answer(x, c) EXCEPT !.clients[c].id = "failed"]

StartPrompt(x, c, missing, fault) ==
  LET t == [NewTask(x, c, "prompt") EXCEPT !.missing = missing]
  IN IF Accepts(x, t, fault = "submit")
     THEN [Enqueue(x, t) EXCEPT !.clients[c].prompt = TRUE]
     ELSE Answer(x, c)

\* begin_authorization, past its refusals of a busy client
BeginAuthorization(x, c, scopes, request, fault) ==
  LET y == [x EXCEPT !.clients[c].pending = TRUE, !.clients[c].scopes = scopes, !.clients[c].request = request]
  IN CASE y.clients[c].id = "unknown" -> StartIdentify(y, c, fault)
       [] y.clients[c].id = "busy" -> y
       [] y.clients[c].id = "failed" -> Answer(y, c)
       [] OTHER -> StartCheck(y, c, fault)

-----------------------------------------------------------------------------
(* Completions, in the main thread *)

\* What permission_task_cancelled and prompt_cancelled say for sure; a
\* deadline may say so too.
Cancelled(x, t) ==
  \/ x.phase # "run"
  \/ Refers(t) /\ (~x.valid[t.conn] \/ ~x.owner \/ "input" \notin t.fresh)
  \/ t.kind \in {"check", "prompt"} /\ "permission" \notin t.fresh

\* process_client_identified
IdentifyDone(x, t, fault) ==
  LET c == t.client
      y == [x EXCEPT !.clients[c].id = IF x.owner THEN t.status ELSE "failed"]
  IN CASE ~y.clients[c].pending -> y
       [] y.clients[c].pending /\ y.clients[c].id = "failed" -> Answer(y, c)
       [] OTHER -> StartCheck(y, c, fault)

CheckDone(x, t, fault) ==
  LET c == t.client
      y == [x EXCEPT !.clients[c].task = "none"]
      missing == t.scopes \ t.allowed
  IN CASE ~x.valid[t.conn] -> y
       [] x.valid[t.conn] /\ (t.status # "ok" \/ Cancelled(x, t) \/ fault = "late" \/ x.failed \/ x.inflight) -> Answer(y, c)
       [] OTHER -> IF missing # {} /\ x.clients[c].request
                   THEN StartPrompt(y, c, missing, fault)
                   ELSE Grant(y, c, t.allowed \cap t.scopes, fault)

\* process_client_prompt_done
PromptDone(x, t, fault) ==
  LET c == t.client
      y == [x EXCEPT !.clients[c].prompt = FALSE]
  IN IF \/ ~x.valid[t.conn] \/ ~x.owner \/ ~{"input", "permission"} \subseteq t.fresh
        \/ x.failed \/ x.inflight \/ t.status # "granted"
     THEN Answer(y, c)
     ELSE Grant(y, c, t.allowed \cap x.clients[c].scopes, fault)

\* The revocation reaches the other clients even when its requester has left.
RevokeDone(x, t, fault) ==
  LET fenced == IF fault = "fence" THEN FailOpen(Fence(x)) ELSE Fence(x)
      revoked == [a \in Apps |-> IF a \in t.apps THEN t.scopes ELSE {}]
      y == IF t.status = "ok" THEN InvalidatePermissions(fenced, revoked, fault = "send") ELSE x
  IN IF x.clients[t.client].conn = t.conn THEN [y EXCEPT !.clients[t.client].task = "none"] ELSE y

\* The snapshots are the newest there is: revoke what they lack.  An application
\* without a snapshot was identified during the refresh, and holds nothing.
ApplySnapshots(x, t, fault) ==
  LET revoked == [a \in Apps |-> UNION {x.clients[c].granted \ t.snapshots[a] : c \in {k \in Known(x) : App[k] = a}}]
      y == IF \A a \in Apps : revoked[a] = {} THEN x ELSE InvalidatePermissions(x, revoked, fault = "send")
      resumed == [y EXCEPT !.clients = [c \in Clients |-> [y.clients[c] EXCEPT !.paused = FALSE]]]
  IN IF fault = "fence" THEN FailOpen(resumed) ELSE resumed

\* A mutant: a refresh that a newer notification overtook is believed.
RefreshDoneOvertaken(x, t, fault) ==
  LET y == [x EXCEPT !.inflight = FALSE]
  IN CASE x.failed -> y
       [] ~x.failed /\ t.status # "ok" -> FailOpen(y)
       [] OTHER -> ApplySnapshots(y, t, fault)

RefreshDone(x, t, fault) ==
  LET y == [x EXCEPT !.inflight = FALSE]
  IN CASE x.failed -> y
       [] ~x.failed /\ "permission" \notin t.fresh -> Refresh(y, fault)
       [] ~x.failed /\ "permission" \in t.fresh /\ t.status # "ok" -> FailOpen(y)
       [] OTHER -> ApplySnapshots(y, t, fault)

\* process_permission_done and the two others.  A result for a connection that
\* is gone changes nothing, but for a revocation.
Complete(x, t, fault) ==
  CASE t.kind = "refresh" -> RefreshDone(x, t, fault)
    [] t.kind = "revoke" -> RevokeDone(x, t, fault)
    [] OTHER -> IF x.clients[t.client].conn # t.conn THEN x
                ELSE CASE t.kind = "identify" -> IdentifyDone(x, t, fault)
                       [] t.kind = "check" -> IF x.clients[t.client].pending THEN CheckDone(x, t, fault) ELSE [x EXCEPT !.clients[t.client].task = "none"]
                       [] t.kind = "prompt" -> IF x.clients[t.client].pending THEN PromptDone(x, t, fault) ELSE x

-----------------------------------------------------------------------------
(* The workers *)

Fault(happens) == /\ happens => used.trouble < MaxTrouble
                  /\ used' = IF happens THEN [used EXCEPT !.trouble = @ + 1] ELSE used

\* A worker that runs t goes on with it as u.
Continue(t, u) == d' = [d EXCEPT !.running = (@ \ {t}) \cup {u}]

\* A mutant: a permission task whose result is lost is not freed.
PushedLeaking(x, t, lost) ==
  CASE lost /\ t.kind \in {"check", "revoke"} -> Invalidate(x, t.conn)
    [] ~lost /\ t.kind \in {"check", "revoke"} -> x
    [] OTHER -> FreeTask(x, t)

\* A full ring loses the result.  A permission task's connection is then
\* invalidated, which ends its client; in the ring the task keeps its
\* reference.  A prompt's task is freed either way.
Pushed(x, t, lost) ==
  CASE lost /\ t.kind \in {"check", "revoke"} -> FreeTask(Invalidate(x, t.conn), t)
    [] ~lost /\ t.kind \in {"check", "revoke"} -> x
    [] OTHER -> FreeTask(x, t)

\* The worker's last step with t: push it as u.
Push(t, u, lost) ==
  d' = [Pushed(d, t, lost) EXCEPT !.pools[PoolOf(t)] = JobDone(@),
                                  !.running = @ \ {t},
                                  !.ring = IF lost THEN @ ELSE Append(@, [u EXCEPT !.stage = "done"])]

\* identify_worker: reading /proc may fail.
Identify(t, outcome, lost) ==
  /\ t.kind = "identify"
  /\ Fault(outcome = "failed" \/ lost)
  /\ Push(t, [t EXCEPT !.status = outcome], lost)
  /\ UNCHANGED <<store, approved>>

\* permission_worker for a check: read the store, then see whether it still matters.
Check(t, late) ==
  /\ t.kind = "check" /\ t.stage = "start"
  /\ Fault(late)
  /\ Continue(t, IF Cancelled(d, t) \/ late
                 THEN [t EXCEPT !.stage = "read", !.status = "cancelled"]
                 ELSE [t EXCEPT !.stage = "read", !.allowed = store.allowed[App[t.client]]])
  /\ UNCHANGED <<store, approved>>

CheckEnd(t, lost) ==
  /\ t.kind = "check" /\ t.stage = "read"
  /\ Fault(lost)
  /\ Push(t, IF Cancelled(d, t) THEN [t EXCEPT !.status = "cancelled"] ELSE t, lost)
  /\ UNCHANGED <<store, approved>>

\* ksp_store_revoke (external): under the store's lock the records go and the
\* uid's generation file is replaced, which inotify reports.
RevokeStore(apps, scopes) ==
  /\ store' = [allowed |-> [a \in Apps |-> IF a \in apps THEN store.allowed[a] \ scopes ELSE store.allowed[a]],
               notify |-> TRUE]
  /\ approved' = [a \in Apps |-> IF a \in apps THEN approved[a] \ scopes ELSE approved[a]]

\* permission_worker for a revocation
Revoke(t, late) ==
  /\ t.kind = "revoke" /\ t.stage = "start"
  /\ Fault(late)
  /\ IF Cancelled(d, t) \/ late
     THEN /\ Continue(t, [t EXCEPT !.stage = "written", !.status = "cancelled"])
          /\ UNCHANGED <<store, approved>>
     ELSE /\ d' = LET u == [t EXCEPT !.stage = "written"]
                  IN Advance([d EXCEPT !.running = (@ \ {t}) \cup {u}], "store")
          /\ RevokeStore(t.apps, t.scopes)

RevokeEnd(t, lost) ==
  /\ t.kind = "revoke" /\ t.stage = "written"
  /\ Fault(lost)
  /\ Push(t, t, lost)
  /\ UNCHANGED <<store, approved>>

\* permission_worker for a refresh: one application at a time
RefreshRead(t, late) ==
  /\ t.kind = "refresh" /\ t.stage = "start" /\ t.todo # {}
  /\ Fault(late)
  /\ LET a == CHOOSE b \in t.todo : TRUE IN
     Continue(t, IF Cancelled(d, t) \/ late
                 THEN [t EXCEPT !.todo = {}, !.status = "unavailable"]
                 ELSE [t EXCEPT !.todo = @ \ {a}, !.snapshots[a] = store.allowed[a]])
  /\ UNCHANGED <<store, approved>>

RefreshEnd(t, lost) ==
  /\ t.kind = "refresh" /\ t.todo = {}
  /\ Fault(lost)
  /\ Push(t, t, lost)
  /\ UNCHANGED <<store, approved>>

\* prompt_worker: with the application's prompt lock held, read the store.
\* The lock is external; it waits for another prompt of the same application.
PromptRead(t, late) ==
  /\ t.kind = "prompt" /\ t.stage = "start"
  /\ Fault(late)
  /\ \/ /\ Cancelled(d, t) \/ late
        /\ Continue(t, [t EXCEPT !.stage = "decided", !.status = "unavailable"])
     \/ /\ ~late
        /\ \A u \in d.running : u.kind = "prompt" /\ App[u.client] = App[t.client] => u.stage \in {"start", "decided"}
        /\ LET missing == t.missing \ store.allowed[App[t.client]] IN
           Continue(t, [t EXCEPT !.missing = missing, !.fresh = @ \cup {"store"},
                                 !.stage = IF missing = {} THEN "written" ELSE "ask",
                                 !.status = IF missing = {} THEN "granted" ELSE "ok"])
  /\ UNCHANGED <<store, approved>>

\* ksp_polkit_authorize: the user answers, or the prompt is cancelled.
PromptAnswered(t, yes) ==
  /\ t.kind = "prompt" /\ t.stage = "ask"
  /\ UNCHANGED <<store, used>>
  /\ approved' = IF yes THEN [approved EXCEPT ![App[t.client]] = @ \cup t.missing] ELSE approved
  /\ Continue(t, IF yes THEN [t EXCEPT !.stage = "write", !.status = "granted"]
                 ELSE [t EXCEPT !.stage = "written", !.status = "denied"])

\* A mutant: the generation the prompt began with is not compared.
PromptWriteBlind(t, late) ==
  /\ t.kind = "prompt" /\ t.stage = "write"
  /\ Fault(late)
  /\ IF Cancelled(d, t) \/ late
     THEN /\ Continue(t, [t EXCEPT !.stage = "written", !.status = "denied"])
          /\ UNCHANGED store
     ELSE /\ Continue(t, [t EXCEPT !.stage = "written"])
          /\ store' = [store EXCEPT !.allowed[App[t.client]] = @ \cup t.missing]
  /\ UNCHANGED approved

\* ksp_store_grant_if_generation_cancelled: the store compares the generation
\* and asks whether to go on, under its lock.
PromptWrite(t, late) ==
  /\ t.kind = "prompt" /\ t.stage = "write"
  /\ Fault(late)
  /\ IF Cancelled(d, t) \/ late \/ "store" \notin t.fresh
     THEN /\ Continue(t, [t EXCEPT !.stage = "written", !.status = "denied"])
          /\ UNCHANGED store
     ELSE /\ Continue(t, [t EXCEPT !.stage = "written"])
          /\ store' = [store EXCEPT !.allowed[App[t.client]] = @ \cup t.missing]
  /\ UNCHANGED approved

\* What the store allows now, unless it no longer matters.
PromptReread(t, late) ==
  /\ t.kind = "prompt" /\ t.stage = "written"
  /\ Fault(late)
  /\ Continue(t, IF Cancelled(d, t) \/ late
                 THEN [t EXCEPT !.stage = "decided", !.status = "denied"]
                 ELSE [t EXCEPT !.stage = "decided", !.allowed = store.allowed[App[t.client]]])
  /\ UNCHANGED <<store, approved>>

PromptEnd(t, lost) ==
  /\ t.kind = "prompt" /\ t.stage = "decided"
  /\ Fault(lost)
  /\ Push(t, t, lost)
  /\ UNCHANGED <<store, approved>>

Work(t) ==
  \/ \E yes \in BOOLEAN : PromptAnswered(t, yes)
  \/ \E outcome \in {"known", "failed"}, lost \in BOOLEAN : Identify(t, outcome, lost)
  \/ \E fault \in BOOLEAN :
       \/ Check(t, fault) \/ CheckEnd(t, fault)
       \/ Revoke(t, fault) \/ RevokeEnd(t, fault)
       \/ RefreshRead(t, fault) \/ RefreshEnd(t, fault)
       \/ PromptRead(t, fault) \/ PromptWrite(t, fault) \/ PromptReread(t, fault) \/ PromptEnd(t, fault)

\* worker_thread_main, but for the job
WorkerTakes(p) ==
  /\ CanTake(d.pools[p])
  /\ d' = [d EXCEPT !.pools[p] = Take(@), !.running = @ \cup {Head(d.pools[p].jobs)}]
  /\ UNCHANGED <<store, approved, used>>

WorkerWaits(p) ==
  /\ CanWait(d.pools[p])
  /\ d' = [d EXCEPT !.pools[p] = Wait(@)]
  /\ UNCHANGED <<store, approved, used>>

WorkerLeaves(p) ==
  /\ CanLeave(d.pools[p])
  /\ d' = [d EXCEPT !.pools[p] = Leave(@)]
  /\ UNCHANGED <<store, approved, used>>

-----------------------------------------------------------------------------
(* The main thread *)

Loop == d.phase = "run" /\ UNCHANGED approved

\* What may fail in a handler of the main thread.
NoFault == "none"
Faults == {NoFault, "submit", "fence", "send", "late"}
MainFault(fault) == Fault(fault # NoFault)
Trouble == used.trouble < MaxTrouble /\ used' = [used EXCEPT !.trouble = @ + 1]

Connect(c) ==
  /\ Loop /\ ~Connected(d, c)
  /\ used.connections < MaxConnections /\ used.trouble < MaxTrouble
  /\ used' = [used EXCEPT !.connections = @ + 1, !.trouble = @ + 1]
  /\ LET k == used.connections + 1 IN
     d' = [d EXCEPT !.clients[c] = [Absent EXCEPT !.conn = k], !.refs[k] = 1, !.valid[k] = TRUE]
  /\ UNCHANGED store

\* The peer closed its end.
Disconnect(c) ==
  /\ Loop /\ Connected(d, c) /\ Trouble
  /\ d' = RemoveClient(d, c)
  /\ UNCHANGED store

\* HELLO or AUTHORIZE: a busy client, or one of a user who is not on the seat,
\* is refused.
Request(c, scopes, request) ==
  /\ Loop /\ Connected(d, c) /\ d.valid[d.clients[c].conn]
  /\ d.owner /\ ~d.inflight
  /\ ~d.clients[c].pending /\ d.clients[c].task = "none" /\ ~d.clients[c].prompt
  /\ used.requests < MaxRequests
  /\ \E fault \in {NoFault, "submit"} :
       /\ fault # NoFault => used.trouble < MaxTrouble
       /\ used' = [used EXCEPT !.requests = @ + 1, !.trouble = IF fault = NoFault THEN @ ELSE @ + 1]
       /\ d' = BeginAuthorization(d, c, scopes, request, fault)
  /\ UNCHANGED store

\* handle_revoke_permissions: one application or all of them
RequestRevoke(c, apps, scopes) ==
  /\ Loop /\ Connected(d, c) /\ d.clients[c].task = "none"
  /\ Trouble
  /\ LET t == [NewTask(d, c, "revoke") EXCEPT !.apps = apps, !.scopes = scopes] IN
     /\ Accepts(d, t, FALSE)
     /\ d' = [Enqueue(d, t) EXCEPT !.clients[c].task = "revoke"]
  /\ UNCHANGED store

\* process_permission_notifications: all the unread events at once.  A
\* notification cannot be lost without the daemon hearing that it was.
Notified(fault) ==
  /\ Loop /\ store.notify /\ ~d.failed
  /\ MainFault(fault)
  /\ store' = [store EXCEPT !.notify = FALSE]
  /\ d' = IF fault = "late" THEN FailOpen(d) ELSE Refresh(Advance(d, "permission"), fault)

\* process_daemon_commands, one command
Command(fault) ==
  /\ Loop /\ d.ring # <<>>
  /\ MainFault(fault)
  /\ LET t == Head(d.ring)
         done == Complete([d EXCEPT !.ring = Tail(@)], t, fault)
     IN d' = IF t.kind = "prompt" THEN done ELSE FreeTask(done, t)
  /\ UNCHANGED store

\* A mutant: only a permission task has a deadline.
ExpirableTask(c) == Connected(d, c) /\ d.clients[c].task # "none"

Expirable(c) == Connected(d, c) /\ (d.clients[c].pending \/ d.clients[c].task # "none")

Broken(c) == Connected(d, c) /\ ~d.valid[d.clients[c].conn]

\* A mutant: a refresh has no deadline.
ExpireClients(refresh, late) ==
  /\ Loop
  /\ ~refresh
  /\ \A c \in late : Expirable(c)
  /\ late # {} \/ \E c \in Clients : Broken(c)
  /\ d' = RemoveClients(d, late \cup {c \in Clients : Broken(c)})
  /\ UNCHANGED <<store, used>>

\* expire_unauthenticated_clients: a refresh, and the clients "late", have
\* been waiting for too long; connections that were invalidated go too.
Expire(refresh, late) ==
  /\ Loop
  /\ refresh => d.inflight /\ ~d.failed
  /\ \A c \in late : Expirable(c)
  /\ refresh \/ late # {} \/ \E c \in Clients : Broken(c)
  /\ d' = RemoveClients(IF refresh THEN FailOpen(d) ELSE d, late \cup {c \in Clients : Broken(c)})
  /\ UNCHANGED <<store, used>>

\* set_active_input_owner
SeatChanges ==
  /\ Loop /\ Trouble
  /\ d' = [Fence(d) EXCEPT !.owner = ~@]
  /\ UNCHANGED store

\* Another program, or permissions_cli, revokes.
RevokedElsewhere(apps, scopes) ==
  /\ d.phase = "run"
  /\ Trouble
  /\ RevokeStore(apps, scopes)
  /\ d' = Advance(d, "store")

\* A signal clears keep_running and the loop ends: output is fenced and the
\* pools are told to stop.  What the loop still does in that pass is done as if
\* the signal came after it.
Stop ==
  /\ d.phase = "run" /\ Trouble
  /\ d' = [Fence(d) EXCEPT !.phase = "stopping", !.pools = [p \in Pools |-> RequestStop(@[p])]]
  /\ UNCHANGED <<store, approved>>

\* Every worker was joined: destroy the pools, the clients and the commands.
Finish ==
  /\ d.phase = "stopping" /\ \A p \in Pools : CanJoin(d.pools[p])
  /\ LET jobs == d.pools["identify"].jobs \o d.pools["permission"].jobs \o d.pools["prompt"].jobs
         commands == SelectSeq(d.ring, LAMBDA t : t.kind # "prompt")
     IN d' = [FreeAll(RemoveClients(FreeAll(d, jobs), {c \in Clients : Connected(d, c)}), commands)
              EXCEPT !.phase = "gone", !.ring = <<>>, !.pools = [p \in Pools |-> [@[p] EXCEPT !.jobs = <<>>]]]
  /\ UNCHANGED <<store, approved, used>>

\* The shutdown deadline passes first: the process exits, and nothing of it is
\* left.  The lanes have a deadline of their own before it, which ends the same way.
Exit ==
  /\ d.phase = "stopping" /\ \E p \in Pools : ~CanJoin(d.pools[p])
  /\ d' = [InitD EXCEPT !.phase = "exited", !.clients = [c \in Clients |-> Absent],
                        !.refs = [k \in Connections |-> 0], !.valid = [k \in Connections |-> FALSE]]
  /\ UNCHANGED <<store, approved, used>>

Gone == d.phase \in {"gone", "exited"}

Init ==
  /\ d = InitD
  /\ store \in [allowed : [Apps -> SUBSET Scopes], notify : {FALSE}]
  /\ approved = store.allowed
  /\ used = [connections |-> Cardinality(Clients), requests |-> 0, trouble |-> 0]

Worker == \/ \E t \in d.running : d.phase # "exited" /\ Work(t)
          \/ \E p \in Pools : d.phase # "exited" /\ (WorkerTakes(p) \/ WorkerWaits(p) \/ WorkerLeaves(p))

Main ==
  \/ \E c \in Clients : Connect(c) \/ Disconnect(c)
  \/ \E c \in Leases, scopes \in Asked, request \in BOOLEAN : Request(c, scopes, request)
  \/ \E c \in Revokers, apps \in SUBSET Apps \ {{}}, scopes \in Withdrawn : RequestRevoke(c, apps, scopes)
  \/ \E fault \in Faults : Notified(fault) \/ Command(fault)
  \/ \E refresh \in BOOLEAN, late \in SUBSET Clients : Expire(refresh, late)
  \/ SeatChanges \/ Stop \/ Finish \/ Exit

Next ==
  \/ Worker
  \/ Main
  \/ \E apps \in SUBSET Apps \ {{}}, scopes \in Withdrawn : RevokedElsewhere(apps, scopes)

Spec == Init /\ [][Next]_vars

\* The loop goes round: it takes commands and notifications, and sees a
\* deadline that has passed.  Workers are scheduled, and each of their steps
\* ends: polkit has a timeout of 120 s and is cancelled.
FairSpec ==
  /\ Spec
  /\ WF_vars(Command(NoFault)) /\ WF_vars(Notified(NoFault))
  /\ WF_vars(Expire(TRUE, {}))
  /\ \A c \in Leases : WF_vars(Expire(FALSE, {c}))
  /\ WF_vars(Worker) /\ WF_vars(Finish)

-----------------------------------------------------------------------------
(* Properties *)

Held(k) == Cardinality({c \in Clients : d.clients[c].conn = k})
  + Cardinality({t \in d.running : Refers(t) /\ t.conn = k})
  + Len(SelectSeq(d.ring, LAMBDA t : t.kind \in {"check", "revoke"} /\ t.conn = k))
  + Len(SelectSeq(d.pools["permission"].jobs \o d.pools["prompt"].jobs, LAMBDA t : Refers(t) /\ t.conn = k))

\* A connection's reference count is what its client, its queued and running
\* tasks and its results in the ring hold, however each of them ends: never
\* freed while a task can still use it, never left over (connection_ref.c:462).
RefsBalanced == \A k \in Connections : d.refs[k] = Held(k)

\* A client holds a scope the store no longer allows only while the daemon has
\* a notification to read, or has paused the client for the refresh in flight
\* (permission_completions.inc:7).
StaleGrantsKnown ==
  \A c \in Leases : ~d.clients[c].granted \subseteq store.allowed[App[c]]
                     => store.notify \/ (d.clients[c].paused /\ d.inflight)

\* The store allows only what the user approved after it was last revoked: a
\* prompt answered before the revocation does not bring it back
\* (docs/permission-store.md, "a concurrent revoke wins").
RevokeWins == \A a \in Apps : store.allowed[a] \subseteq approved[a]

\* Every job has a worker coming for it, and none sleeps on it (worker_pool.c:176).
NoJobForgotten == \A p \in Pools : PoolType(d.pools[p]) /\ NobodySleepsOnWork(d.pools[p])

\* A revocation, wherever it was made, is in time taken from every client that
\* holds it: even when the refresh's result is lost.
RevocationLands ==
  \A c \in Leases : ~d.clients[c].granted \subseteq store.allowed[App[c]]
                     ~> (d.clients[c].granted \subseteq store.allowed[App[c]] \/ Gone)

\* A client that waits for an authorization gets an answer or is removed, even
\* when a worker's result is lost (privilege_workers.inc:48).
AuthorizationEnds == \A c \in Leases : d.clients[c].pending ~> (~d.clients[c].pending \/ Gone)

\* Once told to stop every worker returns, so that the daemon can end
\* (worker_pool.c:216).
ShutdownEnds == (d.phase = "stopping") ~> Gone
=============================================================================
