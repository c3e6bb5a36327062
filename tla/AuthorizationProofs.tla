------------------------- MODULE AuthorizationProofs -------------------------
(***************************************************************************)
(* Proofs about Authorization and WorkerPool, for any numbers of clients,  *)
(* applications, scopes, connections, threads and queued jobs.             *)
(*                                                                         *)
(* The invariant has two parts.  TaskInv is about the tasks in flight, in  *)
(* a pool's queue, in a worker or in the ring: what each may still say of  *)
(* the store, and that a client has one identification at most.  Granted   *)
(* and Current are about the clients: who may hold a grant, and when.      *)
(***************************************************************************)
EXTENDS Authorization, FiniteSetTheorems, SequenceTheorems, TLAPS

-----------------------------------------------------------------------------
(* Types                                                                   *)

Generations == {"input", "permission", "store"}
Stages == {"start", "read", "written", "ask", "write", "decided", "done"}
Statuses == {"ok", "known", "failed", "cancelled", "unavailable", "granted", "denied"}

LeaseTasks ==
  [kind : {"identify", "check", "prompt"}, client : Leases, conn : Nat \ {0},
   fresh : SUBSET Generations, stage : Stages, status : Statuses, scopes : SUBSET Scopes,
   apps : SUBSET Apps, missing : SUBSET Scopes, allowed : SUBSET Scopes]
RevokeTasks ==
  [kind : {"revoke"}, client : Revokers, conn : Nat \ {0},
   fresh : SUBSET Generations, stage : Stages, status : Statuses, scopes : SUBSET Scopes,
   apps : SUBSET Apps, missing : SUBSET Scopes, allowed : SUBSET Scopes]
RefreshTasks ==
  [kind : {"refresh"}, fresh : SUBSET Generations, stage : Stages, status : Statuses,
   todo : SUBSET Apps, snapshots : [Apps -> SUBSET Scopes]]
Tasks == LeaseTasks \cup RevokeTasks \cup RefreshTasks

ClientSet ==
  [conn : Nat, pending : BOOLEAN, scopes : SUBSET Scopes, request : BOOLEAN,
   id : {"unknown", "busy", "known", "failed"}, prompt : BOOLEAN,
   task : {"none", "check", "revoke"}, granted : SUBSET Scopes, paused : BOOLEAN]

PoolSet ==
  [jobs : Seq(Tasks), waiting : Nat, awake : Nat, active : Nat, left : Nat, stopping : BOOLEAN]

\* Of the references and the connections that are valid nothing is needed here.
Typed(x) ==
  x \in [clients : [Clients -> ClientSet], refs : {x.refs}, valid : {x.valid},
         pools : [Pools -> PoolSet], running : SUBSET Tasks, ring : Seq(Tasks),
         inflight : BOOLEAN, failed : BOOLEAN, owner : BOOLEAN,
         phase : {"run", "stopping", "gone", "exited"}]

StoreSet == [allowed : [Apps -> SUBSET Scopes], notify : BOOLEAN]

UsedSet == [connections : Nat, requests : Nat, trouble : Nat]

-----------------------------------------------------------------------------
(* The inductive invariant                                                 *)

\* The tasks in flight.
Listed(s) == {s[i] : i \in DOMAIN s}
InFlight(x) == x.running \cup Listed(x.ring) \cup UNION {Listed(x.pools[p].jobs) : p \in Pools}

\* A task that no worker has begun.
Begun(t) ==
  \/ t.stage # "start"
  \/ t.kind = "refresh" /\ \E a \in Apps : t.snapshots[a] # {}
  \/ t.kind # "refresh" /\ t.allowed # {}

\* What a task of the current generation says of the store is so, or a
\* notification says that it may not be; and what it is about to write was
\* approved, and not revoked since.
Promise(t, st, ap) ==
  /\ t.kind \in {"check", "prompt"} /\ "permission" \in t.fresh =>
       st.notify \/ t.allowed \subseteq st.allowed[App[t.client]]
  /\ t.kind = "refresh" /\ "permission" \in t.fresh =>
       st.notify \/ \A a \in Apps : t.snapshots[a] \subseteq st.allowed[a]
  /\ t.kind = "prompt" /\ t.stage = "write" /\ "store" \in t.fresh =>
       t.missing \subseteq ap[App[t.client]]

\* A client is identified once: while its identification is in flight it has
\* nothing else, and what else it has in flight came after.
Identity(clients, t) ==
  /\ t.kind = "identify" /\ t.conn = clients[t.client].conn => clients[t.client].id = "busy"
  /\ t.kind \in {"check", "prompt"} /\ t.conn = clients[t.client].conn =>
       clients[t.client].id = "known"

Sound(x, t, st, ap, n) ==
  /\ Promise(t, st, ap)
  /\ Identity(x.clients, t)
  /\ t.kind # "refresh" => t.conn <= n

Alike(t, u) ==
  t.kind = "identify" /\ u.kind = "identify" /\ t.client = u.client /\ t.conn = u.conn

\* No identification is in flight twice.
Single(s) == \A i, j \in DOMAIN s : Alike(s[i], s[j]) => i = j
Lone(S) == \A t, u \in S : Alike(t, u) => t = u
Apart(S, T) == \A t \in S, u \in T : ~Alike(t, u)
Once(x) ==
  LET jobs == x.pools["identify"].jobs IN
  /\ Single(jobs) /\ Single(x.ring) /\ Lone(x.running)
  /\ Apart(Listed(jobs), x.running)
  /\ Apart(Listed(jobs), Listed(x.ring))
  /\ Apart(x.running, Listed(x.ring))

PoolOk(p) == p \in PoolSet /\ PoolType(p) /\ NobodySleepsOnWork(p)

\* A pool's threads run its tasks, and wake for its jobs.
Runs(x, p) == {t \in x.running : PoolOf(t) = p}
PoolInv(x, p) ==
  /\ PoolOk(x.pools[p])
  /\ Cardinality(Runs(x, p)) <= x.pools[p].active
  /\ \A i \in DOMAIN x.pools[p].jobs :
       PoolOf(x.pools[p].jobs[i]) = p /\ ~Begun(x.pools[p].jobs[i])

Shape(x) ==
  /\ IsFiniteSet(x.running)
  /\ \A p \in Pools : PoolInv(x, p)
  /\ Once(x)
  /\ \A t \in Listed(x.ring) : t.kind = "identify" => t.status \in {"known", "failed"}

TaskInv(x, st, ap, n) ==
  /\ Typed(x)
  /\ Shape(x)
  /\ \A t \in InFlight(x) : Sound(x, t, st, ap, n)
  /\ \A c \in Clients : x.clients[c].conn <= n

\* A grant is of a client that was identified, and there is none once the
\* monitor has failed; during a refresh its clients are paused.
Warranted(x, k) ==
  k.granted # {} => k.id = "known" /\ k.conn # 0 /\ ~x.failed /\ (x.inflight => k.paused)
Granted(x) == \A c \in Leases : Warranted(x, x.clients[c])

\* A grant is of what the store allows, unless a notification or a refresh is
\* to be waited for.
Covered(x, st, c, k) == k.granted \subseteq st.allowed[App[c]] \/ st.notify \/ x.inflight
Current(x, st) == \A c \in Leases : Covered(x, st, c, x.clients[c])

Good(x, st, ap, n) == TaskInv(x, st, ap, n) /\ Granted(x) /\ Current(x, st)

IInv ==
  /\ store \in StoreSet /\ approved \in [Apps -> SUBSET Scopes] /\ used \in UsedSet
  /\ Good(d, store, approved, used.connections)
  /\ RevokeWins

-----------------------------------------------------------------------------
(* Pools                                                                   *)

\* PoolOk, as numbers.
Sizes(w, a, r, l, n, stop) ==
  w + a + r + l = Threads /\ n <= MaxJobs /\ (w = 0 \/ stop \/ n <= a)

\* A pool's threads are counted, and a job has a thread that is awake.
LEMMA PoolNumbers ==
  ASSUME NEW p \in PoolSet
  PROVE  /\ PoolOk(p) <=> Sizes(p.waiting, p.awake, p.active, p.left, Len(p.jobs), p.stopping)
         /\ p.waiting \in Nat /\ p.awake \in Nat /\ p.active \in Nat /\ p.left \in Nat
         /\ p.jobs \in Seq(Tasks) /\ Len(p.jobs) \in Nat /\ p.stopping \in BOOLEAN
<1>1. /\ p.waiting \in Nat /\ p.awake \in Nat /\ p.active \in Nat /\ p.left \in Nat
      /\ p.jobs \in Seq(Tasks) /\ p.stopping \in BOOLEAN
  BY DEF PoolSet
<1>2. Len(p.jobs) \in Nat
  BY <1>1, LenProperties
<1>3. \A w, a, r, l, n \in Nat : w + a + r + l = n => {w, a, r, l} \subseteq 0..n
  OBVIOUS
<1>4. Threads \in Nat
  BY PoolAssumption
<1>5. p.waiting + p.awake + p.active + p.left = Threads =>
        {p.waiting, p.awake, p.active, p.left} \subseteq 0..Threads
  BY <1>1, <1>3, <1>4
<1>6. PoolType(p) <=> /\ p.waiting + p.awake + p.active + p.left = Threads
                      /\ Len(p.jobs) <= MaxJobs
  BY <1>1, <1>5 DEF PoolType
<1>7. PoolOk(p) <=> Sizes(p.waiting, p.awake, p.active, p.left, Len(p.jobs), p.stopping)
  BY <1>6 DEF PoolOk, Sizes, NobodySleepsOnWork
<1> QED
  BY <1>1, <1>2, <1>7

\* What each operation does to them.
LEMMA SizesProps ==
  ASSUME NEW w \in Nat, NEW a \in Nat, NEW r \in Nat, NEW l \in Nat, NEW n \in Nat,
         NEW stop, Sizes(w, a, r, l, n, stop)
  PROVE  /\ w # 0 /\ n < MaxJobs => Sizes(w - 1, a + 1, r, l, n + 1, stop)
         /\ a > 0 /\ n > 0 => Sizes(w, a - 1, r + 1, l, n - 1, stop)
         /\ a > 0 /\ n = 0 => Sizes(w + 1, a - 1, r, l, n, stop)
         /\ stop => Sizes(w, 0, r, l + a, n, stop)
         /\ r > 0 /\ stop => Sizes(w, a, r - 1, l + 1, n, stop)
         /\ r > 0 /\ n = 0 => Sizes(w + 1, a, r - 1, l, n, stop)
         /\ r > 0 => Sizes(w, a + 1, r - 1, l, n, stop)
<1> USE PoolAssumption DEF Sizes
<1>1. w # 0 /\ n < MaxJobs => Sizes(w - 1, a + 1, r, l, n + 1, stop)
  OBVIOUS
<1>2. a > 0 /\ n > 0 => Sizes(w, a - 1, r + 1, l, n - 1, stop)
  OBVIOUS
<1>3. a > 0 /\ n = 0 => Sizes(w + 1, a - 1, r, l, n, stop)
  OBVIOUS
<1>4. stop => Sizes(w, 0, r, l + a, n, stop)
  OBVIOUS
<1>5. r > 0 /\ stop => Sizes(w, a, r - 1, l + 1, n, stop)
  OBVIOUS
<1>6. r > 0 /\ n = 0 => Sizes(w + 1, a, r - 1, l, n, stop)
  OBVIOUS
<1>7. r > 0 => Sizes(w, a + 1, r - 1, l, n, stop)
  OBVIOUS
<1> USE <1>1, <1>2, <1>3, <1>4, <1>5, <1>6, <1>7
<1> HIDE DEF Sizes
<1> QED
  OBVIOUS

\* A job is queued and a thread woken for it.
LEMMA SubmitProps ==
  ASSUME NEW p, PoolOk(p), CanSubmit(p), NEW job \in Tasks, NEW q, q = Submit(p, job)
  PROVE  PoolOk(q) /\ q.jobs = Append(p.jobs, job) /\ q.active = p.active
<1>1. /\ p \in PoolSet /\ p.waiting \in Nat /\ p.awake \in Nat /\ p.active \in Nat
      /\ p.left \in Nat /\ p.jobs \in Seq(Tasks) /\ Len(p.jobs) \in Nat
      /\ p.stopping \in BOOLEAN
      /\ Sizes(p.waiting, p.awake, p.active, p.left, Len(p.jobs), p.stopping)
  BY PoolNumbers DEF PoolOk
<1>0. PICK W \in Nat, A \in Nat, R \in Nat, L \in Nat, N \in Nat :
        /\ W = p.waiting /\ A = p.awake /\ R = p.active /\ L = p.left /\ N = Len(p.jobs)
        /\ Sizes(W, A, R, L, N, p.stopping)
  BY <1>1
<1>2. PICK jobs \in Seq(Tasks) : jobs = Append(p.jobs, job) /\ Len(jobs) = Len(p.jobs) + 1
  <2>1. Append(p.jobs, job) \in Seq(Tasks) /\ Len(Append(p.jobs, job)) = Len(p.jobs) + 1
    BY <1>1, AppendProperties
  <2> QED
    BY <2>1
<1>3. Len(p.jobs) \in Nat /\ Len(p.jobs) < MaxJobs /\ ~p.stopping
  BY <1>1, LenProperties DEF CanSubmit
<1> DEFINE r == [p EXCEPT !.jobs = jobs]
<1>4. /\ r \in PoolSet /\ r.jobs = jobs /\ r.waiting = p.waiting /\ r.awake = p.awake
      /\ r.active = p.active /\ r.left = p.left /\ r.stopping = p.stopping
  BY <1>1 DEF PoolSet
<1>5. q = Signal(r)
  BY <1>2 DEF Submit
<1> HIDE DEF r
<1>6. CASE p.waiting = 0
  <2>1. q = r
    BY <1>4, <1>5, <1>6 DEF Signal
  <2>2. Sizes(r.waiting, r.awake, r.active, r.left, Len(r.jobs), r.stopping)
    BY <1>1, <1>2, <1>3, <1>4, <1>6, PoolAssumption DEF Sizes
  <2> QED
    BY <1>2, <1>4, <2>1, <2>2, PoolNumbers
<1>7. CASE p.waiting # 0
  <2>1. PICK w \in Nat, a \in Nat : w = p.waiting - 1 /\ a = p.awake + 1
    BY <1>1, <1>7
  <2> DEFINE s == [r EXCEPT !.waiting = w, !.awake = a]
  <2>2. q = s
    BY <1>4, <1>5, <1>7, <2>1 DEF Signal
  <2>3. /\ s \in PoolSet /\ s.jobs = jobs /\ s.waiting = w /\ s.awake = a
        /\ s.active = p.active /\ s.left = p.left /\ s.stopping = p.stopping
    BY <1>4 DEF PoolSet
  <2> HIDE DEF s
  <2>4. Sizes(s.waiting, s.awake, s.active, s.left, Len(s.jobs), s.stopping)
    <3>1. W # 0 /\ N < MaxJobs
      BY <1>0, <1>1, <1>2, <1>3, <1>7, <2>1, <2>3 DEF CanLeave
    <3>2. Sizes(W - 1, A + 1, R, L, N + 1, p.stopping)
      BY <1>0, <3>1, SizesProps, Zenon
    <3> QED
      BY <1>0, <1>1, <1>2, <1>3, <1>7, <2>1, <2>3, <3>2
  <2> QED
    BY <1>2, <2>2, <2>3, <2>4, PoolNumbers
<1> QED
  BY <1>6, <1>7

\* A thread takes the oldest job.
LEMMA TakeProps ==
  ASSUME NEW p, PoolOk(p), CanTake(p), NEW q, q = Take(p)
  PROVE  /\ PoolOk(q) /\ q.jobs = Tail(p.jobs) /\ q.active = p.active + 1
         /\ p.jobs \in Seq(Tasks) /\ p.jobs # <<>>
<1>1. /\ p \in PoolSet /\ p.waiting \in Nat /\ p.awake \in Nat /\ p.active \in Nat
      /\ p.left \in Nat /\ p.jobs \in Seq(Tasks) /\ Len(p.jobs) \in Nat
      /\ p.stopping \in BOOLEAN
      /\ Sizes(p.waiting, p.awake, p.active, p.left, Len(p.jobs), p.stopping)
  BY PoolNumbers DEF PoolOk
<1>0. PICK W \in Nat, A \in Nat, R \in Nat, L \in Nat, N \in Nat :
        /\ W = p.waiting /\ A = p.awake /\ R = p.active /\ L = p.left /\ N = Len(p.jobs)
        /\ Sizes(W, A, R, L, N, p.stopping)
  BY <1>1
<1>2. p.jobs # <<>> /\ p.awake > 0
  BY DEF CanTake
<1>3. PICK jobs \in Seq(Tasks) : jobs = Tail(p.jobs) /\ Len(jobs) = Len(p.jobs) - 1
  BY <1>1, <1>2, HeadTailProperties
<1>4. Len(p.jobs) \in Nat \ {0}
  BY <1>1, <1>2, EmptySeq
<1>5. PICK w \in Nat, a \in Nat : w = p.awake - 1 /\ a = p.active + 1
  BY <1>1, <1>2
<1> DEFINE s == [p EXCEPT !.awake = w, !.active = a, !.jobs = jobs]
<1>6. q = s
  BY <1>3, <1>5 DEF Take
<1>7. /\ s \in PoolSet /\ s.jobs = jobs /\ s.waiting = p.waiting /\ s.awake = w
      /\ s.active = a /\ s.left = p.left /\ s.stopping = p.stopping
  BY <1>1 DEF PoolSet
<1> HIDE DEF s
<1>8. Sizes(s.waiting, s.awake, s.active, s.left, Len(s.jobs), s.stopping)
  <2>1. A > 0 /\ N > 0
    BY <1>0, <1>1, <1>2, <1>3, <1>4, <1>5, <1>7 DEF CanLeave
  <2>2. Sizes(W, A - 1, R + 1, L, N - 1, p.stopping)
    BY <1>0, <2>1, SizesProps, Zenon
  <2> QED
    BY <1>0, <1>1, <1>2, <1>3, <1>4, <1>5, <1>7, <2>2
<1> QED
  BY <1>1, <1>2, <1>3, <1>5, <1>6, <1>7, <1>8, PoolNumbers

\* A thread waits when there is no job.
LEMMA WaitProps ==
  ASSUME NEW p, PoolOk(p), CanWait(p), NEW q, q = Wait(p)
  PROVE  PoolOk(q) /\ q.jobs = p.jobs /\ q.active = p.active
<1>1. /\ p \in PoolSet /\ p.waiting \in Nat /\ p.awake \in Nat /\ p.active \in Nat
      /\ p.left \in Nat /\ p.jobs \in Seq(Tasks) /\ Len(p.jobs) \in Nat
      /\ p.stopping \in BOOLEAN
      /\ Sizes(p.waiting, p.awake, p.active, p.left, Len(p.jobs), p.stopping)
  BY PoolNumbers DEF PoolOk
<1>0. PICK W \in Nat, A \in Nat, R \in Nat, L \in Nat, N \in Nat :
        /\ W = p.waiting /\ A = p.awake /\ R = p.active /\ L = p.left /\ N = Len(p.jobs)
        /\ Sizes(W, A, R, L, N, p.stopping)
  BY <1>1
<1>2. Len(p.jobs) = 0 /\ p.awake > 0
  BY EmptySeq DEF CanWait
<1>3. PICK w \in Nat, a \in Nat : w = p.awake - 1 /\ a = p.waiting + 1
  BY <1>1, <1>2
<1> DEFINE s == [p EXCEPT !.awake = w, !.waiting = a]
<1>4. q = s
  BY <1>3 DEF Wait
<1>5. /\ s \in PoolSet /\ s.jobs = p.jobs /\ s.waiting = a /\ s.awake = w
      /\ s.active = p.active /\ s.left = p.left /\ s.stopping = p.stopping
  BY <1>1 DEF PoolSet
<1> HIDE DEF s
<1>6. Sizes(s.waiting, s.awake, s.active, s.left, Len(s.jobs), s.stopping)
  <2>1. A > 0 /\ N = 0
    BY <1>0, <1>1, <1>2, <1>3, <1>5 DEF CanLeave
  <2>2. Sizes(W + 1, A - 1, R, L, N, p.stopping)
    BY <1>0, <2>1, SizesProps, Zenon
  <2> QED
    BY <1>0, <1>1, <1>2, <1>3, <1>5, <2>2
<1> QED
  BY <1>4, <1>5, <1>6, PoolNumbers

\* The threads that are awake return once the pool stops.
LEMMA LeaveProps ==
  ASSUME NEW p, PoolOk(p), CanLeave(p), NEW q, q = Leave(p)
  PROVE  PoolOk(q) /\ q.jobs = p.jobs /\ q.active = p.active
<1>1. /\ p \in PoolSet /\ p.waiting \in Nat /\ p.awake \in Nat /\ p.active \in Nat
      /\ p.left \in Nat /\ p.jobs \in Seq(Tasks) /\ Len(p.jobs) \in Nat
      /\ p.stopping \in BOOLEAN
      /\ Sizes(p.waiting, p.awake, p.active, p.left, Len(p.jobs), p.stopping)
  BY PoolNumbers DEF PoolOk
<1>0. PICK W \in Nat, A \in Nat, R \in Nat, L \in Nat, N \in Nat :
        /\ W = p.waiting /\ A = p.awake /\ R = p.active /\ L = p.left /\ N = Len(p.jobs)
        /\ Sizes(W, A, R, L, N, p.stopping)
  BY <1>1
<1>2. PICK w \in Nat, a \in Nat : w = 0 /\ a = p.left + p.awake
  BY <1>1
<1> DEFINE s == [p EXCEPT !.awake = w, !.left = a]
<1>3. q = s
  BY <1>2 DEF Leave
<1>4. /\ s \in PoolSet /\ s.jobs = p.jobs /\ s.waiting = p.waiting /\ s.awake = w
      /\ s.active = p.active /\ s.left = a /\ s.stopping = p.stopping
  BY <1>1 DEF PoolSet
<1> HIDE DEF s
<1>5. Sizes(s.waiting, s.awake, s.active, s.left, Len(s.jobs), s.stopping)
  <2>1. p.stopping
    BY <1>0, <1>1, <1>2, <1>4 DEF CanLeave
  <2>2. Sizes(W, 0, R, L + A, N, p.stopping)
    BY <1>0, <2>1, SizesProps, Zenon
  <2> QED
    BY <1>0, <1>1, <1>2, <1>4, <2>2
<1> QED
  BY <1>3, <1>4, <1>5, PoolNumbers

\* The pool stops, and every thread is woken.
LEMMA RequestStopProps ==
  ASSUME NEW p, PoolOk(p), NEW q, q = RequestStop(p)
  PROVE  PoolOk(q) /\ q.jobs = p.jobs /\ q.active = p.active
<1>1. /\ p \in PoolSet /\ p.waiting \in Nat /\ p.awake \in Nat /\ p.active \in Nat
      /\ p.left \in Nat /\ p.jobs \in Seq(Tasks) /\ Len(p.jobs) \in Nat
      /\ p.stopping \in BOOLEAN
      /\ Sizes(p.waiting, p.awake, p.active, p.left, Len(p.jobs), p.stopping)
  BY PoolNumbers DEF PoolOk
<1>0. PICK W \in Nat, A \in Nat, R \in Nat, L \in Nat, N \in Nat :
        /\ W = p.waiting /\ A = p.awake /\ R = p.active /\ L = p.left /\ N = Len(p.jobs)
        /\ Sizes(W, A, R, L, N, p.stopping)
  BY <1>1
<1>2. PICK w \in Nat, a \in Nat : w = 0 /\ a = p.awake + p.waiting
  BY <1>1
<1> DEFINE r == [p EXCEPT !.stopping = TRUE]
           s == [r EXCEPT !.waiting = w, !.awake = a]
<1>3. /\ r \in PoolSet /\ r.jobs = p.jobs /\ r.waiting = p.waiting /\ r.awake = p.awake
      /\ r.active = p.active /\ r.left = p.left /\ r.stopping = TRUE
  BY <1>1 DEF PoolSet
<1>4. q = Broadcast(r)
  BY DEF RequestStop
<1> HIDE DEF r
<1>5. q = s
  BY <1>2, <1>3, <1>4 DEF Broadcast
<1>6. /\ s \in PoolSet /\ s.jobs = r.jobs /\ s.waiting = w /\ s.awake = a
      /\ s.active = r.active /\ s.left = r.left /\ s.stopping = r.stopping
  BY <1>3 DEF PoolSet
<1> HIDE DEF s
<1>7. Sizes(s.waiting, s.awake, s.active, s.left, Len(s.jobs), s.stopping)
  BY <1>1, <1>2, <1>3, <1>6, PoolAssumption DEF Sizes
<1> QED
  BY <1>3, <1>5, <1>6, <1>7, PoolNumbers

\* A job is over, and its thread looks for the next.
LEMMA JobDoneProps ==
  ASSUME NEW p, PoolOk(p), p.active > 0, NEW q, q = JobDone(p)
  PROVE  PoolOk(q) /\ q.jobs = p.jobs /\ q.active = p.active - 1
<1>1. /\ p \in PoolSet /\ p.waiting \in Nat /\ p.awake \in Nat /\ p.active \in Nat
      /\ p.left \in Nat /\ p.jobs \in Seq(Tasks) /\ Len(p.jobs) \in Nat
      /\ p.stopping \in BOOLEAN
      /\ Sizes(p.waiting, p.awake, p.active, p.left, Len(p.jobs), p.stopping)
  BY PoolNumbers DEF PoolOk
<1>0. PICK W \in Nat, A \in Nat, R \in Nat, L \in Nat, N \in Nat :
        /\ W = p.waiting /\ A = p.awake /\ R = p.active /\ L = p.left /\ N = Len(p.jobs)
        /\ Sizes(W, A, R, L, N, p.stopping)
  BY <1>1
<1>2. PICK n \in Nat : n = p.active - 1
  BY <1>1
<1>3. CASE p.stopping
  <2>1. PICK a \in Nat : a = p.left + 1
    BY <1>1
  <2> DEFINE s == [p EXCEPT !.active = n, !.left = a]
  <2>2. q = s
    BY <1>2, <1>3, <2>1 DEF JobDone
  <2>3. /\ s \in PoolSet /\ s.jobs = p.jobs /\ s.waiting = p.waiting /\ s.awake = p.awake
        /\ s.active = n /\ s.left = a /\ s.stopping = p.stopping
    BY <1>1 DEF PoolSet
  <2> HIDE DEF s
  <2>4. Sizes(s.waiting, s.awake, s.active, s.left, Len(s.jobs), s.stopping)
    <3>1. R > 0 /\ p.stopping
      BY <1>0, <1>1, <1>2, <1>3, <2>1, <2>3 DEF CanLeave
    <3>2. Sizes(W, A, R - 1, L + 1, N, p.stopping)
      BY <1>0, <3>1, SizesProps, Zenon
    <3> QED
      BY <1>0, <1>1, <1>2, <1>3, <2>1, <2>3, <3>2
  <2> QED
    BY <1>2, <2>2, <2>3, <2>4, PoolNumbers
<1>4. CASE ~p.stopping /\ p.jobs = <<>>
  <2>1. PICK a \in Nat : a = p.waiting + 1
    BY <1>1
  <2> DEFINE s == [p EXCEPT !.active = n, !.waiting = a]
  <2>2. q = s
    BY <1>2, <1>4, <2>1 DEF JobDone
  <2>3. /\ s \in PoolSet /\ s.jobs = p.jobs /\ s.waiting = a /\ s.awake = p.awake
        /\ s.active = n /\ s.left = p.left /\ s.stopping = p.stopping
    BY <1>1 DEF PoolSet
  <2>4. Len(p.jobs) = 0
    BY <1>4
  <2> HIDE DEF s
  <2>5. Sizes(s.waiting, s.awake, s.active, s.left, Len(s.jobs), s.stopping)
    <3>1. R > 0 /\ N = 0
      BY <1>0, <1>1, <1>2, <2>1, <2>3, <2>4 DEF CanLeave
    <3>2. Sizes(W + 1, A, R - 1, L, N, p.stopping)
      BY <1>0, <3>1, SizesProps, Zenon
    <3> QED
      BY <1>0, <1>1, <1>2, <2>1, <2>3, <2>4, <3>2
  <2> QED
    BY <1>2, <2>2, <2>3, <2>5, PoolNumbers
<1>5. CASE ~p.stopping /\ p.jobs # <<>>
  <2>1. PICK a \in Nat : a = p.awake + 1
    BY <1>1
  <2> DEFINE s == [p EXCEPT !.active = n, !.awake = a]
  <2>2. q = s
    BY <1>2, <1>5, <2>1 DEF JobDone
  <2>3. /\ s \in PoolSet /\ s.jobs = p.jobs /\ s.waiting = p.waiting /\ s.awake = a
        /\ s.active = n /\ s.left = p.left /\ s.stopping = p.stopping
    BY <1>1 DEF PoolSet
  <2>4. Len(p.jobs) \in Nat
    BY <1>1, LenProperties
  <2> HIDE DEF s
  <2>5. Sizes(s.waiting, s.awake, s.active, s.left, Len(s.jobs), s.stopping)
    <3>1. R > 0
      BY <1>0, <1>1, <1>2, <2>1, <2>3, <2>4 DEF CanLeave
    <3>2. Sizes(W, A + 1, R - 1, L, N, p.stopping)
      BY <1>0, <3>1, SizesProps, Zenon
    <3> QED
      BY <1>0, <1>1, <1>2, <2>1, <2>3, <2>4, <3>2
  <2> QED
    BY <1>2, <2>2, <2>3, <2>5, PoolNumbers
<1> QED
  BY <1>1, <1>3, <1>4, <1>5

\* Other jobs, as many.
LEMMA RejobProps ==
  ASSUME NEW p, PoolOk(p), NEW jobs \in Seq(Tasks), Len(jobs) <= Len(p.jobs),
         NEW q, q = [p EXCEPT !.jobs = jobs]
  PROVE  PoolOk(q) /\ q.jobs = jobs /\ q.active = p.active
<1>1. /\ p \in PoolSet /\ p.waiting \in Nat /\ p.awake \in Nat /\ p.active \in Nat
      /\ p.left \in Nat /\ p.jobs \in Seq(Tasks) /\ Len(p.jobs) \in Nat
      /\ p.stopping \in BOOLEAN
      /\ Sizes(p.waiting, p.awake, p.active, p.left, Len(p.jobs), p.stopping)
  BY PoolNumbers DEF PoolOk
<1>0. PICK W \in Nat, A \in Nat, R \in Nat, L \in Nat, N \in Nat :
        /\ W = p.waiting /\ A = p.awake /\ R = p.active /\ L = p.left /\ N = Len(p.jobs)
        /\ Sizes(W, A, R, L, N, p.stopping)
  BY <1>1
<1>2. Len(jobs) \in Nat /\ Len(p.jobs) \in Nat
  BY <1>1, LenProperties
<1> DEFINE s == [p EXCEPT !.jobs = jobs]
<1>3. /\ s \in PoolSet /\ s.jobs = jobs /\ s.waiting = p.waiting /\ s.awake = p.awake
      /\ s.active = p.active /\ s.left = p.left /\ s.stopping = p.stopping
  BY <1>1 DEF PoolSet
<1>4. q = s
  OBVIOUS
<1> HIDE DEF s
<1>5. Sizes(s.waiting, s.awake, s.active, s.left, Len(s.jobs), s.stopping)
  BY <1>1, <1>2, <1>3, PoolAssumption DEF Sizes
<1> QED
  BY <1>3, <1>4, <1>5, PoolNumbers

-----------------------------------------------------------------------------
(* Tasks                                                                   *)

\* The same task, further on.
Kin(t, u) ==
  /\ u.kind = t.kind
  /\ t.kind # "refresh" => u.client = t.client /\ u.conn = t.conn

\* The same task once generation g is over.
Aged(t, u, g) ==
  /\ Kin(t, u) /\ u.stage = t.stage /\ u.status = t.status /\ u.fresh = t.fresh \ {g}
  /\ t.kind # "refresh" => /\ u.scopes = t.scopes /\ u.apps = t.apps
                           /\ u.missing = t.missing /\ u.allowed = t.allowed
  /\ t.kind = "refresh" => u.todo = t.todo /\ u.snapshots = t.snapshots

\* A task's kind says which fields it has.
LEMMA TaskKinds ==
  ASSUME NEW t \in Tasks
  PROVE  /\ t.kind \in {"identify", "check", "prompt", "revoke", "refresh"}
         /\ t.kind \in {"identify", "check", "prompt"} => t \in LeaseTasks /\ t.client \in Leases
         /\ t.kind = "revoke" => t \in RevokeTasks /\ t.client \in Revokers
         /\ t.kind # "refresh" => /\ t.client \in Clients /\ t.conn \in Nat \ {0}
                                  /\ t.scopes \subseteq Scopes /\ t.allowed \subseteq Scopes
                                  /\ t.missing \subseteq Scopes /\ t.apps \subseteq Apps
         /\ t.kind = "refresh" => /\ t \in RefreshTasks /\ t.todo \subseteq Apps
                                  /\ t.snapshots \in [Apps -> SUBSET Scopes]
         /\ t.fresh \subseteq Generations /\ t.stage \in Stages /\ t.status \in Statuses
  BY DEF Tasks, LeaseTasks, RevokeTasks, RefreshTasks, Clients

\* A task ages.
LEMMA AgedProps ==
  ASSUME NEW t \in Tasks, NEW g, NEW u, u = Old(t, g)
  PROVE  u \in Tasks /\ Aged(t, u, g)
<1>1. CASE t \in LeaseTasks
  <2>1. u \in LeaseTasks
    BY <1>1 DEF Old, LeaseTasks
  <2>2. Aged(t, u, g)
    BY <1>1 DEF Old, Aged, Kin, LeaseTasks
  <2> QED
    BY <2>1, <2>2 DEF Tasks
<1>2. CASE t \in RevokeTasks
  <2>1. u \in RevokeTasks
    BY <1>2 DEF Old, RevokeTasks
  <2>2. Aged(t, u, g)
    BY <1>2 DEF Old, Aged, Kin, RevokeTasks
  <2> QED
    BY <2>1, <2>2 DEF Tasks
<1>3. CASE t \in RefreshTasks
  <2>1. u \in RefreshTasks
    BY <1>3 DEF Old, RefreshTasks
  <2>2. Aged(t, u, g)
    BY <1>3 DEF Old, Aged, Kin, RefreshTasks
  <2> QED
    BY <2>1, <2>2 DEF Tasks
<1> QED
  BY <1>1, <1>2, <1>3 DEF Tasks

\* The pool of a task.
LEMMA PoolOfProps ==
  ASSUME NEW t \in Tasks
  PROVE  /\ PoolOf(t) \in Pools
         /\ PoolOf(t) = "identify" <=> t.kind = "identify"
         /\ \A u : Kin(t, u) => PoolOf(u) = PoolOf(t)
  BY TaskKinds DEF PoolOf, Pools, Kin

\* Kin tasks are identifications of the same connection or are not.
LEMMA KinAlike ==
  ASSUME NEW t, NEW u, NEW v, NEW w, Kin(t, v), Kin(u, w)
  PROVE  Alike(v, w) <=> Alike(t, u)
  BY DEF Kin, Alike

\* What a task says outlives a generation.
LEMMA AgedSound ==
  ASSUME NEW x, NEW t, NEW u, NEW g, NEW st, NEW ap, NEW n,
         Aged(t, u, g), Sound(x, t, st, ap, n)
  PROVE  Sound(x, u, st, ap, n) /\ (Begun(u) <=> Begun(t)) /\ g \notin u.fresh
<1>1. Promise(u, st, ap)
  BY DEF Aged, Kin, Sound, Promise
<1>2. Identity(x.clients, u)
  BY DEF Aged, Kin, Sound, Identity
<1>3. Begun(u) <=> Begun(t)
  BY DEF Aged, Kin, Begun
<1> QED
  BY <1>1, <1>2, <1>3 DEF Aged, Kin, Sound

\* Every task of V comes from one of S.
From(V, S) == \A v \in V : \E s \in S : Kin(s, v)

\* Tasks that are apart stay apart.
LEMMA ApartFrom ==
  ASSUME NEW S, NEW T, NEW V, NEW W, Apart(S, T), From(V, S), From(W, T)
  PROVE  Apart(V, W)
<1> SUFFICES ASSUME NEW v \in V, NEW w \in W
             PROVE  ~Alike(v, w)
  BY DEF Apart
<1>1. PICK s \in S, t \in T : Kin(s, v) /\ Kin(t, w)
  BY DEF From
<1> QED
  BY <1>1, KinAlike DEF Apart

-----------------------------------------------------------------------------
(* Steps that leave the tasks where they are                               *)

\* The tasks in flight, and where they are, depend on nothing else.
LEMMA SameTasks ==
  ASSUME NEW x, NEW y, y.running = x.running, y.ring = x.ring, y.pools = x.pools
  PROVE  InFlight(y) = InFlight(x) /\ (Shape(x) <=> Shape(y))
<1>1. InFlight(y) = InFlight(x)
  BY DEF InFlight
<1>2. \A p : PoolInv(x, p) <=> PoolInv(y, p)
  BY DEF PoolInv, Runs
<1>3. Once(x) <=> Once(y)
  BY DEF Once
<1> QED
  BY <1>1, <1>2, <1>3 DEF Shape

\* No task of the client's connection is in flight.
Idle(x, c) ==
  \A t \in InFlight(x) : t.kind # "refresh" /\ t.client = c => t.conn # x.clients[c].conn

\* A client goes, connects or stays, and one that stays is identified only when
\* nothing of it is in flight.
Stays(x, y, n, c) ==
  \/ y.clients[c].conn = 0 
  \/ y.clients[c].conn > n
  \/ /\ y.clients[c].conn = x.clients[c].conn
     /\ y.clients[c].id = x.clients[c].id \/ Idle(x, c)

\* What the tasks say does not depend on the rest of the clients.
LEMMA Transfer ==
  ASSUME NEW st, NEW ap, NEW n \in Nat, NEW m \in Nat, n <= m,
         NEW x, TaskInv(x, st, ap, n), NEW y, Typed(y),
         y.running = x.running, y.ring = x.ring, y.pools = x.pools,
         \A c \in Clients : y.clients[c].conn <= m /\ Stays(x, y, n, c)
  PROVE  TaskInv(y, st, ap, m)
<1>1. InFlight(y) = InFlight(x) /\ Shape(y)
  BY SameTasks DEF TaskInv
<1>2. ASSUME NEW t \in InFlight(x)
      PROVE  Sound(y, t, st, ap, m)
  <2>1. t \in Tasks
    BY LenProperties DEF InFlight, Listed, TaskInv, Typed, PoolSet
  <2>2. Sound(x, t, st, ap, n)
    BY DEF TaskInv
  <2>3. Identity(y.clients, t)
    <3> SUFFICES ASSUME t.kind \in {"identify", "check", "prompt"},
                        t.conn = y.clients[t.client].conn
                 PROVE  y.clients[t.client].id = IF t.kind = "identify" THEN "busy" ELSE "known"
      BY DEF Identity
    <3>1. t.client \in Clients /\ t.conn \in Nat \ {0} /\ t.conn <= n
      BY <2>1, <2>2, TaskKinds DEF Sound
    <3>2. y.clients[t.client].conn = x.clients[t.client].conn
      BY <3>1 DEF Stays
    <3>3. ~Idle(x, t.client)
      BY <3>2 DEF Idle
    <3>4. y.clients[t.client].id = x.clients[t.client].id
      BY <3>1, <3>3 DEF Stays
    <3> QED
      BY <2>2, <3>2, <3>4 DEF Sound, Identity
  <2>4. t.kind # "refresh" => t.conn <= m
    BY <2>1, <2>2, TaskKinds DEF Sound
  <2> QED
    BY <2>2, <2>3, <2>4 DEF Sound
<1> QED
  BY <1>1, <1>2 DEF TaskInv

\* What is in flight is a task.
LEMMA InFlightTasks ==
  ASSUME NEW x, Typed(x)
  PROVE  InFlight(x) \subseteq Tasks
  BY LenProperties DEF InFlight, Listed, Typed, PoolSet

\* The store changes, and what the tasks say stays true.
LEMMA Restore ==
  ASSUME NEW x, NEW st, NEW ap, NEW n, TaskInv(x, st, ap, n), NEW su, NEW aq,
         \A t \in InFlight(x) : Promise(t, su, aq)
  PROVE  TaskInv(x, su, aq, n)
  BY DEF TaskInv, Sound

-----------------------------------------------------------------------------
(* A generation advances                                                   *)

\* The tasks of a queue age.
LEMMA AgeSeq ==
  ASSUME NEW s \in Seq(Tasks), NEW g, NEW r,
         r = AllOld(s, g)
  PROVE  /\ r \in Seq(Tasks) /\ Len(r) = Len(s) /\ DOMAIN r = DOMAIN s
         /\ \A i \in DOMAIN s : s[i] \in Tasks /\ Aged(s[i], r[i], g)
         /\ From(Listed(r), Listed(s))
         /\ \A u \in Listed(r) : \E t \in Listed(s) : Aged(t, u, g)
         /\ Single(s) => Single(r)
<1>1. DOMAIN s = 1..Len(s) /\ Len(s) \in Nat /\ \A i \in DOMAIN s : s[i] \in Tasks
  BY LenProperties
<1>2. DOMAIN r = DOMAIN s /\ \A i \in DOMAIN s : r[i] = Old(s[i], g)
  BY DEF AllOld
<1>3. \A i \in DOMAIN s : r[i] \in Tasks /\ Aged(s[i], r[i], g)
  BY <1>1, <1>2, AgedProps
<1>4. r \in Seq(Tasks) /\ Len(r) = Len(s)
  <2>1. r \in [1..Len(s) -> Tasks]
    BY <1>1, <1>3 DEF AllOld
  <2> QED
    BY <1>1, <2>1
<1>5. \A u \in Listed(r) : \E t \in Listed(s) : Aged(t, u, g)
  BY <1>2, <1>3 DEF Listed
<1>6. From(Listed(r), Listed(s))
  BY <1>5 DEF From, Aged
<1>7. Single(s) => Single(r)
  <2> SUFFICES ASSUME Single(s), NEW i \in DOMAIN s, NEW j \in DOMAIN s, Alike(r[i], r[j])
               PROVE  i = j
    BY <1>2 DEF Single
  <2>1. Kin(s[i], r[i]) /\ Kin(s[j], r[j])
    BY <1>3 DEF Aged
  <2>2. Alike(s[i], s[j])
    BY <2>1, KinAlike
  <2> QED
    BY <2>2 DEF Single
<1> QED
  BY <1>1, <1>2, <1>3, <1>4, <1>5, <1>6, <1>7

Olds(S, g) == {Old(t, g) : t \in S}

\* The tasks that run age, and are no more of a pool's than they were.
LEMMA AgeSet ==
  ASSUME NEW S \in SUBSET Tasks, IsFiniteSet(S), NEW g, NEW R,
         R = Olds(S, g)
  PROVE  /\ R \in SUBSET Tasks /\ IsFiniteSet(R) /\ From(R, S)
         /\ \A u \in R : \E t \in S : Aged(t, u, g)
         /\ Lone(S) => Lone(R)
         /\ \A p : Cardinality({u \in R : PoolOf(u) = p}) <= Cardinality({t \in S : PoolOf(t) = p})
<1> DEFINE f == [t \in S |-> Old(t, g)]
<1>1. \A t \in S : f[t] \in Tasks /\ Aged(t, f[t], g) /\ PoolOf(f[t]) = PoolOf(t)
  <2> TAKE t \in S
  <2>1. f[t] \in Tasks /\ Aged(t, f[t], g)
    BY AgedProps
  <2>2. Kin(t, f[t])
    BY <2>1 DEF Aged
  <2> QED
    BY <2>1, <2>2, PoolOfProps
<1>2. R = {f[t] : t \in S} /\ f \in [S -> R]
  BY DEF Olds
<1> HIDE DEF f
<1>3. R \in SUBSET Tasks /\ \A u \in R : \E t \in S : Aged(t, u, g)
  BY <1>1, <1>2
<1>4. From(R, S)
  BY <1>3 DEF From, Aged
<1>5. f \in Surjection(S, R)
  BY <1>2 DEF Surjection
<1>6. IsFiniteSet(R)
  BY <1>5, FS_Surjection
<1>7. Lone(S) => Lone(R)
  <2> SUFFICES ASSUME Lone(S), NEW u \in R, NEW v \in R, Alike(u, v)
               PROVE  u = v
    BY DEF Lone
  <2>1. PICK t \in S : u = f[t]
    BY <1>2
  <2>2. PICK w \in S : v = f[w]
    BY <1>2
  <2>3. Kin(t, u) /\ Kin(w, v)
    BY <1>1, <2>1, <2>2 DEF Aged
  <2>4. Alike(t, w)
    BY <2>3, KinAlike
  <2> QED
    BY <2>1, <2>2, <2>4 DEF Lone
<1>8. ASSUME NEW p
      PROVE  Cardinality({u \in R : PoolOf(u) = p}) <= Cardinality({t \in S : PoolOf(t) = p})
  <2> DEFINE T == {t \in S : PoolOf(t) = p}
             V == {u \in R : PoolOf(u) = p}
             h == [t \in T |-> f[t]]
  <2>1. h \in [T -> V]
    BY <1>1, <1>2
  <2>2. \A v \in V : \E t \in T : h[t] = v
    BY <1>1, <1>2
  <2>3. h \in Surjection(T, V)
    BY <2>1, <2>2 DEF Surjection
  <2>4. IsFiniteSet(T)
    BY FS_Subset
  <2> QED
    BY <2>3, <2>4, FS_Surjection
<1> QED
  BY <1>3, <1>4, <1>6, <1>7, <1>8

\* What a step may leave alone.
ClientsKept(x, y) == y.clients = x.clients
RestKept(x, y) ==
  y.inflight = x.inflight /\ y.failed = x.failed /\ y.owner = x.owner /\ y.phase = x.phase

\* A generation advances: every task says what it said, and none is of that
\* generation.
LEMMA AdvanceProps ==
  ASSUME NEW st, NEW ap, NEW n, NEW x, TaskInv(x, st, ap, n), NEW g, NEW y, y = Advance(x, g)
  PROVE  /\ TaskInv(y, st, ap, n) /\ ClientsKept(x, y) /\ RestKept(x, y)
         /\ y.refs = x.refs /\ y.valid = x.valid
         /\ \A t \in InFlight(y) : g \notin t.fresh
         /\ \A p \in Pools : CanSubmit(x.pools[p]) => CanSubmit(y.pools[p])
         /\ \A h : (\A t \in InFlight(x) : h \notin t.fresh) =>
                     (\A t \in InFlight(y) : h \notin t.fresh)
<1>1. /\ Typed(x) /\ Shape(x) /\ x.running \in SUBSET Tasks /\ x.ring \in Seq(Tasks)
      /\ IsFiniteSet(x.running) /\ Once(x)
      /\ \A p \in Pools : PoolInv(x, p) /\ x.pools[p].jobs \in Seq(Tasks) /\ x.pools[p] \in PoolSet
  BY DEF TaskInv, Typed, Shape, PoolSet
<1>2. PICK run : run = Olds(x.running, g)
  OBVIOUS
<1>3. PICK ring : ring = AllOld(x.ring, g)
  OBVIOUS
<1>4. PICK jobs : jobs = [p \in Pools |-> AllOld(x.pools[p].jobs, g)]
  OBVIOUS
<1>5. PICK pools : pools = [p \in Pools |-> [x.pools[p] EXCEPT !.jobs = AllOld(@, g)]]
  OBVIOUS
<1> DEFINE z == [x EXCEPT !.running = run, !.ring = ring, !.pools = pools]
<1>6. y = z
  BY <1>2, <1>3, <1>5 DEF Advance, Olds
<1>7. /\ run \in SUBSET Tasks /\ IsFiniteSet(run) /\ From(run, x.running)
      /\ \A u \in run : \E t \in x.running : Aged(t, u, g)
      /\ Lone(x.running) => Lone(run)
      /\ \A p : Cardinality({u \in run : PoolOf(u) = p}) <= Cardinality({t \in x.running : PoolOf(t) = p})
  BY <1>1, <1>2, AgeSet
<1>8. /\ ring \in Seq(Tasks) /\ Len(ring) = Len(x.ring) /\ DOMAIN ring = DOMAIN x.ring
      /\ \A i \in DOMAIN x.ring : x.ring[i] \in Tasks /\ Aged(x.ring[i], ring[i], g)
      /\ From(Listed(ring), Listed(x.ring))
      /\ \A u \in Listed(ring) : \E t \in Listed(x.ring) : Aged(t, u, g)
      /\ Single(x.ring) => Single(ring)
  BY <1>1, <1>3, AgeSeq
<1>9. ASSUME NEW p \in Pools
      PROVE  /\ jobs[p] \in Seq(Tasks) /\ Len(jobs[p]) = Len(x.pools[p].jobs)
             /\ DOMAIN jobs[p] = DOMAIN x.pools[p].jobs
             /\ \A i \in DOMAIN x.pools[p].jobs :
                  x.pools[p].jobs[i] \in Tasks /\ Aged(x.pools[p].jobs[i], jobs[p][i], g)
             /\ From(Listed(jobs[p]), Listed(x.pools[p].jobs))
             /\ \A u \in Listed(jobs[p]) : \E t \in Listed(x.pools[p].jobs) : Aged(t, u, g)
             /\ Single(x.pools[p].jobs) => Single(jobs[p])
  <2>1. jobs[p] = AllOld(x.pools[p].jobs, g)
    BY <1>4
  <2> QED
    BY <1>1, <2>1, AgeSeq
<1>10. ASSUME NEW p \in Pools
       PROVE  /\ PoolOk(pools[p]) /\ pools[p].jobs = jobs[p] /\ pools[p].active = x.pools[p].active
              /\ pools[p].stopping = x.pools[p].stopping /\ pools[p] \in PoolSet
  <2>1. pools[p] = [x.pools[p] EXCEPT !.jobs = jobs[p]]
    BY <1>4, <1>5
  <2>2. Len(jobs[p]) <= Len(x.pools[p].jobs) /\ PoolOk(x.pools[p])
    BY <1>1, <1>9, LenProperties DEF PoolInv
  <2>3. PoolOk(pools[p]) /\ pools[p].jobs = jobs[p] /\ pools[p].active = x.pools[p].active
    BY <1>9, <2>1, <2>2, RejobProps
  <2>4. pools[p].stopping = x.pools[p].stopping
    BY <1>1, <2>1 DEF PoolSet
  <2> QED
    BY <2>3, <2>4 DEF PoolOk
<1>11. pools \in [Pools -> PoolSet]
  BY <1>5, <1>10
<1>12. /\ Typed(z) /\ z.running = run /\ z.ring = ring /\ z.pools = pools
       /\ z.clients = x.clients /\ z.refs = x.refs /\ z.valid = x.valid /\ RestKept(x, z)
  BY <1>1, <1>7, <1>8, <1>11 DEF Typed, RestKept
<1> HIDE DEF z
<1>13. \A u \in InFlight(z) : \E t \in InFlight(x) : Aged(t, u, g)
  <2> TAKE u \in InFlight(z)
  <2>1. CASE u \in run
    BY <1>7, <2>1 DEF InFlight
  <2>2. CASE u \in Listed(ring)
    BY <1>8, <2>2 DEF InFlight
  <2>3. ASSUME NEW p \in Pools, u \in Listed(jobs[p])
        PROVE  \E t \in InFlight(x) : Aged(t, u, g)
    BY <1>9, <2>3 DEF InFlight
  <2> QED
    BY <1>10, <1>12, <2>1, <2>2, <2>3 DEF InFlight
<1>14. \A p \in Pools : PoolInv(z, p)
  <2> TAKE p \in Pools
  <2>1. PoolOk(z.pools[p])
    BY <1>10, <1>12
  <2>2. Cardinality(Runs(z, p)) <= z.pools[p].active
    <3>1. Runs(z, p) = {u \in run : PoolOf(u) = p} /\ Runs(x, p) = {t \in x.running : PoolOf(t) = p}
      BY <1>12 DEF Runs
    <3>2. IsFiniteSet(Runs(z, p)) /\ IsFiniteSet(Runs(x, p))
      BY <1>1, <1>7, <3>1, FS_Subset
    <3>3. Cardinality(Runs(z, p)) \in Nat /\ Cardinality(Runs(x, p)) \in Nat
      BY <3>2, FS_CardinalityType
    <3>4. Cardinality(Runs(z, p)) <= Cardinality(Runs(x, p))
      BY <1>7, <3>1
    <3>5. Cardinality(Runs(x, p)) <= x.pools[p].active /\ x.pools[p].active \in Nat
      BY <1>1 DEF PoolInv, PoolSet
    <3>6. z.pools[p].active = x.pools[p].active
      BY <1>10, <1>12
    <3> QED
      BY <3>3, <3>4, <3>5, <3>6
  <2>3. ASSUME NEW i \in DOMAIN z.pools[p].jobs
        PROVE  PoolOf(z.pools[p].jobs[i]) = p /\ ~Begun(z.pools[p].jobs[i])
    <3>1. i \in DOMAIN x.pools[p].jobs /\ z.pools[p].jobs = jobs[p]
      BY <1>9, <1>10, <1>12
    <3>2. PICK t \in Tasks : t = x.pools[p].jobs[i] /\ Aged(t, z.pools[p].jobs[i], g)
      BY <1>9, <3>1
    <3>3. PoolOf(t) = p /\ ~Begun(t)
      BY <1>1, <3>1, <3>2 DEF PoolInv
    <3>4. Kin(t, z.pools[p].jobs[i])
      BY <3>2 DEF Aged
    <3>5. PoolOf(z.pools[p].jobs[i]) = p
      BY <3>3, <3>4, PoolOfProps
    <3>6. ~Begun(z.pools[p].jobs[i])
      BY <3>2, <3>3 DEF Aged, Kin, Begun
    <3> QED
      BY <3>5, <3>6
  <2> QED
    BY <2>1, <2>2, <2>3 DEF PoolInv
<1>15. Once(z)
  <2>0. "identify" \in Pools
    BY DEF Pools
  <2>1. z.pools["identify"].jobs = jobs["identify"]
    BY <1>10, <1>12, <2>0
  <2>2. Single(z.pools["identify"].jobs) /\ Single(z.ring) /\ Lone(z.running)
    BY <1>1, <1>7, <1>8, <1>9, <1>12, <2>0, <2>1 DEF Once
  <2>3. /\ From(Listed(z.pools["identify"].jobs), Listed(x.pools["identify"].jobs))
        /\ From(Listed(z.ring), Listed(x.ring)) /\ From(z.running, x.running)
    BY <1>7, <1>8, <1>9, <1>12, <2>0, <2>1
  <2>4. /\ Apart(Listed(x.pools["identify"].jobs), x.running)
        /\ Apart(Listed(x.pools["identify"].jobs), Listed(x.ring))
        /\ Apart(x.running, Listed(x.ring))
    BY <1>1 DEF Once
  <2>5. /\ Apart(Listed(z.pools["identify"].jobs), z.running)
        /\ Apart(Listed(z.pools["identify"].jobs), Listed(z.ring))
        /\ Apart(z.running, Listed(z.ring))
    BY <2>3, <2>4, ApartFrom
  <2> QED
    BY <2>2, <2>5 DEF Once
<1>16. \A u \in Listed(z.ring) : u.kind = "identify" => u.status \in {"known", "failed"}
  BY <1>1, <1>8, <1>12 DEF Shape, Aged, Kin
<1>17. Shape(z)
  BY <1>7, <1>12, <1>14, <1>15, <1>16 DEF Shape
<1>18. \A u \in InFlight(z) : Sound(z, u, st, ap, n) /\ g \notin u.fresh
  <2> TAKE u \in InFlight(z)
  <2>1. PICK t \in InFlight(x) : Aged(t, u, g)
    BY <1>13
  <2>2. Sound(x, t, st, ap, n)
    BY DEF TaskInv
  <2>3. Sound(x, u, st, ap, n) /\ g \notin u.fresh
    BY <2>1, <2>2, AgedSound
  <2> QED
    BY <1>12, <2>3 DEF Sound
<1>19. TaskInv(z, st, ap, n)
  BY <1>12, <1>17, <1>18 DEF TaskInv
<1>20. \A p \in Pools : CanSubmit(x.pools[p]) => CanSubmit(z.pools[p])
  BY <1>9, <1>10, <1>12 DEF CanSubmit
<1>21. \A h : (\A t \in InFlight(x) : h \notin t.fresh) => (\A t \in InFlight(z) : h \notin t.fresh)
  BY <1>13 DEF Aged
<1> QED
  BY <1>6, <1>12, <1>18, <1>19, <1>20, <1>21 DEF ClientsKept, RestKept

-----------------------------------------------------------------------------
(* Tasks that move                                                         *)

\* Of two identifications of a connection each is like the other.
LEMMA AlikeSymmetric ==
  ASSUME NEW t, NEW u, Alike(t, u)
  PROVE  Alike(u, t)
  BY DEF Alike

\* A queue with a task more.
LEMMA AppendTask ==
  ASSUME NEW s \in Seq(Tasks), NEW t \in Tasks, NEW r, r = Append(s, t)
  PROVE  /\ r \in Seq(Tasks) /\ Listed(r) = Listed(s) \cup {t}
         /\ Single(s) /\ Apart(Listed(s), {t}) => Single(r)
<1>1. /\ r \in Seq(Tasks) /\ Len(r) = Len(s) + 1 /\ Len(s) \in Nat
      /\ \A i \in 1..Len(s) : r[i] = s[i]
      /\ r[Len(s) + 1] = t
      /\ DOMAIN s = 1..Len(s) /\ DOMAIN r = 1..Len(r)
  BY AppendProperties, LenProperties
<1>2. DOMAIN r = DOMAIN s \cup {Len(s) + 1}
  BY <1>1
<1>3. Listed(r) = Listed(s) \cup {t}
  BY <1>1, <1>2 DEF Listed
<1>4. ASSUME Single(s), Apart(Listed(s), {t}), NEW i \in DOMAIN r, NEW j \in DOMAIN r,
             Alike(r[i], r[j])
      PROVE  i = j
  <2>1. CASE i \in DOMAIN s /\ j \in DOMAIN s
    BY <1>1, <1>4, <2>1 DEF Single
  <2>2. CASE i \in DOMAIN s /\ j = Len(s) + 1
    BY <1>1, <1>4, <2>2 DEF Apart, Listed
  <2>3. CASE j \in DOMAIN s /\ i = Len(s) + 1
    BY <1>1, <1>4, <2>3, AlikeSymmetric DEF Apart, Listed
  <2> QED
    BY <1>2, <2>1, <2>2, <2>3
<1> QED
  BY <1>1, <1>3, <1>4 DEF Single

\* A queue without its oldest task.
LEMMA TailTask ==
  ASSUME NEW s \in Seq(Tasks), s # <<>>, NEW t, t = Head(s), NEW r, r = Tail(s)
  PROVE  /\ r \in Seq(Tasks) /\ t \in Tasks /\ t \in Listed(s) /\ Listed(r) \subseteq Listed(s)
         /\ Listed(s) = Listed(r) \cup {t}
         /\ \A i \in DOMAIN r : i + 1 \in DOMAIN s /\ r[i] = s[i + 1]
         /\ Single(s) => Single(r) /\ Apart(Listed(r), {t})
         /\ t = s[1] /\ 1 \in DOMAIN s
<1>1. /\ r \in Seq(Tasks) /\ t \in Tasks /\ Len(r) = Len(s) - 1 /\ Len(s) \in Nat \ {0}
      /\ \A i \in 1..Len(r) : r[i] = s[i + 1]
      /\ DOMAIN s = 1..Len(s) /\ DOMAIN r = 1..Len(r) /\ t = s[1]
  BY HeadTailProperties, LenProperties, EmptySeq
<1>2. \A i \in DOMAIN r : i + 1 \in DOMAIN s /\ r[i] = s[i + 1] /\ i + 1 # 1
  BY <1>1
<1>3. 1 \in DOMAIN s /\ t \in Listed(s)
  BY <1>1 DEF Listed
<1>4. Listed(r) \subseteq Listed(s)
  BY <1>2 DEF Listed
<1>5. Listed(s) \subseteq Listed(r) \cup {t}
  <2>1. \A i \in DOMAIN s : i = 1 \/ (i - 1 \in DOMAIN r /\ s[i] = r[i - 1])
    BY <1>1
  <2>2. \A i \in DOMAIN s : s[i] = t \/ s[i] \in Listed(r)
    BY <1>1, <2>1 DEF Listed
  <2> QED
    BY <2>2 DEF Listed
<1>6. ASSUME Single(s)
      PROVE  Single(r) /\ Apart(Listed(r), {t})
  <2>1. Single(r)
    <3> SUFFICES ASSUME NEW i \in DOMAIN r, NEW j \in DOMAIN r, Alike(r[i], r[j])
                 PROVE  i = j
      BY DEF Single
    <3>1. i + 1 = j + 1 /\ i \in Nat /\ j \in Nat
      BY <1>1, <1>2, <1>6 DEF Single
    <3> QED
      BY <3>1
  <2>2. Apart(Listed(r), {t})
    <3> SUFFICES ASSUME NEW i \in DOMAIN r, Alike(r[i], t)
                 PROVE  FALSE
      BY DEF Apart, Listed
    <3>1. Alike(s[i + 1], s[1])
      BY <1>1, <1>2
    <3> QED
      BY <1>2, <1>3, <1>6, <3>1 DEF Single
  <2> QED
    BY <2>1, <2>2
<1> QED
  BY <1>1, <1>2, <1>3, <1>4, <1>5, <1>6

\* A task is queued.
LEMMA EnqueueProps ==
  ASSUME NEW st, NEW ap, NEW n, NEW x, TaskInv(x, st, ap, n),
         NEW t \in Tasks, CanSubmit(x.pools[PoolOf(t)]), ~Begun(t), Sound(x, t, st, ap, n),
         Apart(InFlight(x), {t}), NEW y, y = Enqueue(x, t)
  PROVE  /\ TaskInv(y, st, ap, n) /\ ClientsKept(x, y) /\ RestKept(x, y)
         /\ y.valid = x.valid /\ InFlight(y) = InFlight(x) \cup {t}
<1> DEFINE q == PoolOf(t)
<1>0. q \in Pools /\ (q = "identify" <=> t.kind = "identify") /\ "identify" \in Pools
  BY PoolOfProps DEF Pools
<1>1. /\ Typed(x) /\ Shape(x) /\ Once(x) /\ x.pools \in [Pools -> PoolSet]
      /\ \A p \in Pools : PoolInv(x, p) /\ PoolOk(x.pools[p]) /\ x.pools[p].jobs \in Seq(Tasks)
  BY DEF TaskInv, Shape, Typed, PoolInv, PoolSet
<1>2. PICK pool : pool = Submit(x.pools[q], t)
  OBVIOUS
<1>3. PoolOk(pool) /\ pool.jobs = Append(x.pools[q].jobs, t) /\ pool.active = x.pools[q].active
  BY <1>0, <1>1, <1>2, SubmitProps
<1>4. /\ pool.jobs \in Seq(Tasks) /\ Listed(pool.jobs) = Listed(x.pools[q].jobs) \cup {t}
      /\ Single(x.pools[q].jobs) /\ Apart(Listed(x.pools[q].jobs), {t}) => Single(pool.jobs)
  BY <1>0, <1>1, <1>3, AppendTask
<1>5. PICK r : r = IF Refers(t) THEN [x.refs EXCEPT ![t.conn] = @ + 1] ELSE x.refs
  OBVIOUS
<1> DEFINE pools == [x.pools EXCEPT ![q] = pool]
           z == [x EXCEPT !.pools = pools, !.refs = r]
<1>6. pools \in [Pools -> PoolSet] /\ pools[q] = pool /\ \A p \in Pools : p # q => pools[p] = x.pools[p]
  BY <1>0, <1>1, <1>3 DEF PoolOk
<1>7. y = z
  BY <1>2, <1>5 DEF Enqueue
<1> HIDE DEF pools
<1>8. /\ Typed(z) /\ z.pools = pools /\ z.running = x.running /\ z.ring = x.ring
      /\ z.clients = x.clients /\ z.valid = x.valid /\ RestKept(x, z)
  BY <1>1, <1>6 DEF Typed, RestKept
<1> HIDE DEF z
<1>9. InFlight(z) = InFlight(x) \cup {t}
  <2>1. ASSUME NEW u
        PROVE  (\E p \in Pools : u \in Listed(pools[p].jobs)) <=>
               (\E p \in Pools : u \in Listed(x.pools[p].jobs)) \/ u = t
    <3>1. u \in Listed(pools[q].jobs) <=> u \in Listed(x.pools[q].jobs) \/ u = t
      BY <1>4, <1>6
    <3> QED
      BY <1>0, <1>6, <3>1
  <2>2. \A u : u \in InFlight(z) <=> u \in InFlight(x) \cup {t}
    BY <1>8, <2>1 DEF InFlight
  <2> QED
    BY <2>2
<1>10. \A p \in Pools : PoolInv(z, p)
  <2> TAKE p \in Pools
  <2>1. CASE p # q
    BY <1>1, <1>6, <1>8, <2>1 DEF PoolInv, Runs
  <2>2. CASE p = q
    <3>1. z.pools[p] = pool
      BY <1>6, <1>8, <2>2
    <3>2. Cardinality(Runs(z, p)) <= pool.active
      BY <1>1, <1>3, <1>8, <2>2 DEF PoolInv, Runs
    <3>3. ASSUME NEW i \in DOMAIN pool.jobs
          PROVE  PoolOf(pool.jobs[i]) = p /\ ~Begun(pool.jobs[i])
      <4>1. pool.jobs[i] \in Listed(x.pools[p].jobs) \cup {t}
        BY <1>4, <2>2 DEF Listed
      <4>2. CASE pool.jobs[i] = t
        BY <2>2, <4>2
      <4>3. CASE pool.jobs[i] \in Listed(x.pools[p].jobs)
        BY <1>1, <4>3 DEF PoolInv, Listed
      <4> QED
        BY <4>1, <4>2, <4>3
    <3> QED
      BY <1>3, <3>1, <3>2, <3>3 DEF PoolInv
  <2> QED
    BY <2>1, <2>2
<1>11. Once(z)
  <2>1. CASE q # "identify"
    BY <1>0, <1>1, <1>6, <1>8, <2>1 DEF Once
  <2>2. CASE q = "identify"
    <3>1. z.pools["identify"].jobs = pool.jobs
      BY <1>6, <1>8, <2>2
    <3>2. \A S : S \subseteq InFlight(x) => Apart(S, {t}) /\ Apart({t}, S)
      BY AlikeSymmetric DEF Apart
    <3>3. Listed(x.pools[q].jobs) \subseteq InFlight(x) /\ x.running \subseteq InFlight(x)
          /\ Listed(x.ring) \subseteq InFlight(x)
      BY <1>0 DEF InFlight
    <3>4. Single(pool.jobs)
      BY <1>1, <1>4, <2>2, <3>2, <3>3 DEF Once
    <3>5. Apart(Listed(pool.jobs), x.running) /\ Apart(Listed(pool.jobs), Listed(x.ring))
      <4>1. /\ Apart(Listed(x.pools[q].jobs), x.running) /\ Apart({t}, x.running)
            /\ Apart(Listed(x.pools[q].jobs), Listed(x.ring)) /\ Apart({t}, Listed(x.ring))
        BY <1>1, <2>2, <3>2, <3>3 DEF Once
      <4> QED
        BY <1>4, <4>1 DEF Apart
    <3> QED
      BY <1>1, <1>8, <3>1, <3>4, <3>5 DEF Once
  <2> QED
    BY <2>1, <2>2
<1>12. Shape(z)
  BY <1>1, <1>8, <1>10, <1>11 DEF Shape
<1>13. \A u \in InFlight(z) : Sound(z, u, st, ap, n)
  BY <1>8, <1>9 DEF TaskInv, Sound
<1>14. TaskInv(z, st, ap, n)
  BY <1>8, <1>12, <1>13 DEF TaskInv
<1> QED
  BY <1>7, <1>8, <1>9, <1>14 DEF ClientsKept, RestKept

\* A set with an element more, or less.
LEMMA Counting ==
  ASSUME NEW S, IsFiniteSet(S), NEW e
  PROVE  /\ Cardinality(S) \in Nat
         /\ Cardinality(S \cup {e}) \in Nat /\ Cardinality(S \cup {e}) <= Cardinality(S) + 1
         /\ IsFiniteSet(S \cup {e}) /\ IsFiniteSet(S \ {e})
         /\ e \in S => Cardinality(S \ {e}) \in Nat /\ Cardinality(S \ {e}) = Cardinality(S) - 1
<1>1. Cardinality(S) \in Nat
  BY FS_CardinalityType
<1>2. IsFiniteSet(S \cup {e}) /\ Cardinality(S \cup {e}) = IF e \in S THEN Cardinality(S) ELSE Cardinality(S) + 1
  BY FS_AddElement
<1>3. IsFiniteSet(S \ {e}) /\ Cardinality(S \ {e}) = IF e \in S THEN Cardinality(S) - 1 ELSE Cardinality(S)
  BY FS_RemoveElement
<1>4. Cardinality(S \ {e}) \in Nat
  BY <1>3, FS_CardinalityType
<1> QED
  BY <1>1, <1>2, <1>3, <1>4

\* A worker takes the oldest job of its pool.
LEMMA TakeTask ==
  ASSUME NEW st, NEW ap, NEW n, NEW x, TaskInv(x, st, ap, n), NEW q \in Pools,
         CanTake(x.pools[q]), NEW y,
         y = [x EXCEPT !.pools[q] = Take(@), !.running = @ \cup {Head(x.pools[q].jobs)}]
  PROVE  TaskInv(y, st, ap, n) /\ ClientsKept(x, y) /\ RestKept(x, y)
<1>1. /\ Typed(x) /\ Shape(x) /\ Once(x) /\ x.pools \in [Pools -> PoolSet]
      /\ IsFiniteSet(x.running) /\ x.running \in SUBSET Tasks
      /\ \A p \in Pools : PoolInv(x, p) /\ PoolOk(x.pools[p]) /\ x.pools[p].jobs \in Seq(Tasks)
  BY DEF TaskInv, Shape, Typed, PoolInv, PoolSet
<1>2. PICK pool : pool = Take(x.pools[q])
  OBVIOUS
<1>3. PICK t : t = Head(x.pools[q].jobs)
  OBVIOUS
<1>4. /\ PoolOk(pool) /\ pool.jobs = Tail(x.pools[q].jobs) /\ pool.active = x.pools[q].active + 1
      /\ x.pools[q].jobs # <<>>
  BY <1>1, <1>2, TakeProps
<1>5. /\ pool.jobs \in Seq(Tasks) /\ t \in Tasks /\ t \in Listed(x.pools[q].jobs)
      /\ Listed(pool.jobs) \subseteq Listed(x.pools[q].jobs)
      /\ \A i \in DOMAIN pool.jobs :
           i + 1 \in DOMAIN x.pools[q].jobs /\ pool.jobs[i] = x.pools[q].jobs[i + 1]
      /\ Single(x.pools[q].jobs) => Single(pool.jobs) /\ Apart(Listed(pool.jobs), {t})
  <2>1. PICK s \in Seq(Tasks) : s = x.pools[q].jobs /\ s # <<>> /\ t = Head(s) /\ pool.jobs = Tail(s)
    BY <1>1, <1>3, <1>4
  <2>2. /\ pool.jobs \in Seq(Tasks) /\ t \in Tasks /\ t \in Listed(s)
        /\ Listed(pool.jobs) \subseteq Listed(s)
        /\ \A i \in DOMAIN pool.jobs : i + 1 \in DOMAIN s /\ pool.jobs[i] = s[i + 1]
        /\ Single(s) => Single(pool.jobs) /\ Apart(Listed(pool.jobs), {t})
    <3>1. PICK r : r = pool.jobs
      OBVIOUS
    <3>2. /\ r \in Seq(Tasks) /\ t \in Tasks /\ t \in Listed(s) /\ Listed(r) \subseteq Listed(s)
          /\ \A i \in DOMAIN r : i + 1 \in DOMAIN s /\ r[i] = s[i + 1]
          /\ Single(s) => Single(r) /\ Apart(Listed(r), {t})
      <4>1. r = Tail(s)
        BY <2>1, <3>1
      <4>2. t = Head(s) /\ s # <<>>
        BY <2>1
      <4> QED
        BY <4>1, <4>2, TailTask, Zenon
    <3> QED
      BY <3>1, <3>2
  <2> QED
    BY <2>1, <2>2, Zenon
<1>6. PoolOf(t) = q /\ (q = "identify" <=> t.kind = "identify")
  BY <1>1, <1>5, PoolOfProps DEF PoolInv, Listed
<1> DEFINE pools == [x.pools EXCEPT ![q] = pool]
           run == x.running \cup {t}
           z == [x EXCEPT !.pools = pools, !.running = run]
<1>7. pools \in [Pools -> PoolSet] /\ pools[q] = pool /\ \A p \in Pools : p # q => pools[p] = x.pools[p]
  BY <1>1, <1>4 DEF PoolOk
<1>8. y = z
  BY <1>2, <1>3
<1>9. IsFiniteSet(run) /\ run \in SUBSET Tasks
  BY <1>1, <1>5, FS_AddElement
<1> HIDE DEF pools
<1>10. /\ Typed(z) /\ z.pools = pools /\ z.running = run /\ z.ring = x.ring
       /\ z.clients = x.clients /\ z.valid = x.valid /\ RestKept(x, z)
  BY <1>1, <1>7, <1>9 DEF Typed, RestKept
<1> HIDE DEF z
<1>11. InFlight(z) \subseteq InFlight(x)
  <2>1. Listed(x.pools[q].jobs) \subseteq InFlight(x) /\ \A p \in Pools : Listed(x.pools[p].jobs) \subseteq InFlight(x)
    BY DEF InFlight
  <2>2. \A p \in Pools : Listed(pools[p].jobs) \subseteq InFlight(x)
    BY <1>5, <1>7, <2>1
  <2>3. t \in InFlight(x) /\ x.running \subseteq InFlight(x) /\ Listed(x.ring) \subseteq InFlight(x)
    BY <1>5, <2>1 DEF InFlight
  <2>4. \A u : u \in InFlight(z) <=>
          u \in run \/ u \in Listed(x.ring) \/ \E p \in Pools : u \in Listed(pools[p].jobs)
    BY <1>10 DEF InFlight
  <2> QED
    BY <2>2, <2>3, <2>4
<1>12. \A p \in Pools : PoolInv(z, p)
  <2> TAKE p \in Pools
  <2>1. CASE p # q
    <3>1. Runs(z, p) = Runs(x, p)
      BY <1>6, <1>10, <2>1 DEF Runs
    <3> QED
      BY <1>1, <1>7, <1>10, <2>1, <3>1 DEF PoolInv
  <2>2. CASE p = q
    <3>1. z.pools[p] = pool
      BY <1>7, <1>10, <2>2
    <3>2. Runs(z, p) = Runs(x, p) \cup {t}
      BY <1>6, <1>10, <2>2 DEF Runs
    <3>3. IsFiniteSet(Runs(x, p))
      BY <1>1, FS_Subset DEF Runs
    <3>4. Cardinality(Runs(x, p)) \in Nat /\ Cardinality(Runs(z, p)) \in Nat
          /\ Cardinality(Runs(z, p)) <= Cardinality(Runs(x, p)) + 1
      BY <3>2, <3>3, Counting
    <3>5. Cardinality(Runs(x, p)) <= x.pools[p].active /\ x.pools[p].active \in Nat
      BY <1>1 DEF PoolInv, PoolSet
    <3>6. Cardinality(Runs(z, p)) <= pool.active
      BY <1>4, <2>2, <3>4, <3>5
    <3>7. \A i \in DOMAIN pool.jobs : PoolOf(pool.jobs[i]) = p /\ ~Begun(pool.jobs[i])
      BY <1>1, <1>5, <2>2 DEF PoolInv
    <3> QED
      BY <1>4, <3>1, <3>6, <3>7 DEF PoolInv
  <2> QED
    BY <2>1, <2>2
<1>13. Once(z)
  <2>0. "identify" \in Pools
    BY DEF Pools
  <2>1. CASE q # "identify"
    <3>1. \A u : ~Alike(t, u) /\ ~Alike(u, t)
      BY <1>6, <2>1 DEF Alike
    <3>2. z.pools["identify"].jobs = x.pools["identify"].jobs
      BY <1>7, <1>10, <2>0, <2>1
    <3>3. Lone(run)
      BY <1>1, <3>1 DEF Lone, Once
    <3>4. \A S : (Apart(S, x.running) => Apart(S, run)) /\ (Apart(x.running, S) => Apart(run, S))
      BY <3>1 DEF Apart
    <3> QED
      BY <1>1, <1>10, <3>2, <3>3, <3>4 DEF Once
  <2>2. CASE q = "identify"
    <3>1. z.pools["identify"].jobs = pool.jobs
      BY <1>7, <1>10, <2>2
    <3>2. /\ Single(x.pools[q].jobs) /\ Single(x.ring) /\ Lone(x.running)
          /\ Apart(Listed(x.pools[q].jobs), x.running)
          /\ Apart(Listed(x.pools[q].jobs), Listed(x.ring))
          /\ Apart(x.running, Listed(x.ring))
      BY <1>1, <2>2 DEF Once
    <3>3. Single(pool.jobs) /\ Apart(Listed(pool.jobs), {t})
      BY <1>5, <3>2
    <3>4. Lone(run)
      BY <1>5, <3>2, AlikeSymmetric DEF Lone, Apart
    <3>5. Apart(Listed(pool.jobs), run) /\ Apart(Listed(pool.jobs), Listed(x.ring))
      BY <1>5, <3>2, <3>3 DEF Apart
    <3>6. Apart(run, Listed(x.ring))
      BY <1>5, <3>2 DEF Apart
    <3> QED
      BY <1>10, <3>1, <3>2, <3>3, <3>4, <3>5, <3>6 DEF Once
  <2> QED
    BY <2>1, <2>2
<1>14. Shape(z)
  BY <1>1, <1>9, <1>10, <1>12, <1>13 DEF Shape
<1>15. \A u \in InFlight(z) : Sound(z, u, st, ap, n)
  BY <1>10, <1>11 DEF TaskInv, Sound
<1>16. TaskInv(z, st, ap, n)
  BY <1>10, <1>14, <1>15 DEF TaskInv
<1> QED
  BY <1>8, <1>10, <1>16 DEF ClientsKept, RestKept

\* A worker goes on with its task.
LEMMA ContinueTask ==
  ASSUME NEW st, NEW ap, NEW n, NEW x, TaskInv(x, st, ap, n), NEW t \in x.running,
         NEW u \in Tasks, Kin(t, u), Promise(u, st, ap), NEW y,
         y = [x EXCEPT !.running = (@ \ {t}) \cup {u}]
  PROVE  TaskInv(y, st, ap, n) /\ ClientsKept(x, y) /\ RestKept(x, y)
<1>1. /\ Typed(x) /\ Shape(x) /\ Once(x) /\ IsFiniteSet(x.running) /\ x.running \in SUBSET Tasks
      /\ \A p \in Pools : PoolInv(x, p) /\ x.pools[p] \in PoolSet
  BY DEF TaskInv, Shape, Typed, PoolInv, PoolSet
<1> DEFINE run == (x.running \ {t}) \cup {u}
<1>2. IsFiniteSet(run) /\ run \in SUBSET Tasks
  BY <1>1, FS_AddElement, FS_RemoveElement
<1>3. /\ Typed(y) /\ y.running = run /\ y.ring = x.ring /\ y.pools = x.pools
      /\ y.clients = x.clients /\ RestKept(x, y)
  BY <1>1, <1>2 DEF Typed, RestKept
<1>4. \A v \in InFlight(y) : v \in InFlight(x) \/ v = u
  BY <1>3 DEF InFlight
<1>5. PoolOf(u) = PoolOf(t)
  BY <1>1, PoolOfProps
<1>6. \A p \in Pools : PoolInv(y, p)
  <2> TAKE p \in Pools
  <2>1. Cardinality(Runs(y, p)) <= Cardinality(Runs(x, p)) /\ Cardinality(Runs(y, p)) \in Nat
        /\ Cardinality(Runs(x, p)) \in Nat
    <3>1. IsFiniteSet(Runs(x, p)) /\ Cardinality(Runs(x, p)) \in Nat
      BY <1>1, FS_Subset, FS_CardinalityType DEF Runs
    <3>2. CASE PoolOf(t) = p
      <4> DEFINE S == Runs(x, p) \ {t}
      <4>1. Runs(y, p) = S \cup {u} /\ t \in Runs(x, p)
        BY <1>3, <1>5, <3>2 DEF Runs
      <4>2. IsFiniteSet(S) /\ Cardinality(S) = Cardinality(Runs(x, p)) - 1 /\ Cardinality(S) \in Nat
        BY <3>1, <4>1, Counting
      <4> HIDE DEF S
      <4>3. Cardinality(S \cup {u}) <= Cardinality(S) + 1 /\ Cardinality(S \cup {u}) \in Nat
        BY <4>2, Counting
      <4>4. Cardinality(S \cup {u}) <= Cardinality(Runs(x, p))
        BY <3>1, <4>2, <4>3
      <4> QED
        BY <3>1, <4>1, <4>3, <4>4
    <3>3. CASE PoolOf(t) # p
      <4>1. Runs(y, p) = Runs(x, p)
        BY <1>3, <1>5, <3>3 DEF Runs
      <4> QED
        BY <3>1, <4>1
    <3> QED
      BY <3>2, <3>3
  <2>2. Cardinality(Runs(x, p)) <= x.pools[p].active /\ x.pools[p].active \in Nat
    BY <1>1 DEF PoolInv, PoolSet
  <2>3. Cardinality(Runs(y, p)) <= y.pools[p].active
    BY <1>3, <2>1, <2>2
  <2> QED
    BY <1>1, <1>3, <2>3 DEF PoolInv
<1>7. Once(y)
  <2>1. \A S : From(S, S)
    BY DEF From, Kin
  <2>2. From(run, x.running)
    BY DEF From, Kin
  <2>3. Lone(run)
    <3>1. \A v : (Alike(u, v) => Alike(t, v)) /\ (Alike(v, u) => Alike(v, t))
      BY DEF Alike, Kin
    <3> QED
      BY <1>1, <3>1 DEF Once, Lone
  <2>4. Apart(Listed(x.pools["identify"].jobs), run) /\ Apart(run, Listed(x.ring))
    <3>1. Apart(Listed(x.pools["identify"].jobs), x.running) /\ Apart(x.running, Listed(x.ring))
      BY <1>1 DEF Once
    <3> HIDE DEF run
    <3> QED
      BY <2>1, <2>2, <3>1, ApartFrom
  <2> HIDE DEF run
  <2> QED
    BY <1>1, <1>3, <2>3, <2>4 DEF Once
<1>8. Shape(y)
  <2> HIDE DEF run
  <2> QED
    BY <1>1, <1>2, <1>3, <1>6, <1>7 DEF Shape
<1>9. Sound(x, u, st, ap, n)
  <2>1. Sound(x, t, st, ap, n)
    BY DEF TaskInv, InFlight
  <2> QED
    BY <2>1 DEF Sound, Identity, Kin
<1>10. \A v \in InFlight(y) : Sound(y, v, st, ap, n)
  BY <1>3, <1>4, <1>9 DEF TaskInv, Sound
<1> QED
  BY <1>3, <1>8, <1>10 DEF TaskInv, ClientsKept

\* A worker is done with its task: the result, w, is in the ring or is lost.
LEMMA PushTask ==
  ASSUME NEW st, NEW ap, NEW n, NEW x, TaskInv(x, st, ap, n), NEW t \in x.running,
         NEW w \in Tasks, Kin(t, w), Promise(w, st, ap),
         w.kind = "identify" => w.status \in {"known", "failed"},
         NEW ring, ring = x.ring \/ ring = Append(x.ring, w), NEW r, NEW v, NEW y,
         y = [x EXCEPT !.refs = r, !.valid = v, !.pools[PoolOf(t)] = JobDone(@),
                       !.running = @ \ {t}, !.ring = ring]
  PROVE  TaskInv(y, st, ap, n) /\ ClientsKept(x, y) /\ RestKept(x, y)
<1>1. /\ Typed(x) /\ Shape(x) /\ Once(x) /\ x.pools \in [Pools -> PoolSet] /\ x.ring \in Seq(Tasks)
      /\ IsFiniteSet(x.running) /\ x.running \in SUBSET Tasks
      /\ \A p \in Pools : PoolInv(x, p) /\ PoolOk(x.pools[p]) /\ x.pools[p].jobs \in Seq(Tasks)
  BY DEF TaskInv, Shape, Typed, PoolInv, PoolSet
<1>2. PICK q \in Pools : q = PoolOf(t)
  BY <1>1, PoolOfProps
<1>3. /\ IsFiniteSet(Runs(x, q)) /\ t \in Runs(x, q) /\ Cardinality(Runs(x, q)) <= x.pools[q].active
      /\ x.pools[q].active \in Nat
  BY <1>1, <1>2, FS_Subset DEF Runs, PoolInv, PoolSet
<1>4. /\ Cardinality(Runs(x, q)) \in Nat /\ Cardinality(Runs(x, q) \ {t}) \in Nat
      /\ Cardinality(Runs(x, q) \ {t}) = Cardinality(Runs(x, q)) - 1
  BY <1>3, Counting
<1>5. x.pools[q].active > 0
  BY <1>3, <1>4
<1>6. PICK pool : pool = JobDone(x.pools[q])
  OBVIOUS
<1>7. PoolOk(pool) /\ pool.jobs = x.pools[q].jobs /\ pool.active = x.pools[q].active - 1
  BY <1>1, <1>5, <1>6, JobDoneProps
<1>8. ring \in Seq(Tasks) /\ Listed(ring) \subseteq Listed(x.ring) \cup {w}
  BY <1>1, AppendTask
<1> DEFINE pools == [x.pools EXCEPT ![q] = pool]
           run == x.running \ {t}
           z == [x EXCEPT !.refs = r, !.valid = v, !.pools = pools, !.running = run, !.ring = ring]
<1>9. pools \in [Pools -> PoolSet] /\ pools[q] = pool /\ \A p \in Pools : p # q => pools[p] = x.pools[p]
  BY <1>1, <1>7 DEF PoolOk
<1>10. y = z
  BY <1>2, <1>6
<1>11. IsFiniteSet(run) /\ run \in SUBSET Tasks
  BY <1>1, FS_RemoveElement
<1> HIDE DEF pools
<1>12. /\ Typed(z) /\ z.pools = pools /\ z.running = run /\ z.ring = ring
       /\ z.clients = x.clients /\ RestKept(x, z)
  BY <1>1, <1>8, <1>9, <1>11 DEF Typed, RestKept
<1> HIDE DEF z
<1>13. \A p \in Pools : z.pools[p].jobs = x.pools[p].jobs
  BY <1>7, <1>9, <1>12
<1>14. \A u \in InFlight(z) : u \in InFlight(x) \/ u = w
  BY <1>8, <1>12, <1>13 DEF InFlight
<1>15. \A p \in Pools : PoolInv(z, p)
  <2> TAKE p \in Pools
  <2>1. CASE p # q
    <3>1. Runs(z, p) = Runs(x, p)
      BY <1>2, <1>12, <2>1 DEF Runs
    <3> QED
      BY <1>1, <1>9, <1>12, <2>1, <3>1 DEF PoolInv
  <2>2. CASE p = q
    <3>1. Runs(z, p) = Runs(x, p) \ {t}
      BY <1>12, <2>2 DEF Runs
    <3>2. Cardinality(Runs(z, p)) <= pool.active
      BY <1>3, <1>4, <1>7, <2>2, <3>1
    <3> QED
      BY <1>1, <1>7, <1>9, <1>12, <1>13, <2>2, <3>2 DEF PoolInv
  <2> QED
    BY <2>1, <2>2
<1>16. Once(z)
  <2> DEFINE jobs == x.pools["identify"].jobs
  <2>0. z.pools["identify"].jobs = jobs
    BY <1>13 DEF Pools
  <2>1. /\ Single(jobs) /\ Single(x.ring) /\ Lone(x.running) /\ Apart(Listed(jobs), x.running)
        /\ Apart(Listed(jobs), Listed(x.ring)) /\ Apart(x.running, Listed(x.ring))
    BY <1>1 DEF Once
  <2> HIDE DEF jobs
  <2>2. \A u : (Alike(u, w) => Alike(u, t)) /\ (Alike(w, u) => Alike(t, u))
    BY DEF Alike, Kin
  <2>3. Lone(run)
    BY <2>1 DEF Lone
  <2>4. Apart(Listed(x.ring), {w})
    BY <2>1, <2>2, AlikeSymmetric DEF Apart
  <2>5. Single(ring)
    BY <1>1, <2>1, <2>4, AppendTask
  <2>6. Apart(Listed(jobs), run)
    BY <2>1 DEF Apart
  <2>7. Apart(Listed(jobs), Listed(ring))
    BY <1>8, <2>1, <2>2 DEF Apart
  <2>8. Apart(run, Listed(ring))
    <3>1. \A u \in run : ~Alike(u, t)
      BY <2>1 DEF Lone
    <3> QED
      BY <1>8, <2>1, <2>2, <3>1 DEF Apart
  <2> QED
    BY <1>12, <2>0, <2>1, <2>3, <2>5, <2>6, <2>7, <2>8 DEF Once
<1>17. Shape(z)
  <2>1. \A u \in Listed(z.ring) : u.kind = "identify" => u.status \in {"known", "failed"}
    BY <1>1, <1>8, <1>12 DEF Shape
  <2> QED
    BY <1>11, <1>12, <1>15, <1>16, <2>1 DEF Shape
<1>18. Sound(x, w, st, ap, n)
  <2>1. Sound(x, t, st, ap, n)
    BY DEF TaskInv, InFlight
  <2> QED
    BY <2>1 DEF Sound, Identity, Kin
<1>19. \A u \in InFlight(z) : Sound(z, u, st, ap, n)
  BY <1>12, <1>14, <1>18 DEF TaskInv, Sound
<1>20. TaskInv(z, st, ap, n)
  BY <1>12, <1>17, <1>19 DEF TaskInv
<1> QED
  BY <1>10, <1>12, <1>20 DEF ClientsKept, RestKept

\* The main thread takes a result from the ring: nothing else in flight
\* identifies its connection.
LEMMA PopTask ==
  ASSUME NEW st, NEW ap, NEW n, NEW x, TaskInv(x, st, ap, n), x.ring # <<>>,
         NEW t, t = Head(x.ring), NEW y, y = [x EXCEPT !.ring = Tail(@)]
  PROVE  /\ TaskInv(y, st, ap, n) /\ ClientsKept(x, y) /\ RestKept(x, y)
         /\ y.valid = x.valid /\ y.refs = x.refs
         /\ t \in Tasks /\ Sound(y, t, st, ap, n) /\ Apart(InFlight(y), {t})
         /\ t.kind = "identify" => t.status \in {"known", "failed"}
<1>1. /\ Typed(x) /\ Shape(x) /\ Once(x) /\ x.pools \in [Pools -> PoolSet] /\ x.ring \in Seq(Tasks)
      /\ \A p \in Pools : PoolInv(x, p) /\ x.pools[p].jobs \in Seq(Tasks)
  BY DEF TaskInv, Shape, Typed, PoolInv, PoolSet
<1>2. PICK ring : ring = Tail(x.ring)
  OBVIOUS
<1>3. /\ ring \in Seq(Tasks) /\ t \in Tasks /\ t \in Listed(x.ring) /\ Listed(ring) \subseteq Listed(x.ring)
      /\ Single(x.ring) => Single(ring) /\ Apart(Listed(ring), {t})
  <2>1. PICK s \in Seq(Tasks) : s = x.ring
    BY <1>1
  <2>2. s # <<>> /\ t = Head(s) /\ ring = Tail(s)
    BY <1>2, <2>1
  <2>3. /\ ring \in Seq(Tasks) /\ t \in Tasks /\ t \in Listed(s) /\ Listed(ring) \subseteq Listed(s)
        /\ Single(s) => Single(ring) /\ Apart(Listed(ring), {t})
    BY <2>2, TailTask, Zenon
  <2> QED
    BY <2>1, <2>3
<1>4. /\ Typed(y) /\ y.ring = ring /\ y.running = x.running /\ y.pools = x.pools /\ y.clients = x.clients
      /\ RestKept(x, y) /\ y.valid = x.valid /\ y.refs = x.refs
  BY <1>1, <1>2, <1>3 DEF Typed, RestKept
<1>5. \A u \in InFlight(y) : u \in InFlight(x)
  BY <1>3, <1>4 DEF InFlight
<1>6. \A p : PoolInv(x, p) <=> PoolInv(y, p)
  BY <1>4 DEF PoolInv, Runs
<1>7. Once(y)
  <2>1. \A S : Apart(S, Listed(x.ring)) => Apart(S, Listed(ring))
    BY <1>3 DEF Apart
  <2> QED
    BY <1>1, <1>3, <1>4, <2>1 DEF Once
<1>8. Shape(y)
  BY <1>1, <1>3, <1>4, <1>6, <1>7 DEF Shape
<1>9. \A u \in InFlight(y) : Sound(y, u, st, ap, n)
  BY <1>4, <1>5 DEF TaskInv, Sound
<1>10. Sound(y, t, st, ap, n)
  <2>1. t \in InFlight(x)
    BY <1>3 DEF InFlight
  <2> QED
    BY <1>4, <2>1 DEF TaskInv, Sound
<1>11. Apart(InFlight(y), {t})
  <2> SUFFICES ASSUME NEW u \in InFlight(y), Alike(u, t)
               PROVE  FALSE
    BY DEF Apart
  <2>1. CASE u \in x.running
    BY <1>1, <1>3, <2>1 DEF Once, Apart
  <2>2. CASE u \in Listed(ring)
    BY <1>1, <1>3, <2>2 DEF Once, Apart
  <2>3. ASSUME NEW p \in Pools, u \in Listed(x.pools[p].jobs)
        PROVE  FALSE
    <3>1. u \in Tasks /\ PoolOf(u) = p
      BY <1>1, <2>3, LenProperties DEF PoolInv, Listed
    <3>2. p = "identify"
      BY <3>1, PoolOfProps DEF Alike
    <3> QED
      BY <1>1, <1>3, <2>3, <3>2 DEF Once, Apart
  <2> QED
    BY <1>4, <2>1, <2>2, <2>3 DEF InFlight
<1>12. t.kind = "identify" => t.status \in {"known", "failed"}
  BY <1>1, <1>3 DEF Shape
<1> QED
  BY <1>3, <1>4, <1>8, <1>9, <1>10, <1>11, <1>12 DEF TaskInv, ClientsKept

\* The threads of the pools do something, and no job is queued or taken.
LEMMA PoolsStep ==
  ASSUME NEW st, NEW ap, NEW n, NEW x, TaskInv(x, st, ap, n),
         NEW pools, pools = [p \in Pools |-> pools[p]],
         \A p \in Pools : /\ PoolOk(pools[p]) /\ pools[p].jobs = x.pools[p].jobs
                          /\ pools[p].active = x.pools[p].active,
         NEW y, y = [x EXCEPT !.pools = pools]
  PROVE  TaskInv(y, st, ap, n) /\ ClientsKept(x, y) /\ RestKept(x, y)
<1>1. pools \in [Pools -> PoolSet]
  BY DEF PoolOk
<1>2. Typed(x) /\ Shape(x)
  BY DEF TaskInv
<1>3. /\ Typed(y) /\ y.pools = pools /\ y.running = x.running /\ y.ring = x.ring
      /\ y.clients = x.clients /\ RestKept(x, y)
  BY <1>1, <1>2 DEF Typed, RestKept
<1>4. \A p \in Pools : PoolInv(y, p)
  BY <1>2, <1>3 DEF Shape, PoolInv, Runs
<1>5. Once(y)
  <2>1. y.pools["identify"].jobs = x.pools["identify"].jobs
    BY <1>3 DEF Pools
  <2> QED
    BY <1>2, <1>3, <2>1 DEF Shape, Once
<1>6. InFlight(y) = InFlight(x)
  BY <1>3 DEF InFlight
<1>7. Shape(y)
  BY <1>2, <1>3, <1>4, <1>5 DEF Shape
<1> QED
  BY <1>3, <1>6, <1>7 DEF TaskInv, Sound, ClientsKept

-----------------------------------------------------------------------------
(* Handlers of the main thread: clients                                    *)

Put(x, c, k, v) == [x EXCEPT !.clients[c] = k, !.valid = v]

\* A client may become k.
MayBe(x, st, c, k) ==
  /\ k \in ClientSet /\ k.conn = x.clients[c].conn
  /\ k.id = x.clients[c].id \/ Idle(x, c)
  /\ c \in Leases => Warranted(x, k) /\ Covered(x, st, c, k)

Became(x, y, c, k) ==
  /\ RestKept(x, y) /\ y.pools = x.pools /\ InFlight(y) = InFlight(x)
  /\ y.clients[c] = k /\ \A b \in Clients : b # c => y.clients[b] = x.clients[b]

\* A client changes, and its connection may become invalid.
LEMMA SetClient ==
  ASSUME NEW st, NEW ap, NEW n \in Nat, NEW x, Good(x, st, ap, n), NEW c \in Clients,
         NEW k, MayBe(x, st, c, k), NEW v, NEW y, y = Put(x, c, k, v)
  PROVE  Good(y, st, ap, n) /\ Became(x, y, c, k) /\ y.valid = v
<1>1. Typed(x) /\ x.clients \in [Clients -> ClientSet] /\ TaskInv(x, st, ap, n)
  BY DEF Good, TaskInv, Typed
<1> DEFINE cl == [x.clients EXCEPT ![c] = k]
<1>2. cl \in [Clients -> ClientSet] /\ cl[c] = k /\ \A b \in Clients : b # c => cl[b] = x.clients[b]
  BY <1>1 DEF MayBe
<1>3. y = [x EXCEPT !.clients = cl, !.valid = v]
  BY DEF Put
<1> HIDE DEF cl
<1>4. /\ Typed(y) /\ y.clients = cl /\ y.running = x.running /\ y.ring = x.ring /\ y.pools = x.pools
      /\ y.valid = v /\ RestKept(x, y)
  BY <1>1, <1>2, <1>3 DEF Typed, RestKept
<1>5. \A b \in Clients : y.clients[b].conn <= n /\ Stays(x, y, n, b)
  BY <1>1, <1>2, <1>4 DEF TaskInv, Stays, MayBe
<1>6. TaskInv(y, st, ap, n)
  <2>1. n <= n
    OBVIOUS
  <2> QED
    BY <1>1, <1>4, <1>5, <2>1, Transfer, Zenon
<1>7. Leases \subseteq Clients
  BY DEF Clients
<1>8. Granted(y)
  BY <1>2, <1>4, <1>7 DEF Good, Granted, Warranted, RestKept, MayBe
<1>9. Current(y, st)
  BY <1>2, <1>4, <1>7 DEF Good, Current, Covered, RestKept, MayBe
<1> QED
  BY <1>2, <1>4, <1>6, <1>8, <1>9, SameTasks DEF Good, Became

\* What a client holds, and who it is, stay.
Same(k, j) == k.conn = j.conn /\ k.id = j.id /\ k.granted = j.granted /\ k.paused = j.paused

\* Nothing is granted when neither changes.
LEMMA SameMayBe ==
  ASSUME NEW st, NEW ap, NEW n, NEW x, Good(x, st, ap, n), NEW c, NEW k \in ClientSet,
         Same(k, x.clients[c])
  PROVE  MayBe(x, st, c, k)
  BY DEF Good, Granted, Current, Warranted, Covered, Same, MayBe

\* A request is answered.
LEMMA AnswerProps ==
  ASSUME NEW st, NEW ap, NEW n \in Nat, NEW x, Good(x, st, ap, n), NEW c \in Clients,
         NEW y, y = Answer(x, c)
  PROVE  /\ Good(y, st, ap, n) /\ RestKept(x, y) /\ y.valid = x.valid
         /\ Same(y.clients[c], x.clients[c])
<1>1. Typed(x) /\ x.clients[c] \in ClientSet /\ x.clients \in [Clients -> ClientSet]
  BY DEF Good, TaskInv, Typed
<1>2. PICK k : k = [x.clients[c] EXCEPT !.pending = FALSE, !.scopes = {}, !.request = FALSE]
  OBVIOUS
<1>3. k \in ClientSet /\ Same(k, x.clients[c])
  BY <1>1, <1>2 DEF ClientSet, Same
<1>4. y = Put(x, c, k, x.valid)
  BY <1>1, <1>2 DEF Answer, Typed, Put
<1>5. MayBe(x, st, c, k)
  BY <1>3, SameMayBe
<1>6. Good(y, st, ap, n) /\ Became(x, y, c, k) /\ y.valid = x.valid
  BY <1>4, <1>5, SetClient
<1> QED
  BY <1>3, <1>6 DEF Became

\* Grants depend on the clients only.
LEMMA GoodKept ==
  ASSUME NEW st, NEW ap, NEW n, NEW x, Good(x, st, ap, n), NEW y, TaskInv(y, st, ap, n),
         ClientsKept(x, y), RestKept(x, y)
  PROVE  Good(y, st, ap, n)
  BY DEF Good, Granted, Current, Warranted, Covered, ClientsKept, RestKept

\* A client that was identified is granted what the store allows.
LEMMA GrantProps ==
  ASSUME NEW st, NEW ap, NEW n \in Nat, NEW x, Good(x, st, ap, n), NEW c \in Leases,
         x.clients[c].id = "known", x.clients[c].conn # 0, ~x.failed, ~x.inflight,
         NEW scopes, scopes \subseteq Scopes, st.notify \/ scopes \subseteq st.allowed[App[c]],
         NEW fault, NEW y, y = Grant(x, c, scopes, fault)
  PROVE  Good(y, st, ap, n)
<1>0. c \in Clients
  BY DEF Clients
<1>1. PICK a : a = Answer(x, c)
  OBVIOUS
<1>2. Good(a, st, ap, n) /\ RestKept(x, a) /\ a.valid = x.valid /\ Same(a.clients[c], x.clients[c])
  BY <1>0, <1>1, AnswerProps
<1>3. Typed(a) /\ a.clients[c] \in ClientSet /\ a.clients \in [Clients -> ClientSet]
  BY <1>0, <1>2 DEF Good, TaskInv, Typed
<1>4. PICK k : k = [a.clients[c] EXCEPT !.granted = @ \cup scopes]
  OBVIOUS
<1>5. /\ k \in ClientSet /\ k.granted = a.clients[c].granted \cup scopes
      /\ k.conn = a.clients[c].conn /\ k.id = a.clients[c].id
  BY <1>3, <1>4 DEF ClientSet
<1>6. MayBe(a, st, c, k)
  <2>1. Warranted(a, k)
    BY <1>2, <1>5 DEF Warranted, RestKept, Same
  <2>2. Covered(a, st, c, k)
    BY <1>2, <1>5 DEF Covered, Good, Current, RestKept
  <2> QED
    BY <1>5, <2>1, <2>2 DEF MayBe
<1>7. PICK v : v = IF fault = "send" THEN [a.valid EXCEPT ![x.clients[c].conn] = FALSE] ELSE a.valid
  OBVIOUS
<1>8. y = Put(a, c, k, v)
  BY <1>1, <1>3, <1>4, <1>7 DEF Grant, Invalidate, Put, Typed
<1> QED
  BY <1>0, <1>2, <1>6, <1>8, SetClient

\* A task for a client says nothing yet.
LEMMA NewTaskProps ==
  ASSUME NEW x, Typed(x), NEW c \in Leases, x.clients[c].conn # 0,
         NEW kind \in {"identify", "check", "prompt"}, NEW missing \in SUBSET Scopes,
         NEW t, t = NewTask(x, c, kind) \/ t = [NewTask(x, c, kind) EXCEPT !.missing = missing]
  PROVE  /\ t \in Tasks /\ t.kind = kind /\ t.client = c /\ t.conn = x.clients[c].conn
         /\ ~Begun(t) /\ \A st, ap : Promise(t, st, ap)
<1>1. x.clients[c] \in ClientSet
  BY DEF Typed, Clients
<1>2. x.clients[c].conn \in Nat \ {0} /\ x.clients[c].scopes \in SUBSET Scopes
  BY <1>1 DEF ClientSet
<1>3. PICK k, s, f : /\ k = x.clients[c].conn /\ s = x.clients[c].scopes
                     /\ f = CASE kind = "identify" -> {} [] kind = "revoke" -> {"input"}
                              [] OTHER -> {"input", "permission"}
  OBVIOUS
<1>4. f \in SUBSET Generations
  BY <1>3 DEF Generations
<1> DEFINE u == [kind |-> kind, client |-> c, conn |-> k, fresh |-> f, stage |-> "start",
                 status |-> "ok", scopes |-> s, apps |-> {}, missing |-> {}, allowed |-> {}]
           w == [u EXCEPT !.missing = missing]
<1>5. NewTask(x, c, kind) = u
  BY <1>3 DEF NewTask
<1>6. u \in LeaseTasks /\ w \in LeaseTasks
  BY <1>2, <1>3, <1>4 DEF LeaseTasks, Stages, Statuses
<1>7. t = u \/ t = w
  BY <1>5
<1>8. t \in LeaseTasks /\ t.kind = kind /\ t.client = c /\ t.conn = k /\ t.allowed = {} /\ t.stage = "start"
  BY <1>6, <1>7
<1> HIDE DEF u, w
<1>9. ~Begun(t) /\ \A st, ap : Promise(t, st, ap)
  BY <1>8 DEF Begun, Promise
<1> QED
  BY <1>3, <1>8, <1>9 DEF Tasks

\* A client that is not being identified has nothing in flight but what came
\* after it was.
LEMMA IdleProps ==
  ASSUME NEW st, NEW ap, NEW n, NEW x, TaskInv(x, st, ap, n), NEW c \in Leases,
         x.clients[c].id # "known",
         \A u \in InFlight(x) : u.kind = "identify" /\ u.client = c => u.conn # x.clients[c].conn
  PROVE  Idle(x, c)
<1> SUFFICES ASSUME NEW u \in InFlight(x), u.kind # "refresh", u.client = c,
                    u.conn = x.clients[c].conn
             PROVE  FALSE
  BY DEF Idle
<1>1. u \in Tasks /\ Sound(x, u, st, ap, n)
  BY InFlightTasks DEF TaskInv
<1>2. u.kind # "revoke"
  BY <1>1, TaskKinds, ClientAssumption
<1>3. u.kind \in {"check", "prompt"}
  BY <1>1, <1>2, TaskKinds
<1> QED
  BY <1>1, <1>3 DEF Sound, Identity

\* A task that is not an identification is queued for a client.
LEMMA QueueProps ==
  ASSUME NEW st, NEW ap, NEW n, NEW x, Good(x, st, ap, n), NEW c \in Leases,
         x.clients[c].id = "known", NEW t \in Tasks, t.kind \in {"check", "prompt"},
         t.client = c, t.conn = x.clients[c].conn, ~Begun(t), Promise(t, st, ap),
         CanSubmit(x.pools[PoolOf(t)]), NEW y, y = Enqueue(x, t)
  PROVE  /\ Good(y, st, ap, n) /\ ClientsKept(x, y) /\ RestKept(x, y) /\ y.valid = x.valid
<1>1. TaskInv(x, st, ap, n) /\ x.clients[c].conn <= n
  BY DEF Good, TaskInv, Clients
<1>2. Sound(x, t, st, ap, n)
  BY <1>1 DEF Sound, Identity
<1>3. Apart(InFlight(x), {t})
  BY DEF Apart, Alike
<1>4. TaskInv(y, st, ap, n) /\ ClientsKept(x, y) /\ RestKept(x, y) /\ y.valid = x.valid
  BY <1>1, <1>2, <1>3, EnqueueProps
<1> QED
  BY <1>4, GoodKept

\* start_permission_check
LEMMA StartCheckProps ==
  ASSUME NEW st, NEW ap, NEW n \in Nat, NEW x, Good(x, st, ap, n), NEW c \in Leases,
         x.clients[c].id = "known", x.clients[c].conn # 0,
         NEW fault, NEW y, y = StartCheck(x, c, fault)
  PROVE  Good(y, st, ap, n)
<1>0. c \in Clients /\ Typed(x)
  BY DEF Clients, Good, TaskInv
<1>1. PICK t : t = NewTask(x, c, "check")
  OBVIOUS
<1>2. /\ t \in Tasks /\ t.kind = "check" /\ t.client = c /\ t.conn = x.clients[c].conn
      /\ ~Begun(t) /\ Promise(t, st, ap)
  BY <1>0, <1>1, NewTaskProps
<1>3. PICK e : e = Enqueue(x, t)
  OBVIOUS
<1>4. CASE ~x.failed /\ ~x.inflight /\ Accepts(x, t, fault = "submit")
  <2>1. CanSubmit(x.pools[PoolOf(t)])
    BY <1>4 DEF Accepts
  <2>2. Good(e, st, ap, n) /\ ClientsKept(x, e)
    BY <1>2, <1>3, <2>1, QueueProps
  <2>3. Typed(e) /\ e.clients[c] \in ClientSet /\ e.clients \in [Clients -> ClientSet]
    BY <1>0, <2>2 DEF Good, TaskInv, Typed
  <2>4. PICK k : k = [e.clients[c] EXCEPT !.task = "check"]
    OBVIOUS
  <2>5. k \in ClientSet /\ Same(k, e.clients[c])
    BY <2>3, <2>4 DEF ClientSet, Same
  <2>6. MayBe(e, st, c, k)
    BY <2>2, <2>5, SameMayBe
  <2>7. y = Put(e, c, k, e.valid)
    BY <1>1, <1>3, <1>4, <2>3, <2>4 DEF StartCheck, Put, Typed
  <2> QED
    BY <1>0, <2>2, <2>6, <2>7, SetClient
<1>5. CASE ~(~x.failed /\ ~x.inflight /\ Accepts(x, t, fault = "submit"))
  <2>1. y = Answer(x, c)
    BY <1>1, <1>5 DEF StartCheck
  <2> QED
    BY <1>0, <2>1, AnswerProps
<1> QED
  BY <1>4, <1>5

\* A client is asked for what it is missing.
LEMMA StartPromptProps ==
  ASSUME NEW st, NEW ap, NEW n \in Nat, NEW x, Good(x, st, ap, n), NEW c \in Leases,
         x.clients[c].id = "known", x.clients[c].conn # 0, NEW missing \in SUBSET Scopes,
         NEW fault, NEW y, y = StartPrompt(x, c, missing, fault)
  PROVE  Good(y, st, ap, n)
<1>0. c \in Clients /\ Typed(x)
  BY DEF Clients, Good, TaskInv
<1>1. PICK t : t = [NewTask(x, c, "prompt") EXCEPT !.missing = missing]
  OBVIOUS
<1>2. /\ t \in Tasks /\ t.kind = "prompt" /\ t.client = c /\ t.conn = x.clients[c].conn
      /\ ~Begun(t) /\ Promise(t, st, ap)
  BY <1>0, <1>1, NewTaskProps
<1>3. PICK e : e = Enqueue(x, t)
  OBVIOUS
<1>4. CASE Accepts(x, t, fault = "submit")
  <2>1. CanSubmit(x.pools[PoolOf(t)])
    BY <1>4 DEF Accepts
  <2>2. Good(e, st, ap, n) /\ ClientsKept(x, e)
    BY <1>2, <1>3, <2>1, QueueProps
  <2>3. Typed(e) /\ e.clients[c] \in ClientSet /\ e.clients \in [Clients -> ClientSet]
    BY <1>0, <2>2 DEF Good, TaskInv, Typed
  <2>4. PICK k : k = [e.clients[c] EXCEPT !.prompt = TRUE]
    OBVIOUS
  <2>5. k \in ClientSet /\ Same(k, e.clients[c])
    BY <2>3, <2>4 DEF ClientSet, Same
  <2>6. MayBe(e, st, c, k)
    BY <2>2, <2>5, SameMayBe
  <2>7. y = Put(e, c, k, e.valid)
    BY <1>1, <1>3, <1>4, <2>3, <2>4 DEF StartPrompt, Put, Typed
  <2> QED
    BY <1>0, <2>2, <2>6, <2>7, SetClient
<1>5. CASE ~Accepts(x, t, fault = "submit")
  <2>1. y = Answer(x, c)
    BY <1>1, <1>5 DEF StartPrompt
  <2> QED
    BY <1>0, <2>1, AnswerProps
<1> QED
  BY <1>4, <1>5

\* A client that was never identified is.
LEMMA StartIdentifyProps ==
  ASSUME NEW st, NEW ap, NEW n \in Nat, NEW x, Good(x, st, ap, n), NEW c \in Leases,
         x.clients[c].id = "unknown", x.clients[c].conn # 0,
         NEW fault, NEW y, y = StartIdentify(x, c, fault)
  PROVE  Good(y, st, ap, n)
<1>0. c \in Clients /\ Typed(x) /\ TaskInv(x, st, ap, n)
  BY DEF Clients, Good, TaskInv
<1>1. PICK t : t = NewTask(x, c, "identify")
  OBVIOUS
<1>2. /\ t \in Tasks /\ t.kind = "identify" /\ t.client = c /\ t.conn = x.clients[c].conn
      /\ ~Begun(t) /\ Promise(t, st, ap)
  BY <1>0, <1>1, NewTaskProps
<1>3. \A z : TaskInv(z, st, ap, n) /\ z.clients[c].id = "unknown" => Idle(z, c)
  <2> SUFFICES ASSUME NEW z, TaskInv(z, st, ap, n), z.clients[c].id = "unknown"
               PROVE  Idle(z, c)
    OBVIOUS
  <2>1. \A u \in InFlight(z) : u.kind = "identify" /\ u.client = c => u.conn # z.clients[c].conn
    BY DEF TaskInv, Sound, Identity
  <2> QED
    BY <2>1, IdleProps
<1>4. CASE Accepts(x, t, fault = "submit")
  <2>1. x.clients[c] \in ClientSet /\ x.clients \in [Clients -> ClientSet]
    BY <1>0 DEF Typed
  <2>2. PICK k : k = [x.clients[c] EXCEPT !.id = "busy"]
    OBVIOUS
  <2>3. /\ k \in ClientSet /\ k.conn = x.clients[c].conn /\ k.granted = x.clients[c].granted
        /\ k.id = "busy"
    BY <2>1, <2>2 DEF ClientSet
  <2>4. Warranted(x, k) /\ Covered(x, st, c, k)
    BY <2>3 DEF Good, Granted, Warranted, Covered
  <2>5. MayBe(x, st, c, k)
    BY <1>0, <1>3, <2>3, <2>4 DEF MayBe
  <2>6. PICK z : z = Put(x, c, k, x.valid)
    OBVIOUS
  <2>7. Good(z, st, ap, n) /\ Became(x, z, c, k) /\ z.valid = x.valid
    BY <1>0, <2>5, <2>6, SetClient
  <2>8. TaskInv(z, st, ap, n) /\ z.clients[c].conn <= n /\ z.clients[c].id = "busy"
        /\ t.conn = z.clients[c].conn
    BY <1>0, <1>2, <2>3, <2>7 DEF Good, TaskInv, Became
  <2>9. Sound(z, t, st, ap, n)
    BY <1>2, <2>8 DEF Sound, Identity
  <2>10. Apart(InFlight(z), {t})
    <3>1. Idle(x, c) /\ InFlight(z) = InFlight(x)
      BY <1>0, <1>3, <2>7 DEF Became
    <3> QED
      BY <1>2, <3>1 DEF Apart, Alike, Idle
  <2>11. CanSubmit(z.pools[PoolOf(t)])
    BY <1>4, <2>7 DEF Accepts, Became
  <2>12. y = Enqueue(z, t)
    BY <1>0, <1>1, <1>4, <2>1, <2>2, <2>6 DEF StartIdentify, Enqueue, Put, Typed
  <2>13. TaskInv(y, st, ap, n) /\ ClientsKept(z, y) /\ RestKept(z, y)
    BY <1>2, <2>8, <2>9, <2>10, <2>11, <2>12, EnqueueProps
  <2> QED
    BY <2>7, <2>13, GoodKept
<1>5. CASE ~Accepts(x, t, fault = "submit")
  <2>1. PICK a : a = Answer(x, c)
    OBVIOUS
  <2>2. Good(a, st, ap, n) /\ Same(a.clients[c], x.clients[c])
    BY <1>0, <2>1, AnswerProps
  <2>3. Typed(a) /\ a.clients[c] \in ClientSet /\ a.clients \in [Clients -> ClientSet]
    BY <1>0, <2>2 DEF Good, TaskInv, Typed
  <2>4. PICK k : k = [a.clients[c] EXCEPT !.id = "failed"]
    OBVIOUS
  <2>5. k \in ClientSet /\ k.conn = a.clients[c].conn /\ k.granted = a.clients[c].granted
    BY <2>3, <2>4 DEF ClientSet
  <2>6. Warranted(a, k) /\ Covered(a, st, c, k)
    BY <2>2, <2>5 DEF Good, Granted, Warranted, Covered, Same
  <2>7. MayBe(a, st, c, k)
    BY <1>3, <2>2, <2>5, <2>6 DEF MayBe, Good, Same
  <2>8. y = Put(a, c, k, a.valid)
    BY <1>1, <1>5, <2>1, <2>3, <2>4 DEF StartIdentify, Put, Typed
  <2> QED
    BY <1>0, <2>2, <2>7, <2>8, SetClient
<1> QED
  BY <1>4, <1>5

\* begin_authorization
LEMMA BeginProps ==
  ASSUME NEW st, NEW ap, NEW n \in Nat, NEW x, Good(x, st, ap, n), NEW c \in Leases,
         x.clients[c].conn # 0, NEW scopes \in SUBSET Scopes, NEW request \in BOOLEAN,
         NEW fault, NEW y, y = BeginAuthorization(x, c, scopes, request, fault)
  PROVE  Good(y, st, ap, n)
<1>0. c \in Clients /\ Typed(x) /\ x.clients[c] \in ClientSet /\ x.clients \in [Clients -> ClientSet]
  BY DEF Clients, Good, TaskInv, Typed
<1>1. PICK k : k = [x.clients[c] EXCEPT !.pending = TRUE, !.scopes = scopes, !.request = request]
  OBVIOUS
<1>2. k \in ClientSet /\ Same(k, x.clients[c])
  BY <1>0, <1>1 DEF ClientSet, Same
<1>3. MayBe(x, st, c, k)
  BY <1>2, SameMayBe
<1>4. PICK z : z = Put(x, c, k, x.valid)
  OBVIOUS
<1>5. Good(z, st, ap, n) /\ Became(x, z, c, k)
  BY <1>0, <1>3, <1>4, SetClient
<1>6. z = [x EXCEPT !.clients[c].pending = TRUE, !.clients[c].scopes = scopes, !.clients[c].request = request]
  BY <1>0, <1>1, <1>4 DEF Put, Typed
<1>7. z.clients[c].conn # 0 /\ z.clients[c].id \in {"unknown", "busy", "known", "failed"}
  BY <1>2, <1>5 DEF Became, Same, ClientSet
<1>8. y = CASE z.clients[c].id = "unknown" -> StartIdentify(z, c, fault)
            [] z.clients[c].id = "busy" -> z
            [] z.clients[c].id = "failed" -> Answer(z, c)
            [] OTHER -> StartCheck(z, c, fault)
  BY <1>6, Zenon DEF BeginAuthorization
<1>9. CASE z.clients[c].id = "unknown"
  <2>1. y = StartIdentify(z, c, fault)
    BY <1>8, <1>9
  <2> QED
    BY <1>5, <1>7, <1>9, <2>1, StartIdentifyProps
<1>10. CASE z.clients[c].id = "busy"
  BY <1>5, <1>8, <1>10
<1>11. CASE z.clients[c].id = "failed"
  <2>1. y = Answer(z, c)
    BY <1>8, <1>11
  <2> QED
    BY <1>0, <1>5, <2>1, AnswerProps
<1>12. CASE z.clients[c].id = "known"
  <2>1. y = StartCheck(z, c, fault)
    BY <1>8, <1>12
  <2> QED
    BY <1>5, <1>7, <1>12, <2>1, StartCheckProps
<1> QED
  BY <1>7, <1>9, <1>10, <1>11, <1>12

\* process_client_identified
LEMMA IdentifyDoneProps ==
  ASSUME NEW st, NEW ap, NEW n \in Nat, NEW x, Good(x, st, ap, n),
         NEW t \in Tasks, t.kind = "identify", t.status \in {"known", "failed"},
         Sound(x, t, st, ap, n), Apart(InFlight(x), {t}), x.clients[t.client].conn = t.conn,
         NEW fault, NEW y, y = IdentifyDone(x, t, fault)
  PROVE  Good(y, st, ap, n)
<1>1. PICK c \in Leases : c = t.client
  BY TaskKinds
<1>0. c \in Clients /\ Typed(x) /\ x.clients[c] \in ClientSet /\ x.clients \in [Clients -> ClientSet]
  BY <1>1 DEF Clients, Good, TaskInv, Typed
<1>2. x.clients[c].id = "busy" /\ x.clients[c].conn # 0
  BY <1>1, TaskKinds DEF Sound, Identity
<1>3. Idle(x, c)
  <2>1. \A u \in InFlight(x) : u.kind = "identify" /\ u.client = c => u.conn # x.clients[c].conn
    BY <1>1 DEF Apart, Alike
  <2> QED
    BY <1>2, <2>1, IdleProps DEF Good
<1>4. PICK id : id = IF x.owner THEN t.status ELSE "failed"
  OBVIOUS
<1>5. id \in {"known", "failed"}
  BY <1>4
<1>6. PICK k : k = [x.clients[c] EXCEPT !.id = id]
  OBVIOUS
<1>7. /\ k \in ClientSet /\ k.conn = x.clients[c].conn /\ k.granted = x.clients[c].granted /\ k.id = id
  BY <1>0, <1>5, <1>6 DEF ClientSet
<1>8. MayBe(x, st, c, k)
  BY <1>2, <1>3, <1>7 DEF MayBe, Good, Granted, Warranted, Covered
<1>9. PICK z : z = Put(x, c, k, x.valid)
  OBVIOUS
<1>10. Good(z, st, ap, n) /\ Became(x, z, c, k)
  BY <1>0, <1>8, <1>9, SetClient
<1>11. z = [x EXCEPT !.clients[c].id = id]
  BY <1>0, <1>6, <1>9 DEF Put, Typed
<1>12. y = CASE ~z.clients[c].pending -> z
             [] z.clients[c].pending /\ z.clients[c].id = "failed" -> Answer(z, c)
             [] OTHER -> StartCheck(z, c, fault)
  BY <1>1, <1>4, <1>11, Zenon DEF IdentifyDone
<1>13. z.clients[c].conn # 0 /\ z.clients[c].id \in {"known", "failed"}
  BY <1>2, <1>5, <1>7, <1>10 DEF Became
<1>14. CASE ~z.clients[c].pending
  BY <1>10, <1>12, <1>14
<1>15. CASE z.clients[c].pending /\ z.clients[c].id = "failed"
  <2>1. y = Answer(z, c)
    BY <1>12, <1>15
  <2> QED
    BY <1>0, <1>10, <2>1, AnswerProps
<1>16. CASE z.clients[c].pending /\ z.clients[c].id = "known"
  <2>1. y = StartCheck(z, c, fault)
    BY <1>12, <1>16
  <2> QED
    BY <1>10, <1>13, <1>16, <2>1, StartCheckProps
<1> QED
  BY <1>13, <1>14, <1>15, <1>16

\* The result of a permission check.
LEMMA CheckDoneProps ==
  ASSUME NEW st, NEW ap, NEW n \in Nat, NEW x, Good(x, st, ap, n),
         NEW t \in Tasks, t.kind = "check", Sound(x, t, st, ap, n),
         x.clients[t.client].conn = t.conn, NEW fault, NEW y, y = CheckDone(x, t, fault)
  PROVE  Good(y, st, ap, n)
<1>1. PICK c \in Leases : c = t.client
  BY TaskKinds
<1>0. c \in Clients /\ Typed(x) /\ x.clients[c] \in ClientSet /\ x.clients \in [Clients -> ClientSet]
  BY <1>1 DEF Clients, Good, TaskInv, Typed
<1>2. x.clients[c].id = "known" /\ x.clients[c].conn # 0 /\ t.scopes \subseteq Scopes /\ t.allowed \subseteq Scopes
  BY <1>1, TaskKinds DEF Sound, Identity
<1>3. PICK k : k = [x.clients[c] EXCEPT !.task = "none"]
  OBVIOUS
<1>4. k \in ClientSet /\ Same(k, x.clients[c])
  BY <1>0, <1>3 DEF ClientSet, Same
<1>5. MayBe(x, st, c, k)
  BY <1>4, SameMayBe
<1>6. PICK z : z = Put(x, c, k, x.valid)
  OBVIOUS
<1>7. Good(z, st, ap, n) /\ Became(x, z, c, k)
  BY <1>0, <1>5, <1>6, SetClient
<1>8. z = [x EXCEPT !.clients[c].task = "none"]
  BY <1>0, <1>3, <1>6 DEF Put, Typed
<1>9. z.clients[c].id = "known" /\ z.clients[c].conn # 0 /\ z.failed = x.failed /\ z.inflight = x.inflight
  BY <1>2, <1>4, <1>7 DEF Became, Same, RestKept
<1>10. PICK missing : missing = t.scopes \ t.allowed
  OBVIOUS
<1>12. y = CASE ~x.valid[t.conn] -> z
             [] x.valid[t.conn] /\ (t.status # "ok" \/ Cancelled(x, t) \/ fault = "late" \/ x.failed \/ x.inflight)
                  -> Answer(z, c)
             [] OTHER -> IF missing # {} /\ x.clients[c].request
                         THEN StartPrompt(z, c, missing, fault)
                         ELSE Grant(z, c, t.allowed \cap t.scopes, fault)
  BY <1>1, <1>8, <1>10, Zenon DEF CheckDone
<1>13. CASE ~x.valid[t.conn]
  BY <1>7, <1>12, <1>13
<1>14. CASE x.valid[t.conn] /\ (t.status # "ok" \/ Cancelled(x, t) \/ fault = "late" \/ x.failed \/ x.inflight)
  <2>1. y = Answer(z, c)
    BY <1>12, <1>14
  <2> QED
    BY <1>0, <1>7, <2>1, AnswerProps
<1>15. CASE /\ x.valid[t.conn]
            /\ ~(t.status # "ok" \/ Cancelled(x, t) \/ fault = "late" \/ x.failed \/ x.inflight)
  <2>1. y = IF missing # {} /\ x.clients[c].request
            THEN StartPrompt(z, c, missing, fault)
            ELSE Grant(z, c, t.allowed \cap t.scopes, fault)
    BY <1>12, <1>15
  <2>2. CASE missing # {} /\ x.clients[c].request
    <3>1. y = StartPrompt(z, c, missing, fault) /\ missing \in SUBSET Scopes
      BY <1>2, <1>10, <2>1, <2>2
    <3> QED
      BY <1>7, <1>9, <3>1, StartPromptProps
  <2>3. CASE ~(missing # {} /\ x.clients[c].request)
    <3>1. PICK scopes : scopes = t.allowed \cap t.scopes
      OBVIOUS
    <3>2. y = Grant(z, c, scopes, fault)
      BY <2>1, <2>3, <3>1
    <3>3. "permission" \in t.fresh /\ ~x.failed /\ ~x.inflight
      BY <1>15 DEF Cancelled
    <3>4. st.notify \/ scopes \subseteq st.allowed[App[c]]
      BY <1>1, <3>1, <3>3 DEF Sound, Promise
    <3>5. scopes \subseteq Scopes
      BY <1>2, <3>1
    <3> QED
      BY <1>7, <1>9, <3>2, <3>3, <3>4, <3>5, GrantProps
  <2> QED
    BY <2>2, <2>3
<1> QED
  BY <1>13, <1>14, <1>15

\* process_client_prompt_done
LEMMA PromptDoneProps ==
  ASSUME NEW st, NEW ap, NEW n \in Nat, NEW x, Good(x, st, ap, n),
         NEW t \in Tasks, t.kind = "prompt", Sound(x, t, st, ap, n),
         x.clients[t.client].conn = t.conn, NEW fault, NEW y, y = PromptDone(x, t, fault)
  PROVE  Good(y, st, ap, n)
<1>1. PICK c \in Leases : c = t.client
  BY TaskKinds
<1>0. c \in Clients /\ Typed(x) /\ x.clients[c] \in ClientSet /\ x.clients \in [Clients -> ClientSet]
  BY <1>1 DEF Clients, Good, TaskInv, Typed
<1>2. x.clients[c].id = "known" /\ x.clients[c].conn # 0 /\ t.allowed \subseteq Scopes
  BY <1>1, TaskKinds DEF Sound, Identity
<1>3. PICK k : k = [x.clients[c] EXCEPT !.prompt = FALSE]
  OBVIOUS
<1>4. k \in ClientSet /\ Same(k, x.clients[c])
  BY <1>0, <1>3 DEF ClientSet, Same
<1>5. MayBe(x, st, c, k)
  BY <1>4, SameMayBe
<1>6. PICK z : z = Put(x, c, k, x.valid)
  OBVIOUS
<1>7. Good(z, st, ap, n) /\ Became(x, z, c, k)
  BY <1>0, <1>5, <1>6, SetClient
<1>8. z = [x EXCEPT !.clients[c].prompt = FALSE]
  BY <1>0, <1>3, <1>6 DEF Put, Typed
<1>9. z.clients[c].id = "known" /\ z.clients[c].conn # 0 /\ z.failed = x.failed /\ z.inflight = x.inflight
  BY <1>2, <1>4, <1>7 DEF Became, Same, RestKept
<1>10. PICK scopes : scopes = t.allowed \cap x.clients[c].scopes
  OBVIOUS
<1>11. y = Answer(z, c) \/ (y = Grant(z, c, scopes, fault) /\ "permission" \in t.fresh /\ ~x.failed /\ ~x.inflight)
  BY <1>1, <1>8, <1>10 DEF PromptDone
<1>12. CASE y = Answer(z, c)
  BY <1>0, <1>7, <1>12, AnswerProps
<1>13. CASE y = Grant(z, c, scopes, fault) /\ "permission" \in t.fresh /\ ~x.failed /\ ~x.inflight
  <2>1. st.notify \/ scopes \subseteq st.allowed[App[c]]
    BY <1>1, <1>10, <1>13 DEF Sound, Promise
  <2>2. scopes \subseteq Scopes
    BY <1>2, <1>10
  <2> QED
    BY <1>7, <1>9, <1>13, <2>1, <2>2, GrantProps
<1> QED
  BY <1>11, <1>12, <1>13

-----------------------------------------------------------------------------
(* Handlers of the main thread: revocation and failing open                *)

SetRest(x, cl, r, v, i, f) ==
  [x EXCEPT !.clients = cl, !.refs = r, !.valid = v, !.inflight = i, !.failed = f]

\* Clients go or stay who they are.
LEMMA SetRestProps ==
  ASSUME NEW st, NEW ap, NEW n \in Nat, NEW x, TaskInv(x, st, ap, n),
         NEW cl \in [Clients -> ClientSet],
         \A c \in Clients : \/ cl[c].conn = 0
                            \/ cl[c].conn = x.clients[c].conn /\ cl[c].id = x.clients[c].id,
         NEW r, NEW v, NEW i \in BOOLEAN, NEW f \in BOOLEAN,
         NEW y, y = SetRest(x, cl, r, v, i, f)
  PROVE  /\ TaskInv(y, st, ap, n) /\ y.clients = cl /\ y.inflight = i /\ y.failed = f
         /\ y.pools = x.pools /\ InFlight(y) = InFlight(x) /\ y.valid = v
         /\ y.owner = x.owner /\ y.phase = x.phase
<1>1. Typed(x)
  BY DEF TaskInv
<1>2. /\ Typed(y) /\ y.clients = cl /\ y.inflight = i /\ y.failed = f /\ y.pools = x.pools
      /\ y.running = x.running /\ y.ring = x.ring /\ y.valid = v /\ y.owner = x.owner /\ y.phase = x.phase
  BY <1>1 DEF Typed, SetRest
<1>3. \A c \in Clients : y.clients[c].conn <= n /\ Stays(x, y, n, c)
  BY <1>2 DEF TaskInv, Stays
<1>4. TaskInv(y, st, ap, n)
  <2>1. n <= n
    OBVIOUS
  <2> QED
    BY <1>2, <1>3, <2>1, Transfer
<1> QED
  BY <1>2, <1>4, SameTasks

\* Clients stay who they are, and hold no more than they did.
Shrunk(x, y) ==
  \A c \in Clients :
    /\ y.clients[c].conn = x.clients[c].conn /\ y.clients[c].id = x.clients[c].id
    /\ y.clients[c].granted \subseteq x.clients[c].granted
    /\ y.clients[c].paused = x.clients[c].paused
Bare(x) == \A c \in Leases : x.clients[c].granted = {}
Stale(x, g) == \A t \in InFlight(x) : g \notin t.fresh
StaleKept(x, y) == \A g : Stale(x, g) => Stale(y, g)
Cleared(x, y, revoked) ==
  \A c \in Leases : x.clients[c].id = "known" => y.clients[c].granted \cap revoked[App[c]] = {}

\* Less may be held whenever more may.
LEMMA ShrunkGrants ==
  ASSUME NEW x, NEW y, Shrunk(x, y), y.failed = x.failed, y.inflight = x.inflight
  PROVE  /\ Granted(x) => Granted(y)
         /\ \A st : Current(x, st) => Current(y, st)
<1>1. Leases \subseteq Clients
  BY DEF Clients
<1>2. \A c \in Leases : Warranted(x, x.clients[c]) => Warranted(y, y.clients[c])
  BY <1>1 DEF Shrunk, Warranted
<1>3. \A st : \A c \in Leases : Covered(x, st, c, x.clients[c]) => Covered(y, st, c, y.clients[c])
  BY <1>1 DEF Shrunk, Covered
<1> QED
  BY <1>2, <1>3 DEF Granted, Current

\* Where nobody holds anything, nothing is held wrongly.
LEMMA BareGrants ==
  ASSUME NEW x, Bare(x)
  PROVE  Granted(x) /\ \A st : Current(x, st)
  BY DEF Bare, Granted, Current, Warranted, Covered

\* invalidate_connected_permissions: what is revoked is not held by anybody who
\* was identified.
LEMMA InvalidateProps ==
  ASSUME NEW st, NEW ap, NEW n \in Nat, NEW x, TaskInv(x, st, ap, n),
         NEW revoked, NEW fault, NEW y, y = InvalidatePermissions(x, revoked, fault)
  PROVE  /\ TaskInv(y, st, ap, n) /\ RestKept(x, y) /\ Shrunk(x, y) /\ Stale(y, "permission")
         /\ StaleKept(x, y) /\ Cleared(x, y, revoked)
<1>1. PICK z : z = Advance(x, "permission")
  OBVIOUS
<1>2. /\ TaskInv(z, st, ap, n) /\ ClientsKept(x, z) /\ RestKept(x, z) /\ Stale(z, "permission")
      /\ \A g : Stale(x, g) => Stale(z, g)
  BY <1>1, AdvanceProps DEF Stale
<1>3. Typed(z) /\ z.clients = x.clients /\ x.clients \in [Clients -> ClientSet]
  BY <1>2 DEF TaskInv, Typed, ClientsKept
<1>4. PICK hit : hit = {c \in Known(x) : x.clients[c].granted \cap revoked[App[c]] # {}}
  OBVIOUS
<1>5. PICK cl : cl = [c \in Clients |-> IF c \in hit THEN [x.clients[c] EXCEPT !.granted = @ \ revoked[App[c]]]
                                       ELSE x.clients[c]]
  OBVIOUS
<1>6. ASSUME NEW c \in Clients
      PROVE  /\ cl[c] \in ClientSet /\ cl[c].conn = x.clients[c].conn /\ cl[c].id = x.clients[c].id
             /\ cl[c].paused = x.clients[c].paused
             /\ cl[c].granted = IF c \in hit THEN x.clients[c].granted \ revoked[App[c]]
                                ELSE x.clients[c].granted
  <2>1. x.clients[c] \in ClientSet
    BY <1>3
  <2>2. cl[c] = IF c \in hit THEN [x.clients[c] EXCEPT !.granted = @ \ revoked[App[c]]] ELSE x.clients[c]
    BY <1>5
  <2> QED
    BY <2>1, <2>2 DEF ClientSet
<1>7. cl \in [Clients -> ClientSet]
  BY <1>5, <1>6
<1>8. PICK v : v = [k \in Connections |-> z.valid[k] /\ ~(fault /\ \E c \in hit : x.clients[c].conn = k)]
  OBVIOUS
<1>9. y = SetRest(z, cl, z.refs, v, z.inflight, z.failed)
  <2>1. y = [z EXCEPT !.clients = cl, !.valid = v]
    BY <1>1, <1>4, <1>5, <1>8, Zenon DEF InvalidatePermissions
  <2> QED
    BY <1>3, <2>1 DEF SetRest, Typed
<1>10. z.inflight \in BOOLEAN /\ z.failed \in BOOLEAN
  BY <1>3 DEF Typed
<1>11. \A c \in Clients : \/ cl[c].conn = 0
                          \/ cl[c].conn = z.clients[c].conn /\ cl[c].id = z.clients[c].id
  BY <1>3, <1>6
<1>12. /\ TaskInv(y, st, ap, n) /\ y.clients = cl /\ y.inflight = z.inflight /\ y.failed = z.failed
       /\ InFlight(y) = InFlight(z) /\ y.owner = z.owner /\ y.phase = z.phase
  BY <1>2, <1>7, <1>9, <1>10, <1>11, SetRestProps
<1>13. RestKept(x, y) /\ Shrunk(x, y)
  BY <1>2, <1>6, <1>12 DEF RestKept, Shrunk
<1>14. Stale(y, "permission") /\ \A g : Stale(x, g) => Stale(y, g)
  BY <1>2, <1>12 DEF Stale
<1>15. ASSUME NEW c \in Leases, x.clients[c].id = "known"
       PROVE  y.clients[c].granted \cap revoked[App[c]] = {}
  <2>1. c \in Clients /\ c \in Known(x)
    BY <1>15 DEF Clients, Known
  <2> QED
    BY <1>4, <1>6, <1>12, <2>1
<1> QED
  BY <1>12, <1>13, <1>14, <1>15 DEF StaleKept, Cleared

\* permission_monitor_fail_open: nobody holds anything afterwards.
LEMMA FailOpenProps ==
  ASSUME NEW st, NEW ap, NEW n \in Nat, NEW x, TaskInv(x, st, ap, n), Granted(x),
         NEW y, y = FailOpen(x)
  PROVE  /\ TaskInv(y, st, ap, n) /\ Bare(y) /\ y.phase = x.phase
         /\ ~x.failed => Stale(y, "permission")
<1>1. CASE x.failed
  <2>1. y = x
    BY <1>1 DEF FailOpen
  <2> QED
    BY <1>1, <2>1 DEF Granted, Warranted, Bare
<1>2. CASE ~x.failed
  <2>1. PICK i : i = InvalidatePermissions(x, [a \in Apps |-> Scopes], FALSE)
    OBVIOUS
  <2>2. PICK revoked : revoked = [a \in Apps |-> Scopes]
    OBVIOUS
  <2>3. /\ TaskInv(i, st, ap, n) /\ RestKept(x, i) /\ Shrunk(x, i) /\ Stale(i, "permission")
        /\ Cleared(x, i, revoked)
    <3>1. PICK no \in BOOLEAN : no = FALSE
      OBVIOUS
    <3>2. i = InvalidatePermissions(x, revoked, no)
      BY <2>1, <2>2, <3>1
    <3> QED
      BY <3>2, InvalidateProps
  <2>4. Bare(i)
    <3> SUFFICES ASSUME NEW c \in Leases
                 PROVE  i.clients[c].granted = {}
      BY DEF Bare
    <3>1. c \in Clients /\ i.clients[c] \in ClientSet
      BY <2>3 DEF Clients, TaskInv, Typed
    <3>2. i.clients[c].granted \subseteq Scopes
      BY <3>1 DEF ClientSet
    <3>3. revoked[App[c]] = Scopes
      BY <2>2, ClientAssumption
    <3>4. CASE x.clients[c].id = "known"
      BY <2>3, <3>2, <3>3, <3>4 DEF Cleared
    <3>5. CASE x.clients[c].id # "known"
      BY <2>3, <3>1, <3>5 DEF Granted, Warranted, Shrunk
    <3> QED
      BY <3>4, <3>5
  <2>5. PICK z : z = Advance(i, "input")
    OBVIOUS
  <2>6. TaskInv(z, st, ap, n) /\ ClientsKept(i, z) /\ RestKept(i, z) /\ Stale(z, "permission")
    BY <2>3, <2>5, AdvanceProps DEF Stale
  <2>7. Typed(z)
    BY <2>6 DEF TaskInv
  <2>8. y = SetRest(z, z.clients, z.refs, z.valid, z.inflight, TRUE)
    <3>1. y = [z EXCEPT !.failed = TRUE]
      BY <1>2, <2>1, <2>5 DEF FailOpen
    <3> QED
      BY <2>7, <3>1 DEF SetRest, Typed
  <2>9. z.clients \in [Clients -> ClientSet] /\ z.inflight \in BOOLEAN
    BY <2>7 DEF Typed
  <2>10. TaskInv(y, st, ap, n) /\ y.clients = z.clients /\ InFlight(y) = InFlight(z) /\ y.phase = z.phase
    <3>1. PICK yes \in BOOLEAN : yes = TRUE
      OBVIOUS
    <3>2. y = SetRest(z, z.clients, z.refs, z.valid, z.inflight, yes)
      BY <2>8, <3>1
    <3> QED
      BY <2>6, <2>9, <3>2, SetRestProps
  <2> QED
    BY <2>3, <2>4, <2>6, <2>10 DEF Bare, Stale, ClientsKept, RestKept
<1> QED
  BY <1>1, <1>2

\* A refresh has read nothing yet.
LEMMA RefreshTaskProps ==
  ASSUME NEW x, NEW t, t = RefreshTask(x)
  PROVE  /\ t \in Tasks /\ t.kind = "refresh" /\ ~Begun(t)
         /\ \A st, ap : Promise(t, st, ap)
<1>1. PICK todo : todo = {App[c] : c \in Known(x)}
  OBVIOUS
<1>2. todo \in SUBSET Apps
  BY <1>1, ClientAssumption DEF Known
<1>3. PICK none : none = [a \in Apps |-> {}]
  OBVIOUS
<1>4. none \in [Apps -> SUBSET Scopes] /\ \A a \in Apps : none[a] = {}
  BY <1>3
<1>5. t = [kind |-> "refresh", fresh |-> {"permission"}, stage |-> "start", status |-> "ok",
           todo |-> todo, snapshots |-> none]
  BY <1>1, <1>3, Zenon DEF RefreshTask
<1>6. t \in RefreshTasks
  BY <1>2, <1>4, <1>5 DEF RefreshTasks, Generations, Stages, Statuses
<1>7. t.kind = "refresh" /\ t.stage = "start" /\ t.snapshots = none
  BY <1>5
<1>8. ~Begun(t) /\ \A st, ap : Promise(t, st, ap)
  BY <1>4, <1>7 DEF Begun, Promise
<1> QED
  BY <1>6, <1>7, <1>8 DEF Tasks

\* refresh_external_permissions: whoever holds something is paused, or nobody
\* does.
LEMMA RefreshProps ==
  ASSUME NEW st, NEW ap, NEW n \in Nat, NEW x, TaskInv(x, st, ap, n), Granted(x),
         NEW fault, NEW y, y = Refresh(x, fault)
  PROVE  Good(y, st, ap, n)
<1>1. CASE x.inflight
  <2>1. y = x
    BY <1>1 DEF Refresh
  <2> QED
    BY <1>1, <2>1 DEF Good, Current, Covered
<1>2. CASE ~x.inflight
  <2>0. Typed(x) /\ x.clients \in [Clients -> ClientSet] /\ x.failed \in BOOLEAN /\ Leases \subseteq Clients
    BY DEF TaskInv, Typed, Clients
  <2>1. PICK t : t = RefreshTask(x)
    OBVIOUS
  <2>2. PICK cl : cl = [c \in Clients |-> [x.clients[c] EXCEPT !.paused = c \in Leases /\ Connected(x, c)]]
    OBVIOUS
  <2>3. ASSUME NEW c \in Clients
        PROVE  /\ cl[c] \in ClientSet /\ cl[c].conn = x.clients[c].conn /\ cl[c].id = x.clients[c].id
               /\ cl[c].granted = x.clients[c].granted
               /\ c \in Leases /\ x.clients[c].conn # 0 => cl[c].paused
    <3>1. cl[c] = [x.clients[c] EXCEPT !.paused = c \in Leases /\ Connected(x, c)] /\ x.clients[c] \in ClientSet
      BY <2>0, <2>2
    <3>2. PICK b \in BOOLEAN : b <=> (c \in Leases /\ x.clients[c].conn # 0)
      OBVIOUS
    <3>3. cl[c] = [x.clients[c] EXCEPT !.paused = b]
      BY <3>1, <3>2 DEF Connected
    <3> QED
      BY <3>1, <3>2, <3>3 DEF ClientSet
  <2>4. cl \in [Clients -> ClientSet]
    BY <2>2, <2>3
  <2>5. PICK p : p = SetRest(x, cl, x.refs, x.valid, x.inflight, x.failed)
    OBVIOUS
  <2>6. p = [x EXCEPT !.clients = cl]
    BY <2>0, <2>5 DEF SetRest, Typed
  <2>7. /\ TaskInv(p, st, ap, n) /\ p.clients = cl /\ p.inflight = x.inflight /\ p.failed = x.failed
        /\ p.pools = x.pools
    <3>1. \A c \in Clients : \/ cl[c].conn = 0
                             \/ cl[c].conn = x.clients[c].conn /\ cl[c].id = x.clients[c].id
      BY <2>3
    <3>2. x.inflight \in BOOLEAN /\ x.failed \in BOOLEAN
      BY <2>0 DEF Typed
    <3>3. PICK i \in BOOLEAN, f \in BOOLEAN : i = x.inflight /\ f = x.failed
      BY <3>2
    <3>4. p = SetRest(x, cl, x.refs, x.valid, i, f)
      BY <2>5, <3>3
    <3>5. /\ TaskInv(p, st, ap, n) /\ p.clients = cl /\ p.inflight = i /\ p.failed = f
          /\ p.pools = x.pools
      BY <2>4, <3>1, <3>4, SetRestProps
    <3> QED
      BY <3>3, <3>5
  <2>8. Granted(p)
    BY <1>2, <2>0, <2>3, <2>7 DEF Granted, Warranted
  <2>9. CASE ~Accepts(x, t, fault = "submit")
    <3>1. y = FailOpen(p)
      BY <1>2, <2>1, <2>2, <2>6, <2>9 DEF Refresh
    <3>2. TaskInv(y, st, ap, n) /\ Bare(y)
      BY <2>7, <2>8, <3>1, FailOpenProps
    <3> QED
      BY <3>2, BareGrants DEF Good
  <2>10. CASE Accepts(x, t, fault = "submit")
    <3>1. PICK f : f = Advance(p, "input")
      OBVIOUS
    <3>2. t \in Tasks /\ t.kind = "refresh" /\ ~Begun(t) /\ Promise(t, st, ap)
      BY <2>1, RefreshTaskProps
    <3>3. PoolOf(t) \in Pools
      BY <3>2, PoolOfProps
    <3>4. TaskInv(f, st, ap, n) /\ ClientsKept(p, f) /\ RestKept(p, f) /\ CanSubmit(f.pools[PoolOf(t)])
      <4>1. CanSubmit(p.pools[PoolOf(t)])
        BY <2>7, <2>10 DEF Accepts
      <4> QED
        BY <2>7, <3>1, <3>3, <4>1, AdvanceProps
    <3>5. PICK e : e = Enqueue(f, t)
      OBVIOUS
    <3>6. Sound(f, t, st, ap, n) /\ Apart(InFlight(f), {t})
      BY <3>2 DEF Sound, Identity, Apart, Alike
    <3>7. TaskInv(e, st, ap, n) /\ ClientsKept(f, e) /\ RestKept(f, e)
      BY <3>2, <3>4, <3>5, <3>6, EnqueueProps
    <3>8. Typed(e) /\ e.clients \in [Clients -> ClientSet] /\ e.failed \in BOOLEAN
      BY <3>7 DEF TaskInv, Typed
    <3>9. PICK yes \in BOOLEAN : yes = TRUE
      OBVIOUS
    <3>10. PICK b : b = SetRest(e, e.clients, e.refs, e.valid, yes, e.failed)
      OBVIOUS
    <3>11. b = [e EXCEPT !.inflight = TRUE]
      BY <3>8, <3>9, <3>10 DEF SetRest, Typed
    <3>12. TaskInv(b, st, ap, n) /\ b.clients = e.clients /\ b.inflight = yes /\ b.failed = e.failed
      BY <3>7, <3>8, <3>10, SetRestProps
    <3>13. Granted(b)
      <4>1. b.clients = cl /\ b.failed = x.failed
        BY <2>7, <3>4, <3>7, <3>12 DEF ClientsKept, RestKept
      <4> QED
        BY <2>0, <2>3, <4>1 DEF Granted, Warranted
    <3>14. CASE fault = "fence"
      <4>1. y = FailOpen(b)
        BY <1>2, <2>1, <2>2, <2>6, <2>10, <3>1, <3>5, <3>11, <3>14 DEF Refresh, Fence
      <4>2. TaskInv(y, st, ap, n) /\ Bare(y)
        BY <3>12, <3>13, <4>1, FailOpenProps
      <4> QED
        BY <4>2, BareGrants DEF Good
    <3>15. CASE fault # "fence"
      <4>1. y = b
        BY <1>2, <2>1, <2>2, <2>6, <2>10, <3>1, <3>5, <3>11, <3>15 DEF Refresh, Fence
      <4>2. Current(b, st)
        BY <3>9, <3>12 DEF Current, Covered
      <4> QED
        BY <3>12, <3>13, <4>1, <4>2 DEF Good
    <3> QED
      BY <3>14, <3>15
  <2> QED
    BY <2>9, <2>10
<1> QED
  BY <1>1, <1>2

\* A client's task is over.
LEMMA TaskOver ==
  ASSUME NEW st, NEW ap, NEW n \in Nat, NEW x, Good(x, st, ap, n), NEW c \in Clients,
         NEW y, y = [x EXCEPT !.clients[c].task = "none"]
  PROVE  Good(y, st, ap, n)
<1>1. Typed(x) /\ x.clients[c] \in ClientSet /\ x.clients \in [Clients -> ClientSet]
  BY DEF Good, TaskInv, Typed
<1>2. PICK k : k = [x.clients[c] EXCEPT !.task = "none"]
  OBVIOUS
<1>3. k \in ClientSet /\ Same(k, x.clients[c])
  BY <1>1, <1>2 DEF ClientSet, Same
<1>4. MayBe(x, st, c, k)
  BY <1>3, SameMayBe
<1>5. y = Put(x, c, k, x.valid)
  BY <1>1, <1>2 DEF Put, Typed
<1> QED
  BY <1>4, <1>5, SetClient

\* The result of a revocation.
LEMMA RevokeDoneProps ==
  ASSUME NEW st, NEW ap, NEW n \in Nat, NEW x, Good(x, st, ap, n),
         NEW t \in Tasks, t.kind = "revoke", NEW fault, NEW y, y = RevokeDone(x, t, fault)
  PROVE  Good(y, st, ap, n)
<1>1. PICK c \in Clients : c = t.client
  BY TaskKinds
<1>2. PICK f : f = Advance(x, "input")
  OBVIOUS
<1>3. Good(f, st, ap, n)
  BY <1>2, AdvanceProps, GoodKept DEF Good
<1>4. PICK g : g = IF fault = "fence" THEN FailOpen(f) ELSE f
  OBVIOUS
<1>5. Good(g, st, ap, n)
  <2>1. CASE fault = "fence"
    <3>1. TaskInv(g, st, ap, n) /\ Bare(g)
      BY <1>3, <1>4, <2>1, FailOpenProps DEF Good
    <3> QED
      BY <3>1, BareGrants DEF Good
  <2> QED
    BY <1>3, <1>4, <2>1
<1>6. PICK revoked : revoked = [a \in Apps |-> IF a \in t.apps THEN t.scopes ELSE {}]
  OBVIOUS
<1>7. PICK send \in BOOLEAN : send = (fault = "send")
  OBVIOUS
<1>8. PICK z : z = IF t.status = "ok" THEN InvalidatePermissions(g, revoked, send) ELSE x
  OBVIOUS
<1>9. Good(z, st, ap, n)
  <2>1. CASE t.status = "ok"
    <3>1. z = InvalidatePermissions(g, revoked, send)
      BY <1>8, <2>1
    <3>2. TaskInv(z, st, ap, n) /\ RestKept(g, z) /\ Shrunk(g, z)
      BY <1>5, <3>1, InvalidateProps DEF Good
    <3> QED
      BY <1>5, <3>2, ShrunkGrants DEF Good, RestKept
  <2> QED
    BY <1>8, <2>1
<1>10. y = IF x.clients[c].conn = t.conn THEN [z EXCEPT !.clients[c].task = "none"] ELSE z
  BY <1>1, <1>2, <1>4, <1>6, <1>7, <1>8 DEF RevokeDone, Fence
<1> QED
  BY <1>9, <1>10, TaskOver

Flagged(x, r, v, i, f) == SetRest(x, x.clients, r, v, i, f)
FlagsAre(x, y, i, f) ==
  /\ y.inflight = i /\ y.failed = f /\ InFlight(y) = InFlight(x) /\ y.pools = x.pools
  /\ y.owner = x.owner /\ y.phase = x.phase

\* Only the flags and the references change.
LEMMA SetFlags ==
  ASSUME NEW st, NEW ap, NEW n \in Nat, NEW x, TaskInv(x, st, ap, n), NEW r, NEW v,
         NEW i \in BOOLEAN, NEW f \in BOOLEAN, NEW y, y = Flagged(x, r, v, i, f)
  PROVE  TaskInv(y, st, ap, n) /\ ClientsKept(x, y) /\ FlagsAre(x, y, i, f)
<1>1. x.clients \in [Clients -> ClientSet]
  BY DEF TaskInv, Typed
<1>3. PICK cl \in [Clients -> ClientSet] : cl = x.clients
  BY <1>1
<1>2. /\ y = SetRest(x, cl, r, v, i, f)
      /\ \A c \in Clients : \/ cl[c].conn = 0
                            \/ cl[c].conn = x.clients[c].conn /\ cl[c].id = x.clients[c].id
  BY <1>3 DEF Flagged
<1>4. /\ TaskInv(y, st, ap, n) /\ y.clients = cl /\ y.inflight = i /\ y.failed = f
      /\ InFlight(y) = InFlight(x) /\ y.pools = x.pools /\ y.owner = x.owner /\ y.phase = x.phase
  BY <1>2, SetRestProps
<1> QED
  BY <1>3, <1>4 DEF ClientsKept, FlagsAre

\* The snapshots of a refresh that no notification overtook are applied: nobody
\* holds what they lack.
LEMMA ApplyProps ==
  ASSUME NEW st, NEW ap, NEW n \in Nat, NEW x, TaskInv(x, st, ap, n), Granted(x), ~x.inflight,
         NEW t \in Tasks, t.kind = "refresh",
         st.notify \/ \A a \in Apps : t.snapshots[a] \subseteq st.allowed[a],
         NEW fault, NEW y, y = ApplySnapshots(x, t, fault)
  PROVE  Good(y, st, ap, n)
<1>0. Leases \subseteq Clients
  BY DEF Clients
<1>1. PICK revoked : revoked = [a \in Apps |-> UNION {x.clients[c].granted \ t.snapshots[a] :
                                                       c \in {k \in Known(x) : App[k] = a}}]
  OBVIOUS
<1>2. ASSUME NEW c \in Leases, x.clients[c].id = "known"
      PROVE  x.clients[c].granted \ t.snapshots[App[c]] \subseteq revoked[App[c]]
  <2>1. App[c] \in Apps /\ c \in Known(x)
    BY <1>2, ClientAssumption DEF Known
  <2>2. revoked[App[c]] = UNION {x.clients[b].granted \ t.snapshots[App[c]] :
                                  b \in {k \in Known(x) : App[k] = App[c]}}
    BY <1>1, <2>1
  <2> QED
    BY <2>1, <2>2
<1>3. PICK send \in BOOLEAN : send = (fault = "send")
  OBVIOUS
<1>4. PICK z : z = IF \A a \in Apps : revoked[a] = {} THEN x ELSE InvalidatePermissions(x, revoked, send)
  OBVIOUS
<1>5. /\ TaskInv(z, st, ap, n) /\ RestKept(x, z) /\ Shrunk(x, z)
      /\ \A c \in Leases : z.clients[c].granted \subseteq t.snapshots[App[c]]
  <2>1. CASE \A a \in Apps : revoked[a] = {}
    <3>1. z = x
      BY <1>4, <2>1
    <3>2. ASSUME NEW c \in Leases
          PROVE  x.clients[c].granted \subseteq t.snapshots[App[c]]
      <4>1. CASE x.clients[c].id = "known"
        <5>1. revoked[App[c]] = {}
          BY <2>1, ClientAssumption
        <5> QED
          BY <1>2, <4>1, <5>1
      <4>2. CASE x.clients[c].id # "known"
        BY <4>2 DEF Granted, Warranted
      <4> QED
        BY <4>1, <4>2
    <3> QED
      BY <3>1, <3>2 DEF RestKept, Shrunk
  <2>2. CASE ~\A a \in Apps : revoked[a] = {}
    <3>1. z = InvalidatePermissions(x, revoked, send)
      BY <1>4, <2>2
    <3>2. TaskInv(z, st, ap, n) /\ RestKept(x, z) /\ Shrunk(x, z) /\ Cleared(x, z, revoked)
      BY <3>1, InvalidateProps
    <3>3. ASSUME NEW c \in Leases
          PROVE  z.clients[c].granted \subseteq t.snapshots[App[c]]
      <4>1. z.clients[c].granted \subseteq x.clients[c].granted
        BY <1>0, <3>2 DEF Shrunk
      <4>2. CASE x.clients[c].id = "known"
        BY <1>2, <3>2, <4>1, <4>2 DEF Cleared
      <4>3. CASE x.clients[c].id # "known"
        BY <4>1, <4>3 DEF Granted, Warranted
      <4> QED
        BY <4>2, <4>3
    <3> QED
      BY <3>2, <3>3
  <2> QED
    BY <2>1, <2>2
<1>6. Granted(z) /\ ~z.inflight
  BY <1>5, ShrunkGrants DEF RestKept
<1>7. Typed(z) /\ z.clients \in [Clients -> ClientSet]
  BY <1>5 DEF TaskInv, Typed
<1>8. PICK i \in BOOLEAN, f \in BOOLEAN : i = z.inflight /\ f = z.failed
  BY <1>7 DEF Typed
<1>9. PICK cl : cl = [c \in Clients |-> [z.clients[c] EXCEPT !.paused = FALSE]]
  OBVIOUS
<1>10. ASSUME NEW c \in Clients
       PROVE  /\ cl[c] \in ClientSet /\ cl[c].conn = z.clients[c].conn /\ cl[c].id = z.clients[c].id
              /\ cl[c].granted = z.clients[c].granted
  <2>1. cl[c] = [z.clients[c] EXCEPT !.paused = FALSE] /\ z.clients[c] \in ClientSet
    BY <1>7, <1>9
  <2> QED
    BY <2>1 DEF ClientSet
<1>11. /\ cl \in [Clients -> ClientSet]
       /\ \A c \in Clients : \/ cl[c].conn = 0
                             \/ cl[c].conn = z.clients[c].conn /\ cl[c].id = z.clients[c].id
  BY <1>9, <1>10
<1>12. PICK u : u = SetRest(z, cl, z.refs, z.valid, i, f)
  OBVIOUS
<1>13. u = [z EXCEPT !.clients = cl]
  BY <1>7, <1>8, <1>12 DEF SetRest, Typed
<1>14. TaskInv(u, st, ap, n) /\ u.clients = cl /\ u.inflight = i /\ u.failed = f
  BY <1>5, <1>11, <1>12, SetRestProps
<1>15. Granted(u)
  BY <1>0, <1>6, <1>8, <1>10, <1>14 DEF Granted, Warranted
<1>16. Current(u, st)
  <2> SUFFICES ASSUME NEW c \in Leases
               PROVE  Covered(u, st, c, u.clients[c])
    BY DEF Current
  <2>1. u.clients[c].granted \subseteq t.snapshots[App[c]]
    BY <1>0, <1>5, <1>10, <1>14
  <2>2. App[c] \in Apps
    BY ClientAssumption
  <2> QED
    BY <2>1, <2>2 DEF Covered
<1>17. y = IF fault = "fence" THEN FailOpen(u) ELSE u
  BY <1>1, <1>3, <1>4, <1>9, <1>13 DEF ApplySnapshots
<1>18. CASE fault = "fence"
  <2>1. TaskInv(y, st, ap, n) /\ Bare(y)
    BY <1>14, <1>15, <1>17, <1>18, FailOpenProps
  <2> QED
    BY <2>1, BareGrants DEF Good
<1> QED
  BY <1>14, <1>15, <1>16, <1>17, <1>18 DEF Good

\* The result of a refresh.
LEMMA RefreshDoneProps ==
  ASSUME NEW st, NEW ap, NEW n \in Nat, NEW x, Good(x, st, ap, n),
         NEW t \in Tasks, t.kind = "refresh", Sound(x, t, st, ap, n),
         NEW fault, NEW y, y = RefreshDone(x, t, fault)
  PROVE  Good(y, st, ap, n)
<1>1. Typed(x) /\ TaskInv(x, st, ap, n) /\ Granted(x)
  BY DEF Good, TaskInv
<1>2. PICK i \in BOOLEAN, f \in BOOLEAN : i = FALSE /\ f = x.failed
  BY <1>1 DEF Typed
<1>3. PICK z : z = Flagged(x, x.refs, x.valid, i, f)
  OBVIOUS
<1>4. z = [x EXCEPT !.inflight = FALSE]
  BY <1>1, <1>2, <1>3 DEF Flagged, SetRest, Typed
<1>5. TaskInv(z, st, ap, n) /\ ClientsKept(x, z) /\ z.inflight = i /\ z.failed = f
  <2>1. TaskInv(z, st, ap, n) /\ ClientsKept(x, z) /\ FlagsAre(x, z, i, f)
    BY <1>1, <1>3, SetFlags
  <2> QED
    BY <2>1 DEF FlagsAre
<1>6. Granted(z) /\ ~z.inflight
  BY <1>1, <1>2, <1>5 DEF Granted, Warranted, ClientsKept
<1>7. y = CASE x.failed -> z
            [] ~x.failed /\ "permission" \notin t.fresh -> Refresh(z, fault)
            [] ~x.failed /\ "permission" \in t.fresh /\ t.status # "ok" -> FailOpen(z)
            [] OTHER -> ApplySnapshots(z, t, fault)
  BY <1>4, Zenon DEF RefreshDone
<1>8. CASE x.failed
  <2>1. y = z
    BY <1>7, <1>8
  <2>2. Bare(z)
    BY <1>1, <1>5, <1>8 DEF Bare, Granted, Warranted, ClientsKept
  <2> QED
    BY <1>5, <2>1, <2>2, BareGrants DEF Good
<1>9. CASE ~x.failed /\ "permission" \notin t.fresh
  <2>1. y = Refresh(z, fault)
    BY <1>7, <1>9
  <2> QED
    BY <1>5, <1>6, <2>1, RefreshProps
<1>10. CASE ~x.failed /\ "permission" \in t.fresh /\ t.status # "ok"
  <2>1. y = FailOpen(z)
    BY <1>7, <1>10
  <2>2. TaskInv(y, st, ap, n) /\ Bare(y)
    BY <1>5, <1>6, <2>1, FailOpenProps
  <2> QED
    BY <2>2, BareGrants DEF Good
<1>11. CASE ~x.failed /\ "permission" \in t.fresh /\ t.status = "ok"
  <2>1. y = ApplySnapshots(z, t, fault)
    BY <1>7, <1>11
  <2>2. st.notify \/ \A a \in Apps : t.snapshots[a] \subseteq st.allowed[a]
    BY <1>11 DEF Sound, Promise
  <2> QED
    BY <1>5, <1>6, <2>1, <2>2, ApplyProps
<1> QED
  BY <1>8, <1>9, <1>10, <1>11

\* process_permission_done and the two others
LEMMA CompleteProps ==
  ASSUME NEW st, NEW ap, NEW n \in Nat, NEW x, Good(x, st, ap, n),
         NEW t \in Tasks, Sound(x, t, st, ap, n), Apart(InFlight(x), {t}),
         t.kind = "identify" => t.status \in {"known", "failed"},
         NEW fault, NEW y, y = Complete(x, t, fault)
  PROVE  Good(y, st, ap, n)
<1>1. CASE t.kind = "refresh"
  <2>1. y = RefreshDone(x, t, fault)
    BY <1>1 DEF Complete
  <2> QED
    BY <1>1, <2>1, RefreshDoneProps
<1>2. CASE t.kind = "revoke"
  <2>1. y = RevokeDone(x, t, fault)
    BY <1>2 DEF Complete
  <2> QED
    BY <1>2, <2>1, RevokeDoneProps
<1>3. CASE t.kind \in {"identify", "check", "prompt"} /\ x.clients[t.client].conn # t.conn
  BY <1>3 DEF Complete
<1>4. CASE t.kind = "identify" /\ x.clients[t.client].conn = t.conn
  <2>1. y = IdentifyDone(x, t, fault)
    BY <1>4 DEF Complete
  <2> QED
    BY <1>4, <2>1, IdentifyDoneProps
<1>5. CASE t.kind = "check" /\ x.clients[t.client].conn = t.conn
  <2>1. PICK c \in Clients : c = t.client
    BY <1>5, TaskKinds
  <2>2. y = CheckDone(x, t, fault) \/ y = [x EXCEPT !.clients[c].task = "none"]
    BY <1>5, <2>1 DEF Complete
  <2>3. CASE y = CheckDone(x, t, fault)
    BY <1>5, <2>3, CheckDoneProps
  <2>4. CASE y = [x EXCEPT !.clients[c].task = "none"]
    BY <2>4, TaskOver
  <2> QED
    BY <2>2, <2>3, <2>4
<1>6. CASE t.kind = "prompt" /\ x.clients[t.client].conn = t.conn
  <2>1. y = PromptDone(x, t, fault) \/ y = x
    BY <1>6 DEF Complete
  <2> QED
    BY <1>6, <2>1, PromptDoneProps
<1> QED
  BY <1>1, <1>2, <1>3, <1>4, <1>5, <1>6, TaskKinds

\* Clients are removed, and what they held with them.
LEMMA RemoveProps ==
  ASSUME NEW st, NEW ap, NEW n \in Nat, NEW x, Good(x, st, ap, n), NEW S,
         NEW y, y = RemoveClients(x, S)
  PROVE  Good(y, st, ap, n)
<1>0. Leases \subseteq Clients /\ Typed(x) /\ TaskInv(x, st, ap, n)
  BY DEF Clients, Good, TaskInv
<1>1. PICK cl : cl = [c \in Clients |-> IF c \in S THEN Absent ELSE x.clients[c]]
  OBVIOUS
<1>2. Absent \in ClientSet /\ Absent.conn = 0 /\ Absent.granted = {}
  BY DEF Absent, ClientSet
<1>3. cl \in [Clients -> ClientSet]
  BY <1>0, <1>1, <1>2 DEF Typed
<1>4. \A c \in Clients : cl[c] = Absent \/ cl[c] = x.clients[c]
  BY <1>1
<1>5. \A c \in Clients : \/ cl[c].conn = 0
                         \/ cl[c].conn = x.clients[c].conn /\ cl[c].id = x.clients[c].id
  BY <1>2, <1>4
<1>6. PICK i \in BOOLEAN, f \in BOOLEAN : i = x.inflight /\ f = x.failed
  BY <1>0 DEF Typed
<1>7. PICK r : r = [k \in Connections |-> x.refs[k] - Cardinality({c \in S : x.clients[c].conn = k})]
  OBVIOUS
<1>8. PICK v : v = [k \in Connections |-> x.valid[k] /\ {c \in S : x.clients[c].conn = k} = {}]
  OBVIOUS
<1>9. y = SetRest(x, cl, r, v, i, f)
  <2>1. y = [x EXCEPT !.clients = cl, !.refs = r, !.valid = v]
    BY <1>1, <1>7, <1>8, Zenon DEF RemoveClients
  <2> QED
    BY <1>0, <1>6, <2>1 DEF SetRest, Typed
<1>10. TaskInv(y, st, ap, n) /\ y.clients = cl /\ y.inflight = i /\ y.failed = f
  <2>1. /\ cl \in [Clients -> ClientSet]
        /\ \A c \in Clients : \/ cl[c].conn = 0
                              \/ cl[c].conn = x.clients[c].conn /\ cl[c].id = x.clients[c].id
    BY <1>3, <1>5
  <2>2. TaskInv(x, st, ap, n)
    BY <1>0
  <2> QED
    BY <1>9, <2>1, <2>2, SetRestProps
<1>11. Granted(y)
  BY <1>0, <1>2, <1>4, <1>6, <1>10 DEF Good, Granted, Warranted
<1>12. Current(y, st)
  BY <1>0, <1>2, <1>4, <1>6, <1>10 DEF Good, Current, Covered
<1> QED
  BY <1>10, <1>11, <1>12 DEF Good

\* References are counted.
LEMMA CountProps ==
  ASSUME NEW st, NEW ap, NEW n \in Nat, NEW x, Good(x, st, ap, n), NEW r,
         NEW y, y = [x EXCEPT !.refs = r]
  PROVE  Good(y, st, ap, n)
<1>0. Typed(x) /\ TaskInv(x, st, ap, n)
  BY DEF Good, TaskInv
<1>1. PICK i \in BOOLEAN, f \in BOOLEAN : i = x.inflight /\ f = x.failed
  BY <1>0 DEF Typed
<1>2. PICK v : v = x.valid
  OBVIOUS
<1>3. y = Flagged(x, r, v, i, f)
  BY <1>0, <1>1, <1>2 DEF Flagged, SetRest, Typed
<1>4. TaskInv(y, st, ap, n) /\ ClientsKept(x, y) /\ FlagsAre(x, y, i, f)
  BY <1>0, <1>3, SetFlags
<1> QED
  BY <1>1, <1>4, GoodKept DEF FlagsAre, RestKept

-----------------------------------------------------------------------------
(* The workers                                                             *)

\* A fault uses up some trouble.
LEMMA FaultProps ==
  ASSUME used \in UsedSet, NEW happens, Fault(happens)
  PROVE  used' \in UsedSet /\ used'.connections = used.connections
  BY DEF Fault, UsedSet

\* What a task is when its result is in the ring.
LEMMA DoneProps ==
  ASSUME NEW u \in Tasks, NEW w, w = [u EXCEPT !.stage = "done"]
  PROVE  /\ w \in Tasks /\ Kin(u, w) /\ w.status = u.status
         /\ \A st, ap : Promise(u, st, ap) => Promise(w, st, ap)
<1>0. "done" \in Stages
  BY DEF Stages
<1>1. w \in Tasks /\ w.kind = u.kind /\ w.status = u.status /\ w.stage = "done" /\ w.fresh = u.fresh
      /\ (u.kind # "refresh" => w.client = u.client /\ w.conn = u.conn /\ w.allowed = u.allowed)
      /\ (u.kind = "refresh" => w.snapshots = u.snapshots)
  <2>1. CASE u \in LeaseTasks
    <3>1. w \in LeaseTasks
      BY <1>0, <2>1 DEF LeaseTasks
    <3> QED
      BY <2>1, <3>1 DEF LeaseTasks, Tasks
  <2>2. CASE u \in RevokeTasks
    <3>1. w \in RevokeTasks
      BY <1>0, <2>2 DEF RevokeTasks
    <3> QED
      BY <2>2, <3>1 DEF RevokeTasks, Tasks
  <2>3. CASE u \in RefreshTasks
    <3>1. w \in RefreshTasks
      BY <1>0, <2>3 DEF RefreshTasks
    <3> QED
      BY <2>3, <3>1 DEF RefreshTasks, Tasks
  <2> QED
    BY <2>1, <2>2, <2>3 DEF Tasks
<1>2. \A st, ap : Promise(u, st, ap) => Promise(w, st, ap)
  BY <1>1 DEF Promise
<1> QED
  BY <1>1, <1>2 DEF Kin

\* The task a worker runs.
LEMMA RunningProps ==
  ASSUME IInv, NEW t \in d.running
  PROVE  /\ t \in Tasks /\ Promise(t, store, approved)
         /\ store \in StoreSet /\ approved \in [Apps -> SUBSET Scopes]
         /\ used \in UsedSet /\ used.connections \in Nat
         /\ TaskInv(d, store, approved, used.connections)
<1>1. TaskInv(d, store, approved, used.connections) /\ Typed(d) /\ used \in UsedSet
      /\ store \in StoreSet /\ approved \in [Apps -> SUBSET Scopes]
  BY DEF IInv, Good, TaskInv
<1>2. t \in Tasks /\ t \in InFlight(d)
  BY <1>1 DEF Typed, InFlight
<1> QED
  BY <1>1, <1>2 DEF TaskInv, Sound, UsedSet

\* A worker goes on with its task, and the store is as it was.
LEMMA ContinueStep ==
  ASSUME IInv, NEW t \in d.running, NEW u \in Tasks, Kin(t, u), Promise(u, store, approved),
         Continue(t, u), store' = store, approved' = approved,
         used' \in UsedSet, used'.connections = used.connections
  PROVE  IInv'
<1>1. TaskInv(d', store, approved, used.connections) /\ ClientsKept(d, d') /\ RestKept(d, d')
  BY RunningProps, ContinueTask DEF Continue
<1>2. Good(d', store, approved, used.connections)
  BY <1>1, GoodKept DEF IInv
<1> QED
  BY <1>2 DEF IInv, RevokeWins

\* A worker is done.
LEMMA PushStep ==
  ASSUME IInv, NEW t \in d.running, NEW u \in Tasks, Kin(t, u), Promise(u, store, approved),
         u.kind = "identify" => u.status \in {"known", "failed"},
         NEW lost, Push(t, u, lost), store' = store, approved' = approved,
         used' \in UsedSet, used'.connections = used.connections
  PROVE  IInv'
<1>0. Typed(d)
  BY DEF IInv, Good, TaskInv
<1>1. PICK w : w = [u EXCEPT !.stage = "done"]
  OBVIOUS
<1>2. w \in Tasks /\ Kin(u, w) /\ w.status = u.status /\ Promise(w, store, approved)
  BY <1>1, DoneProps
<1>3. Kin(t, w) /\ (w.kind = "identify" => w.status \in {"known", "failed"})
  BY <1>2 DEF Kin
<1>4. PICK r, v : Pushed(d, t, lost) = [d EXCEPT !.refs = r, !.valid = v]
  <2>1. PICK a, b : /\ a = [d.refs EXCEPT ![t.conn] = @ - 1]
                    /\ b = [d.valid EXCEPT ![t.conn] = FALSE]
    OBVIOUS
  <2>2. /\ d = [d EXCEPT !.refs = d.refs, !.valid = d.valid]
        /\ [d EXCEPT !.refs = a] = [d EXCEPT !.refs = a, !.valid = d.valid]
        /\ [d EXCEPT !.valid = b] = [d EXCEPT !.refs = d.refs, !.valid = b]
        /\ [[d EXCEPT !.valid = b] EXCEPT !.refs = a] = [d EXCEPT !.refs = a, !.valid = b]
        /\ [d EXCEPT !.valid = b].refs = d.refs
    BY <1>0 DEF Typed
  <2>3. \/ Pushed(d, t, lost) = d
        \/ Pushed(d, t, lost) = [d EXCEPT !.refs = a]
        \/ Pushed(d, t, lost) = [d EXCEPT !.valid = b]
        \/ Pushed(d, t, lost) = [[d EXCEPT !.valid = b] EXCEPT !.refs = a]
    BY <2>1, <2>2 DEF Pushed, FreeTask, Invalidate
  <2>4. PICK r \in {a, d.refs}, v \in {b, d.valid} : Pushed(d, t, lost) = [d EXCEPT !.refs = r, !.valid = v]
    <3>1. CASE Pushed(d, t, lost) = d
      BY <2>2, <3>1, Zenon
    <3>2. CASE Pushed(d, t, lost) = [d EXCEPT !.refs = a]
      BY <2>2, <3>2, Zenon
    <3>3. CASE Pushed(d, t, lost) = [d EXCEPT !.valid = b]
      BY <2>2, <3>3, Zenon
    <3>4. CASE Pushed(d, t, lost) = [[d EXCEPT !.valid = b] EXCEPT !.refs = a]
      BY <2>2, <3>4, Zenon
    <3> QED
      BY <2>3, <3>1, <3>2, <3>3, <3>4
  <2> QED
    BY <2>4, Zenon
<1>5. PICK ring : ring = IF lost THEN d.ring ELSE Append(d.ring, w)
  OBVIOUS
<1>6. d' = [d EXCEPT !.refs = r, !.valid = v, !.pools[PoolOf(t)] = JobDone(@),
                     !.running = @ \ {t}, !.ring = ring]
  BY <1>0, <1>1, <1>4, <1>5 DEF Push, Typed
<1>7. TaskInv(d', store, approved, used.connections) /\ ClientsKept(d, d') /\ RestKept(d, d')
  BY <1>2, <1>3, <1>5, <1>6, RunningProps, PushTask
<1>8. Good(d', store, approved, used.connections)
  BY <1>7, GoodKept DEF IInv
<1> QED
  BY <1>8 DEF IInv, RevokeWins

\* A task of a client goes on.
Further(t, stage, status, fresh, missing, allowed) ==
  [t EXCEPT !.stage = stage, !.status = status, !.fresh = fresh, !.missing = missing,
            !.allowed = allowed]
Reached(u, stage, status, fresh, missing, allowed) ==
  /\ u.stage = stage /\ u.status = status /\ u.fresh = fresh
  /\ u.missing = missing /\ u.allowed = allowed

\* It stays a task of that client.
LEMMA FurtherProps ==
  ASSUME NEW t \in Tasks, t.kind # "refresh", NEW stage \in Stages, NEW status \in Statuses,
         NEW fresh \in SUBSET Generations, NEW missing \in SUBSET Scopes,
         NEW allowed \in SUBSET Scopes,
         NEW u, u = Further(t, stage, status, fresh, missing, allowed)
  PROVE  u \in Tasks /\ Kin(t, u) /\ Reached(u, stage, status, fresh, missing, allowed)
<1>1. CASE t \in LeaseTasks
  <2>1. u \in LeaseTasks /\ Kin(t, u) /\ Reached(u, stage, status, fresh, missing, allowed)
    BY <1>1 DEF LeaseTasks, Further, Kin, Reached
  <2> QED
    BY <2>1 DEF Tasks
<1>2. CASE t \in RevokeTasks
  <2>1. u \in RevokeTasks /\ Kin(t, u) /\ Reached(u, stage, status, fresh, missing, allowed)
    BY <1>2 DEF RevokeTasks, Further, Kin, Reached
  <2> QED
    BY <2>1 DEF Tasks
<1> QED
  BY <1>1, <1>2, TaskKinds DEF Tasks, RefreshTasks

\* What an application may do, by the store.
LEMMA AllowedProps ==
  ASSUME store \in StoreSet, NEW t \in LeaseTasks
  PROVE  App[t.client] \in Apps /\ store.allowed[App[t.client]] \in SUBSET Scopes
  BY ClientAssumption DEF LeaseTasks, StoreSet

\* identify_worker
LEMMA IdentifyStep ==
  ASSUME IInv, NEW t \in d.running, NEW outcome \in {"known", "failed"}, NEW lost \in BOOLEAN,
         Identify(t, outcome, lost)
  PROVE  IInv'
<1>0. t \in Tasks /\ t.kind = "identify" /\ used \in UsedSet /\ outcome \in Statuses
  BY RunningProps DEF Identify, Statuses
<1>1. PICK u : u = [t EXCEPT !.status = outcome]
  OBVIOUS
<1>2. u \in Tasks /\ Kin(t, u) /\ u.status = outcome /\ u.kind = "identify"
  <2>1. t \in LeaseTasks
    BY <1>0, TaskKinds
  <2>2. u \in LeaseTasks /\ Kin(t, u) /\ u.status = outcome /\ u.kind = "identify"
    BY <1>0, <1>1, <2>1 DEF LeaseTasks, Kin
  <2> QED
    BY <2>2 DEF Tasks
<1>3. Promise(u, store, approved)
  BY <1>2 DEF Promise
<1>4. Push(t, u, lost) /\ store' = store /\ approved' = approved
  BY <1>1 DEF Identify
<1>5. used' \in UsedSet /\ used'.connections = used.connections
  BY <1>0, FaultProps DEF Identify
<1> QED
  BY <1>2, <1>3, <1>4, <1>5, PushStep

\* permission_worker for a check reads the store.
LEMMA CheckStep ==
  ASSUME IInv, NEW t \in d.running, NEW late \in BOOLEAN, Check(t, late)
  PROVE  IInv'
<1>0. t \in Tasks /\ t.kind = "check" /\ used \in UsedSet /\ store \in StoreSet
      /\ Promise(t, store, approved)
  BY RunningProps DEF Check
<1>1. t \in LeaseTasks
  BY <1>0, TaskKinds
<1>2. PICK al \in SUBSET Scopes : al = store.allowed[App[t.client]]
  BY <1>0, <1>1, AllowedProps
<1>3. "read" \in Stages /\ "cancelled" \in Statuses
  BY DEF Stages, Statuses
<1>4. PICK u : u = IF Cancelled(d, t) \/ late
                   THEN [t EXCEPT !.stage = "read", !.status = "cancelled"]
                   ELSE [t EXCEPT !.stage = "read", !.allowed = store.allowed[App[t.client]]]
  OBVIOUS
<1>5. /\ u \in LeaseTasks /\ Kin(t, u) /\ u.kind = "check" /\ u.client = t.client /\ u.fresh = t.fresh
      /\ u.allowed = t.allowed \/ u.allowed = al
  <2>1. CASE Cancelled(d, t) \/ late
    BY <1>0, <1>1, <1>3, <1>4, <2>1 DEF LeaseTasks, Kin
  <2>2. CASE ~(Cancelled(d, t) \/ late)
    BY <1>0, <1>1, <1>2, <1>3, <1>4, <2>2 DEF LeaseTasks, Kin
  <2> QED
    BY <2>1, <2>2
<1>6. u \in Tasks /\ Promise(u, store, approved)
  BY <1>0, <1>2, <1>5 DEF Promise, Tasks
<1>7. Continue(t, u) /\ store' = store /\ approved' = approved
  BY <1>4, Zenon DEF Check
<1>8. used' \in UsedSet /\ used'.connections = used.connections
  BY <1>0, FaultProps DEF Check
<1> QED
  BY <1>5, <1>6, <1>7, <1>8, ContinueStep

\* And ends.
LEMMA CheckEndStep ==
  ASSUME IInv, NEW t \in d.running, NEW lost \in BOOLEAN, CheckEnd(t, lost)
  PROVE  IInv'
<1>0. t \in Tasks /\ t.kind = "check" /\ used \in UsedSet /\ Promise(t, store, approved)
  BY RunningProps DEF CheckEnd
<1>1. t \in LeaseTasks /\ "cancelled" \in Statuses
  BY <1>0, TaskKinds DEF Statuses
<1>4. PICK u : u = IF Cancelled(d, t) THEN [t EXCEPT !.status = "cancelled"] ELSE t
  OBVIOUS
<1>5. /\ u \in LeaseTasks /\ Kin(t, u) /\ u.kind = "check" /\ u.client = t.client
      /\ u.fresh = t.fresh /\ u.allowed = t.allowed
  BY <1>0, <1>1, <1>4 DEF LeaseTasks, Kin
<1>6. u \in Tasks /\ Promise(u, store, approved)
  BY <1>0, <1>5 DEF Promise, Tasks
<1>7. Push(t, u, lost) /\ store' = store /\ approved' = approved
  BY <1>4, Zenon DEF CheckEnd
<1>8. used' \in UsedSet /\ used'.connections = used.connections
  BY <1>0, FaultProps DEF CheckEnd
<1> QED
  BY <1>5, <1>6, <1>7, <1>8, PushStep

\* A worker ends with its task as it is.
LEMMA EndStep ==
  ASSUME IInv, NEW t \in d.running, NEW lost \in BOOLEAN,
         RevokeEnd(t, lost) \/ RefreshEnd(t, lost) \/ PromptEnd(t, lost)
  PROVE  IInv'
<1>0. t \in Tasks /\ t.kind # "identify" /\ used \in UsedSet /\ Promise(t, store, approved)
  BY RunningProps DEF RevokeEnd, RefreshEnd, PromptEnd
<1>1. Kin(t, t)
  BY DEF Kin
<1>2. Push(t, t, lost) /\ Fault(lost) /\ store' = store /\ approved' = approved
  BY DEF RevokeEnd, RefreshEnd, PromptEnd
<1>3. used' \in UsedSet /\ used'.connections = used.connections
  BY <1>0, <1>2, FaultProps
<1> QED
  BY <1>0, <1>1, <1>2, <1>3, PushStep

\* permission_worker for a refresh reads one application's permissions.
LEMMA RefreshReadStep ==
  ASSUME IInv, NEW t \in d.running, NEW late \in BOOLEAN, RefreshRead(t, late)
  PROVE  IInv'
<1>0. t \in Tasks /\ t.kind = "refresh" /\ used \in UsedSet /\ store \in StoreSet
      /\ Promise(t, store, approved) /\ t.todo # {}
  BY RunningProps DEF RefreshRead
<1>1. t \in RefreshTasks /\ t.todo \subseteq Apps /\ t.snapshots \in [Apps -> SUBSET Scopes]
  BY <1>0, TaskKinds
<1>2. PICK a \in Apps : a = CHOOSE b \in t.todo : TRUE
  BY <1>0, <1>1
<1>3. PICK al \in SUBSET Scopes : al = store.allowed[a]
  BY <1>0, <1>2 DEF StoreSet
<1>4. PICK u : u = IF Cancelled(d, t) \/ late
                   THEN [t EXCEPT !.todo = {}, !.status = "unavailable"]
                   ELSE [t EXCEPT !.todo = @ \ {a}, !.snapshots[a] = store.allowed[a]]
  OBVIOUS
<1>5. /\ u \in RefreshTasks /\ u.kind = "refresh" /\ u.fresh = t.fresh
      /\ \A b \in Apps : u.snapshots[b] = t.snapshots[b] \/ u.snapshots[b] = store.allowed[b]
  <2>1. CASE Cancelled(d, t) \/ late
    BY <1>0, <1>1, <1>4, <2>1 DEF RefreshTasks, Statuses
  <2>2. CASE ~(Cancelled(d, t) \/ late)
    <3>1. u = [t EXCEPT !.todo = @ \ {a}, !.snapshots[a] = al]
      BY <1>3, <1>4, <2>2
    <3>2. u.todo = t.todo \ {a} /\ u.snapshots = [t.snapshots EXCEPT ![a] = al] /\ u.kind = "refresh"
          /\ u.fresh = t.fresh
      BY <1>0, <1>1, <3>1 DEF RefreshTasks
    <3>3. [t.snapshots EXCEPT ![a] = al] \in [Apps -> SUBSET Scopes]
      BY <1>1, <1>3
    <3>4. u \in RefreshTasks
      BY <1>1, <3>1, <3>3 DEF RefreshTasks
    <3>5. \A b \in Apps : u.snapshots[b] = t.snapshots[b] \/ u.snapshots[b] = store.allowed[b]
      BY <1>1, <1>3, <3>2
    <3> QED
      BY <3>2, <3>4, <3>5
  <2> QED
    BY <2>1, <2>2
<1>6. u \in Tasks /\ Promise(u, store, approved) /\ Kin(t, u)
  BY <1>0, <1>5 DEF Promise, Tasks, Kin
<1>7. Continue(t, u) /\ store' = store /\ approved' = approved
  BY <1>2, <1>4, Zenon DEF RefreshRead
<1>8. used' \in UsedSet /\ used'.connections = used.connections
  BY <1>0, FaultProps DEF RefreshRead
<1> QED
  BY <1>6, <1>7, <1>8, ContinueStep

\* prompt_worker reads the store, or sees that the prompt was cancelled.
LEMMA PromptReadStep ==
  ASSUME IInv, NEW t \in d.running, NEW late \in BOOLEAN, PromptRead(t, late)
  PROVE  IInv'
<1>0. t \in Tasks /\ t.kind = "prompt" /\ used \in UsedSet /\ store \in StoreSet
      /\ Promise(t, store, approved)
  BY RunningProps DEF PromptRead
<1>1. t \in LeaseTasks /\ t.fresh \in SUBSET Generations /\ t.missing \in SUBSET Scopes
      /\ t.allowed \in SUBSET Scopes
  BY <1>0, TaskKinds
<1>2. used' \in UsedSet /\ used'.connections = used.connections
  BY <1>0, FaultProps DEF PromptRead
<1>3. store' = store /\ approved' = approved
  BY DEF PromptRead
<1>4. PICK ms \in SUBSET Scopes : ms = t.missing \ store.allowed[App[t.client]]
  BY <1>1
<1>5. PICK stage \in {"ask", "written"}, status \in {"granted", "ok"} :
        /\ stage = IF ms = {} THEN "written" ELSE "ask"
        /\ status = IF ms = {} THEN "granted" ELSE "ok"
  OBVIOUS
<1>6. PICK fr \in SUBSET Generations : fr = t.fresh \cup {"store"}
  BY <1>1 DEF Generations
<1>7. \/ Continue(t, Further(t, "decided", "unavailable", t.fresh, t.missing, t.allowed))
      \/ Continue(t, Further(t, stage, status, fr, ms, t.allowed))
  <2>1. CASE Continue(t, [t EXCEPT !.stage = "decided", !.status = "unavailable"])
    <3>1. [t EXCEPT !.stage = "decided", !.status = "unavailable"]
            = Further(t, "decided", "unavailable", t.fresh, t.missing, t.allowed)
      BY <1>1 DEF LeaseTasks, Further
    <3> QED
      BY <2>1, <3>1
  <2>2. CASE Continue(t, [t EXCEPT !.missing = ms, !.fresh = @ \cup {"store"},
                                   !.stage = IF ms = {} THEN "written" ELSE "ask",
                                   !.status = IF ms = {} THEN "granted" ELSE "ok"])
    <3>1. [t EXCEPT !.missing = ms, !.fresh = @ \cup {"store"},
                    !.stage = IF ms = {} THEN "written" ELSE "ask",
                    !.status = IF ms = {} THEN "granted" ELSE "ok"]
            = Further(t, stage, status, fr, ms, t.allowed)
      BY <1>1, <1>5, <1>6 DEF LeaseTasks, Further
    <3> QED
      BY <2>2, <3>1
  <2> QED
    BY <1>4, <2>1, <2>2, Zenon DEF PromptRead
<1>8. {"decided", "ask", "written"} \subseteq Stages /\ {"unavailable", "granted", "ok"} \subseteq Statuses
  BY DEF Stages, Statuses
<1>9. CASE Continue(t, Further(t, "decided", "unavailable", t.fresh, t.missing, t.allowed))
  <2>1. PICK u : u = Further(t, "decided", "unavailable", t.fresh, t.missing, t.allowed)
    OBVIOUS
  <2>2. u \in Tasks /\ Kin(t, u) /\ Reached(u, "decided", "unavailable", t.fresh, t.missing, t.allowed)
    BY <1>0, <1>1, <1>8, <2>1, FurtherProps
  <2>3. Promise(u, store, approved)
    BY <1>0, <2>2 DEF Promise, Kin, Reached
  <2> QED
    BY <1>2, <1>3, <1>9, <2>1, <2>2, <2>3, ContinueStep
<1>10. CASE Continue(t, Further(t, stage, status, fr, ms, t.allowed))
  <2>1. PICK u : u = Further(t, stage, status, fr, ms, t.allowed)
    OBVIOUS
  <2>2. u \in Tasks /\ Kin(t, u) /\ Reached(u, stage, status, fr, ms, t.allowed)
    BY <1>0, <1>1, <1>8, <2>1, FurtherProps
  <2>3. Promise(u, store, approved)
    BY <1>0, <1>5, <1>6, <2>2 DEF Promise, Kin, Reached
  <2> QED
    BY <1>2, <1>3, <1>10, <2>1, <2>2, <2>3, ContinueStep
<1> QED
  BY <1>7, <1>9, <1>10

\* prompt_worker reads what the store allows in the end.
LEMMA PromptRereadStep ==
  ASSUME IInv, NEW t \in d.running, NEW late \in BOOLEAN, PromptReread(t, late)
  PROVE  IInv'
<1>0. t \in Tasks /\ t.kind = "prompt" /\ used \in UsedSet /\ store \in StoreSet
      /\ Promise(t, store, approved)
  BY RunningProps DEF PromptReread
<1>1. t \in LeaseTasks
  BY <1>0, TaskKinds
<1>2. PICK al \in SUBSET Scopes : al = store.allowed[App[t.client]]
  BY <1>0, <1>1, AllowedProps
<1>3. "decided" \in Stages /\ "denied" \in Statuses
  BY DEF Stages, Statuses
<1>4. PICK u : u = IF Cancelled(d, t) \/ late
                   THEN [t EXCEPT !.stage = "decided", !.status = "denied"]
                   ELSE [t EXCEPT !.stage = "decided", !.allowed = store.allowed[App[t.client]]]
  OBVIOUS
<1>5. /\ u \in LeaseTasks /\ Kin(t, u) /\ u.kind = "prompt" /\ u.client = t.client /\ u.fresh = t.fresh
      /\ u.stage = "decided" /\ (u.allowed = t.allowed \/ u.allowed = al)
  <2>1. CASE Cancelled(d, t) \/ late
    BY <1>0, <1>1, <1>3, <1>4, <2>1 DEF LeaseTasks, Kin
  <2>2. CASE ~(Cancelled(d, t) \/ late)
    BY <1>0, <1>1, <1>2, <1>3, <1>4, <2>2 DEF LeaseTasks, Kin
  <2> QED
    BY <2>1, <2>2
<1>6. u \in Tasks /\ Promise(u, store, approved)
  BY <1>0, <1>2, <1>5 DEF Promise, Tasks
<1>7. Continue(t, u) /\ store' = store /\ approved' = approved
  BY <1>4, Zenon DEF PromptReread
<1>8. used' \in UsedSet /\ used'.connections = used.connections
  BY <1>0, FaultProps DEF PromptReread
<1> QED
  BY <1>5, <1>6, <1>7, <1>8, ContinueStep

\* The store or the approvals grow: what the tasks say stays true.
Grown(st, ap, su, aq) ==
  /\ su.notify = st.notify
  /\ \A a \in Apps : st.allowed[a] \subseteq su.allowed[a] /\ ap[a] \subseteq aq[a]

\* A task that holds a promise keeps it.
LEMMA GrownPromise ==
  ASSUME NEW st, NEW ap, NEW su, NEW aq, Grown(st, ap, su, aq), NEW t \in Tasks,
         Promise(t, st, ap)
  PROVE  Promise(t, su, aq)
<1>1. t.kind \in {"check", "prompt"} => App[t.client] \in Apps
  BY TaskKinds, ClientAssumption
<1>2. t.kind \in {"check", "prompt"} /\ "permission" \in t.fresh =>
        su.notify \/ t.allowed \subseteq su.allowed[App[t.client]]
  BY <1>1 DEF Grown, Promise
<1>3. t.kind = "refresh" /\ "permission" \in t.fresh =>
        su.notify \/ \A a \in Apps : t.snapshots[a] \subseteq su.allowed[a]
  BY DEF Grown, Promise
<1>4. t.kind = "prompt" /\ t.stage = "write" /\ "store" \in t.fresh =>
        t.missing \subseteq aq[App[t.client]]
  BY <1>1 DEF Grown, Promise
<1> QED
  BY <1>2, <1>3, <1>4 DEF Promise

\* A worker goes on, with more in the store or approved than before.
LEMMA GrowStep ==
  ASSUME IInv, NEW t \in d.running, NEW u \in Tasks, Kin(t, u), Continue(t, u),
         Grown(store, approved, store', approved'), Promise(u, store', approved'),
         store' \in StoreSet, approved' \in [Apps -> SUBSET Scopes], RevokeWins',
         used' \in UsedSet, used'.connections = used.connections
  PROVE  IInv'
<1>1. Good(d, store, approved, used.connections) /\ TaskInv(d, store, approved, used.connections)
      /\ Typed(d)
  BY DEF IInv, Good, TaskInv
<1>2. \A s \in InFlight(d) : Promise(s, store', approved')
  <2> SUFFICES ASSUME NEW s \in InFlight(d)
               PROVE  Promise(s, store', approved')
    OBVIOUS
  <2>1. s \in Tasks /\ Promise(s, store, approved)
    BY <1>1, InFlightTasks DEF TaskInv, Sound
  <2> QED
    BY <2>1, GrownPromise
<1>3. TaskInv(d, store', approved', used.connections)
  BY <1>1, <1>2, Restore
<1>4. Current(d, store')
  <2>1. \A c \in Leases : App[c] \in Apps
    BY ClientAssumption
  <2> QED
    BY <1>1, <2>1 DEF Good, Current, Covered, Grown
<1>5. Good(d, store', approved', used.connections)
  BY <1>1, <1>3, <1>4 DEF Good
<1>6. TaskInv(d', store', approved', used.connections) /\ ClientsKept(d, d') /\ RestKept(d, d')
  BY <1>3, ContinueTask DEF Continue
<1>7. Good(d', store', approved', used.connections)
  BY <1>5, <1>6, GoodKept
<1> QED
  BY <1>7 DEF IInv

\* The user answers.
LEMMA PromptAnsweredStep ==
  ASSUME IInv, NEW t \in d.running, NEW yes \in BOOLEAN, PromptAnswered(t, yes)
  PROVE  IInv'
<1>0. t \in Tasks /\ t.kind = "prompt" /\ used \in UsedSet /\ store \in StoreSet
      /\ Promise(t, store, approved) /\ approved \in [Apps -> SUBSET Scopes] /\ RevokeWins
  BY RunningProps DEF PromptAnswered, IInv
<1>1. t \in LeaseTasks /\ t.fresh \in SUBSET Generations /\ t.missing \in SUBSET Scopes
      /\ t.allowed \in SUBSET Scopes
  BY <1>0, TaskKinds
<1>2. store' = store /\ used' = used
  BY DEF PromptAnswered
<1>3. PICK a \in Apps : a = App[t.client]
  BY <1>0, <1>1, AllowedProps
<1>4. /\ approved' \in [Apps -> SUBSET Scopes]
      /\ \A b \in Apps : approved[b] \subseteq approved'[b]
      /\ yes => t.missing \subseteq approved'[a]
  <2>1. approved' = IF yes THEN [approved EXCEPT ![a] = @ \cup t.missing] ELSE approved
    BY <1>3, Zenon DEF PromptAnswered
  <2> QED
    BY <1>0, <1>1, <2>1
<1>5. Grown(store, approved, store', approved') /\ RevokeWins'
  BY <1>0, <1>2, <1>4 DEF Grown, RevokeWins
<1>6. PICK stage \in Stages, status \in Statuses :
        stage = (IF yes THEN "write" ELSE "written") /\ status = (IF yes THEN "granted" ELSE "denied")
  BY DEF Stages, Statuses
<1>7. PICK u : u = Further(t, stage, status, t.fresh, t.missing, t.allowed)
  OBVIOUS
<1>8. Continue(t, u)
  <2>1. u = IF yes THEN [t EXCEPT !.stage = "write", !.status = "granted"]
            ELSE [t EXCEPT !.stage = "written", !.status = "denied"]
    BY <1>1, <1>6, <1>7 DEF LeaseTasks, Further
  <2> QED
    BY <2>1, Zenon DEF PromptAnswered
<1>9. u \in Tasks /\ Kin(t, u) /\ Reached(u, stage, status, t.fresh, t.missing, t.allowed)
  BY <1>0, <1>1, <1>7, FurtherProps
<1>10. Promise(u, store', approved')
  <2>1. u.kind = "prompt" /\ u.client = t.client /\ u.fresh = t.fresh /\ u.missing = t.missing
        /\ u.allowed = t.allowed /\ u.stage = stage
    BY <1>0, <1>9 DEF Kin, Reached
  <2>2. "permission" \in u.fresh => store.notify \/ u.allowed \subseteq store.allowed[App[u.client]]
    BY <1>0, <2>1 DEF Promise
  <2>3. u.stage = "write" => u.missing \subseteq approved'[App[u.client]]
    BY <1>3, <1>4, <1>6, <2>1
  <2> QED
    BY <1>2, <2>1, <2>2, <2>3 DEF Promise
<1>11. used' \in UsedSet /\ used'.connections = used.connections /\ store' \in StoreSet
  BY <1>0, <1>2
<1> QED
  BY <1>4, <1>5, <1>8, <1>9, <1>10, <1>11, GrowStep

\* ksp_store_grant_if_generation_cancelled
LEMMA PromptWriteStep ==
  ASSUME IInv, NEW t \in d.running, NEW late \in BOOLEAN, PromptWrite(t, late)
  PROVE  IInv'
<1>0. t \in Tasks /\ t.kind = "prompt" /\ t.stage = "write" /\ used \in UsedSet /\ store \in StoreSet
      /\ Promise(t, store, approved) /\ approved \in [Apps -> SUBSET Scopes] /\ RevokeWins
  BY RunningProps DEF PromptWrite, IInv
<1>1. t \in LeaseTasks /\ t.fresh \in SUBSET Generations /\ t.missing \in SUBSET Scopes
      /\ t.allowed \in SUBSET Scopes
  BY <1>0, TaskKinds
<1>2. approved' = approved
  BY DEF PromptWrite
<1>3. PICK a \in Apps : a = App[t.client]
  BY <1>0, <1>1, AllowedProps
<1>4. /\ store' \in StoreSet /\ store'.notify = store.notify
      /\ \A b \in Apps : /\ store.allowed[b] \subseteq store'.allowed[b]
                         /\ store'.allowed[b] \subseteq approved[b]
  <2>1. CASE store' = store
    BY <1>0, <2>1 DEF RevokeWins
  <2>2. CASE /\ store' = [store EXCEPT !.allowed[a] = @ \cup t.missing]
             /\ "store" \in t.fresh
    <3>1. t.missing \subseteq approved[a]
      BY <1>0, <1>3, <2>2 DEF Promise
    <3>2. store'.notify = store.notify /\ store' \in StoreSet
      BY <1>0, <1>1, <2>2 DEF StoreSet
    <3>3. \A b \in Apps : store'.allowed[b] = IF b = a THEN store.allowed[b] \cup t.missing ELSE store.allowed[b]
      BY <1>0, <2>2 DEF StoreSet
    <3> QED
      BY <1>0, <3>1, <3>2, <3>3 DEF RevokeWins
  <2> QED
    BY <1>3, <2>1, <2>2 DEF PromptWrite
<1>5. Grown(store, approved, store', approved') /\ RevokeWins'
  BY <1>2, <1>4 DEF Grown, RevokeWins
<1>6. PICK status \in Statuses : Continue(t, Further(t, "written", status, t.fresh, t.missing, t.allowed))
  <2>1. t.status \in Statuses /\ "denied" \in Statuses
    BY <1>0, TaskKinds DEF Statuses
  <2>2. /\ [t EXCEPT !.stage = "written"] = Further(t, "written", t.status, t.fresh, t.missing, t.allowed)
        /\ [t EXCEPT !.stage = "written", !.status = "denied"]
             = Further(t, "written", "denied", t.fresh, t.missing, t.allowed)
    BY <1>1 DEF LeaseTasks, Further
  <2>3. \/ Continue(t, [t EXCEPT !.stage = "written", !.status = "denied"])
        \/ Continue(t, [t EXCEPT !.stage = "written"])
    BY Zenon DEF PromptWrite
  <2> QED
    BY <2>1, <2>2, <2>3
<1>7. PICK u : u = Further(t, "written", status, t.fresh, t.missing, t.allowed)
  OBVIOUS
<1>8. Continue(t, u) /\ "written" \in Stages
  BY <1>6, <1>7 DEF Stages
<1>9. u \in Tasks /\ Kin(t, u) /\ Reached(u, "written", status, t.fresh, t.missing, t.allowed)
  BY <1>0, <1>1, <1>7, <1>8, FurtherProps
<1>10. Promise(u, store', approved')
  <2>1. Promise(u, store, approved)
    BY <1>0, <1>9 DEF Kin, Reached, Promise
  <2> QED
    BY <1>5, <1>9, <2>1, GrownPromise
<1>11. used' \in UsedSet /\ used'.connections = used.connections
  BY <1>0, FaultProps DEF PromptWrite
<1>12. approved' \in [Apps -> SUBSET Scopes] /\ store' \in StoreSet
  BY <1>0, <1>2, <1>4
<1> QED
  BY <1>5, <1>8, <1>9, <1>10, <1>11, <1>12, GrowStep

\* A revocation in the store, by a worker or another program: it is notified,
\* and no task may write any more.
LEMMA RevokeStoreStep ==
  ASSUME IInv, NEW x, TaskInv(x, store, approved, used.connections), ClientsKept(d, x), RestKept(d, x),
         d' = Advance(x, "store"), NEW apps, NEW scopes, RevokeStore(apps, scopes),
         used' \in UsedSet, used'.connections = used.connections
  PROVE  IInv'
<1>1. /\ TaskInv(d', store, approved, used.connections) /\ ClientsKept(x, d') /\ RestKept(x, d')
      /\ \A t \in InFlight(d') : "store" \notin t.fresh
  BY AdvanceProps
<1>2. store \in StoreSet /\ approved \in [Apps -> SUBSET Scopes] /\ RevokeWins
      /\ Good(d, store, approved, used.connections)
  BY DEF IInv
<1>3. store' \in StoreSet /\ store'.notify /\ approved' \in [Apps -> SUBSET Scopes]
  BY <1>2 DEF RevokeStore, StoreSet
<1>4. RevokeWins'
  BY <1>2 DEF RevokeStore, RevokeWins
<1>5. \A t \in InFlight(d') : Promise(t, store', approved')
  BY <1>1, <1>3 DEF Promise
<1>6. TaskInv(d', store', approved', used.connections)
  BY <1>1, <1>5, Restore
<1>7. Granted(d')
  BY <1>1, <1>2 DEF Good, Granted, Warranted, ClientsKept, RestKept
<1>8. Current(d', store')
  BY <1>3 DEF Current, Covered
<1> QED
  BY <1>3, <1>4, <1>6, <1>7, <1>8 DEF IInv, Good

\* permission_worker for a revocation
LEMMA RevokeStep ==
  ASSUME IInv, NEW t \in d.running, NEW late \in BOOLEAN, Revoke(t, late)
  PROVE  IInv'
<1>0. t \in Tasks /\ t.kind = "revoke" /\ used \in UsedSet
      /\ TaskInv(d, store, approved, used.connections)
  BY RunningProps DEF Revoke
<1>1. t \in RevokeTasks /\ t.fresh \in SUBSET Generations /\ t.missing \in SUBSET Scopes
      /\ t.allowed \in SUBSET Scopes /\ t.status \in Statuses
  BY <1>0, TaskKinds
<1>2. used' \in UsedSet /\ used'.connections = used.connections
  BY <1>0, FaultProps DEF Revoke
<1>3. "written" \in Stages /\ "cancelled" \in Statuses
  BY DEF Stages, Statuses
<1>4. CASE Cancelled(d, t) \/ late
  <2>1. PICK u : u = Further(t, "written", "cancelled", t.fresh, t.missing, t.allowed)
    OBVIOUS
  <2>2. u = [t EXCEPT !.stage = "written", !.status = "cancelled"]
    BY <1>1, <2>1 DEF RevokeTasks, Further
  <2>3. Continue(t, u) /\ store' = store /\ approved' = approved
    BY <1>4, <2>2, Zenon DEF Revoke
  <2>4. u \in Tasks /\ Kin(t, u)
    BY <1>0, <1>1, <1>3, <2>1, FurtherProps
  <2>5. Promise(u, store, approved)
    BY <1>0, <2>4 DEF Kin, Promise
  <2> QED
    BY <1>2, <2>3, <2>4, <2>5, ContinueStep
<1>5. CASE ~(Cancelled(d, t) \/ late)
  <2>1. PICK u : u = Further(t, "written", t.status, t.fresh, t.missing, t.allowed)
    OBVIOUS
  <2>2. u = [t EXCEPT !.stage = "written"]
    BY <1>1, <2>1 DEF RevokeTasks, Further
  <2>3. PICK x : x = [d EXCEPT !.running = (@ \ {t}) \cup {u}]
    OBVIOUS
  <2>4. d' = Advance(x, "store") /\ RevokeStore(t.apps, t.scopes)
    BY <1>5, <2>2, <2>3, Zenon DEF Revoke
  <2>5. u \in Tasks /\ Kin(t, u)
    BY <1>0, <1>1, <1>3, <2>1, FurtherProps
  <2>6. Promise(u, store, approved)
    BY <1>0, <2>5 DEF Kin, Promise
  <2>7. TaskInv(x, store, approved, used.connections) /\ ClientsKept(d, x) /\ RestKept(d, x)
    BY <1>0, <2>3, <2>5, <2>6, ContinueTask
  <2> QED
    BY <1>2, <2>4, <2>7, RevokeStoreStep
<1> QED
  BY <1>4, <1>5

\* Trouble is counted.
LEMMA TroubleProps ==
  ASSUME used \in UsedSet, Trouble
  PROVE  used' \in UsedSet /\ used'.connections = used.connections
  BY DEF Trouble, UsedSet

\* Another program revokes.
LEMMA RevokedElsewhereStep ==
  ASSUME IInv, NEW apps, NEW scopes, RevokedElsewhere(apps, scopes)
  PROVE  IInv'
<1>1. used' \in UsedSet /\ used'.connections = used.connections
  BY TroubleProps DEF RevokedElsewhere, IInv
<1>2. TaskInv(d, store, approved, used.connections) /\ ClientsKept(d, d) /\ RestKept(d, d)
  BY DEF IInv, Good, ClientsKept, RestKept
<1>3. d' = Advance(d, "store") /\ RevokeStore(apps, scopes)
  BY DEF RevokedElsewhere
<1> QED
  BY <1>1, <1>2, <1>3, RevokeStoreStep

\* A step that leaves the clients, the flags and the store alone.
LEMMA QuietStep ==
  ASSUME IInv, TaskInv(d', store, approved, used.connections), ClientsKept(d, d'), RestKept(d, d'),
         store' = store, approved' = approved, used' = used
  PROVE  IInv'
<1>1. Good(d', store, approved, used.connections)
  BY GoodKept DEF IInv
<1> QED
  BY <1>1 DEF IInv, RevokeWins

\* worker_thread_main takes a job.
LEMMA WorkerTakesStep ==
  ASSUME IInv, NEW p \in Pools, WorkerTakes(p)
  PROVE  IInv'
<1>1. TaskInv(d, store, approved, used.connections)
  BY DEF IInv, Good
<1>2. CanTake(d.pools[p]) /\ d' = [d EXCEPT !.pools[p] = Take(@), !.running = @ \cup {Head(d.pools[p].jobs)}]
  BY DEF WorkerTakes
<1>3. TaskInv(d', store, approved, used.connections) /\ ClientsKept(d, d') /\ RestKept(d, d')
  BY <1>1, <1>2, TakeTask
<1>4. store' = store /\ approved' = approved /\ used' = used
  BY DEF WorkerTakes
<1> QED
  BY <1>3, <1>4, QuietStep

\* Or it waits for one, or returns.
LEMMA WorkerRestsStep ==
  ASSUME IInv, NEW p \in Pools, WorkerWaits(p) \/ WorkerLeaves(p)
  PROVE  IInv'
<1>1. TaskInv(d, store, approved, used.connections) /\ Typed(d) /\ \A q \in Pools : PoolOk(d.pools[q])
  BY DEF IInv, Good, TaskInv, Shape, PoolInv
<1>2. PICK q : /\ PoolOk(q) /\ q.jobs = d.pools[p].jobs /\ q.active = d.pools[p].active
               /\ d' = [d EXCEPT !.pools[p] = q]
  <2>1. CASE WorkerWaits(p)
    <3>1. PICK q : q = Wait(d.pools[p])
      OBVIOUS
    <3>2. PoolOk(q) /\ q.jobs = d.pools[p].jobs /\ q.active = d.pools[p].active
      BY <1>1, <2>1, <3>1, WaitProps DEF WorkerWaits
    <3>3. d' = [d EXCEPT !.pools[p] = q]
      BY <2>1, <3>1 DEF WorkerWaits
    <3> QED
      BY <3>2, <3>3
  <2>2. CASE WorkerLeaves(p)
    <3>1. PICK q : q = Leave(d.pools[p])
      OBVIOUS
    <3>2. PoolOk(q) /\ q.jobs = d.pools[p].jobs /\ q.active = d.pools[p].active
      BY <1>1, <2>2, <3>1, LeaveProps DEF WorkerLeaves
    <3>3. d' = [d EXCEPT !.pools[p] = q]
      BY <2>2, <3>1 DEF WorkerLeaves
    <3> QED
      BY <3>2, <3>3
  <2> QED
    BY <2>1, <2>2
<1>3. PICK pools : pools = [r \in Pools |-> IF r = p THEN q ELSE d.pools[r]]
  OBVIOUS
<1>4. pools = [r \in Pools |-> pools[r]]
  BY <1>3
<1>5. \A r \in Pools : /\ PoolOk(pools[r]) /\ pools[r].jobs = d.pools[r].jobs
                       /\ pools[r].active = d.pools[r].active
  BY <1>1, <1>2, <1>3
<1>6. d' = [d EXCEPT !.pools = pools]
  BY <1>1, <1>2, <1>3 DEF Typed
<1>7. TaskInv(d', store, approved, used.connections) /\ ClientsKept(d, d') /\ RestKept(d, d')
  BY <1>1, <1>4, <1>5, <1>6, PoolsStep
<1>8. store' = store /\ approved' = approved /\ used' = used
  BY DEF WorkerWaits, WorkerLeaves
<1> QED
  BY <1>7, <1>8, QuietStep

\* Every step of a worker.
LEMMA WorkerStep ==
  ASSUME IInv, Worker
  PROVE  IInv'
<1>1. CASE \E p \in Pools : WorkerTakes(p) \/ WorkerWaits(p) \/ WorkerLeaves(p)
  BY <1>1, WorkerTakesStep, WorkerRestsStep
<1>2. CASE \E t \in d.running : Work(t)
  <2>1. PICK t \in d.running : Work(t)
    BY <1>2
  <2>2. CASE \E yes \in BOOLEAN : PromptAnswered(t, yes)
    BY <2>2, PromptAnsweredStep
  <2>3. CASE \E outcome \in {"known", "failed"}, lost \in BOOLEAN : Identify(t, outcome, lost)
    BY <2>3, IdentifyStep
  <2>4. CASE \E fault \in BOOLEAN : Check(t, fault) \/ CheckEnd(t, fault)
    BY <2>4, CheckStep, CheckEndStep
  <2>5. CASE \E fault \in BOOLEAN : RevokeEnd(t, fault) \/ RefreshEnd(t, fault) \/ PromptEnd(t, fault)
    BY <2>5, EndStep
  <2>6. CASE \E fault \in BOOLEAN : Revoke(t, fault) \/ RefreshRead(t, fault)
    BY <2>6, RevokeStep, RefreshReadStep
  <2>7. CASE \E fault \in BOOLEAN : PromptRead(t, fault) \/ PromptWrite(t, fault) \/ PromptReread(t, fault)
    BY <2>7, PromptReadStep, PromptWriteStep, PromptRereadStep
  <2> QED
    BY <2>1, <2>2, <2>3, <2>4, <2>5, <2>6, <2>7 DEF Work
<1> QED
  BY <1>1, <1>2 DEF Worker

-----------------------------------------------------------------------------
(* The main thread                                                         *)

\* A step that leaves the store alone.
LEMMA StayStep ==
  ASSUME IInv, Good(d', store, approved, used.connections), store' = store, approved' = approved,
         used' \in UsedSet, used'.connections = used.connections
  PROVE  IInv'
  BY DEF IInv, RevokeWins

\* The seat's owner, or the daemon's phase, changes.
Phased(x, o, ph) == [x EXCEPT !.owner = o, !.phase = ph]

\* Neither matters to the tasks.
LEMMA PhasedProps ==
  ASSUME NEW st, NEW ap, NEW n \in Nat, NEW x, Good(x, st, ap, n), NEW o \in BOOLEAN,
         NEW ph \in {"run", "stopping", "gone", "exited"}, NEW y, y = Phased(x, o, ph)
  PROVE  Good(y, st, ap, n)
<1>1. Typed(x) /\ TaskInv(x, st, ap, n) /\ n <= n
  BY DEF Good, TaskInv
<1>2. /\ Typed(y) /\ y.clients = x.clients /\ y.inflight = x.inflight /\ y.failed = x.failed
      /\ y.running = x.running /\ y.ring = x.ring /\ y.pools = x.pools
  BY <1>1 DEF Typed, Phased
<1>3. \A c \in Clients : y.clients[c].conn <= n /\ Stays(x, y, n, c)
  BY <1>1, <1>2 DEF TaskInv, Stays
<1>4. TaskInv(y, st, ap, n)
  BY <1>1, <1>2, <1>3, Transfer
<1> QED
  BY <1>2, <1>4 DEF Good, Granted, Current, Warranted, Covered

\* A client connects.
LEMMA ConnectStep ==
  ASSUME IInv, NEW c \in Clients, Connect(c)
  PROVE  IInv'
<1>1. /\ Good(d, store, approved, used.connections) /\ TaskInv(d, store, approved, used.connections)
      /\ Typed(d) /\ used \in UsedSet /\ store' = store /\ approved' = approved
  BY DEF IInv, Good, TaskInv, Connect, Loop
<1>2. PICK n \in Nat, m \in Nat : n = used.connections /\ m = n + 1 /\ n <= m
  BY <1>1 DEF UsedSet
<1>3. used' \in UsedSet /\ used'.connections = m
  <2>1. PICK j \in Nat : j = used.trouble + 1
    BY <1>1 DEF UsedSet
  <2>2. used' = [used EXCEPT !.connections = m, !.trouble = j]
    BY <1>2, <2>1 DEF Connect
  <2> QED
    BY <1>1, <2>2 DEF UsedSet
<1>4. PICK k : k = [Absent EXCEPT !.conn = m]
  OBVIOUS
<1>5. k \in ClientSet /\ k.conn = m /\ k.granted = {}
  BY <1>4 DEF Absent, ClientSet
<1>6. /\ Typed(d') /\ d'.clients = [d.clients EXCEPT ![c] = k]
      /\ d'.running = d.running /\ d'.ring = d.ring /\ d'.pools = d.pools
      /\ d'.inflight = d.inflight /\ d'.failed = d.failed
  <2>1. d' = [d EXCEPT !.clients[c] = k, !.refs[m] = 1, !.valid[m] = TRUE]
    BY <1>2, <1>4 DEF Connect
  <2>2. [d.clients EXCEPT ![c] = k] \in [Clients -> ClientSet]
    BY <1>1, <1>5 DEF Typed
  <2> QED
    BY <1>1, <2>1, <2>2 DEF Typed
<1>7. \A b \in Clients : d'.clients[b] = IF b = c THEN k ELSE d.clients[b]
  BY <1>1, <1>6 DEF Typed
<1>8. \A b \in Clients : d'.clients[b].conn <= m /\ Stays(d, d', n, b)
  <2> SUFFICES ASSUME NEW b \in Clients
               PROVE  d'.clients[b].conn <= m /\ Stays(d, d', n, b)
    OBVIOUS
  <2>1. CASE b = c
    BY <1>2, <1>5, <1>7, <2>1 DEF Stays
  <2>2. CASE b # c
    <3>1. PICK j \in Nat : j = d.clients[b].conn
      BY <1>1 DEF Typed, ClientSet
    <3>2. j <= n
      BY <1>1, <1>2, <3>1 DEF TaskInv
    <3> QED
      BY <1>2, <1>7, <2>2, <3>1, <3>2 DEF Stays
  <2> QED
    BY <2>1, <2>2
<1>9. TaskInv(d', store, approved, m)
  <2>1. TaskInv(d, store, approved, n)
    BY <1>1, <1>2
  <2> QED
    BY <1>2, <1>6, <1>8, <2>1, Transfer
<1>10. Granted(d') /\ Current(d', store)
  <2>1. \A b \in Leases : b \in Clients
    BY DEF Clients
  <2>2. Granted(d')
    BY <1>1, <1>5, <1>6, <1>7, <2>1 DEF Good, Granted, Warranted
  <2>3. Current(d', store)
    BY <1>1, <1>5, <1>6, <1>7, <2>1 DEF Good, Current, Covered
  <2> QED
    BY <2>2, <2>3
<1> QED
  BY <1>1, <1>3, <1>9, <1>10 DEF IInv, Good, RevokeWins

\* Clients leave, or are removed once a refresh or an authorization has taken
\* too long or their connection is invalid.
LEMMA LeaveStep ==
  ASSUME IInv, (\E c \in Clients : Disconnect(c)) \/ (\E refresh \in BOOLEAN, late \in SUBSET Clients : Expire(refresh, late))
  PROVE  IInv'
<1>1. /\ Good(d, store, approved, used.connections) /\ TaskInv(d, store, approved, used.connections)
      /\ Granted(d) /\ used \in UsedSet /\ used.connections \in Nat
  BY DEF IInv, Good, UsedSet
<1>2. CASE \E c \in Clients : Disconnect(c)
  <2>1. PICK c \in Clients : Disconnect(c)
    BY <1>2
  <2>2. d' = RemoveClients(d, {c}) /\ store' = store /\ approved' = approved
    BY <2>1 DEF Disconnect, RemoveClient, Loop
  <2>3. used' \in UsedSet /\ used'.connections = used.connections
    BY <1>1, <2>1, TroubleProps DEF Disconnect
  <2>4. Good(d', store, approved, used.connections)
    BY <1>1, <2>2, RemoveProps
  <2> QED
    BY <2>2, <2>3, <2>4, StayStep
<1>3. CASE \E refresh \in BOOLEAN, late \in SUBSET Clients : Expire(refresh, late)
  <2>1. PICK refresh \in BOOLEAN, late \in SUBSET Clients : Expire(refresh, late)
    BY <1>3
  <2>2. PICK x : x = IF refresh THEN FailOpen(d) ELSE d
    OBVIOUS
  <2>3. PICK S : S = late \cup {c \in Clients : Broken(c)}
    OBVIOUS
  <2>4. d' = RemoveClients(x, S) /\ store' = store /\ approved' = approved /\ used' = used
    BY <2>1, <2>2, <2>3, Zenon DEF Expire, Loop
  <2>5. Good(x, store, approved, used.connections)
    <3>1. CASE refresh
      <4>1. TaskInv(x, store, approved, used.connections) /\ Bare(x)
        BY <1>1, <2>2, <3>1, FailOpenProps
      <4> QED
        BY <4>1, BareGrants DEF Good
    <3>2. CASE ~refresh
      BY <1>1, <2>2, <3>2
    <3> QED
      BY <3>1, <3>2
  <2>6. Good(d', store, approved, used.connections)
    BY <1>1, <2>4, <2>5, RemoveProps
  <2> QED
    BY <1>1, <2>4, <2>6, StayStep
<1> QED
  BY <1>2, <1>3

\* HELLO or AUTHORIZE
LEMMA RequestStep ==
  ASSUME IInv, NEW c \in Leases, NEW scopes \in Asked, NEW request \in BOOLEAN,
         Request(c, scopes, request)
  PROVE  IInv'
<1>1. Good(d, store, approved, used.connections) /\ used \in UsedSet /\ used.connections \in Nat
  BY DEF IInv, UsedSet
<1>2. PICK fault \in {NoFault, "submit"} :
        /\ used' = [used EXCEPT !.requests = @ + 1, !.trouble = IF fault = NoFault THEN @ ELSE @ + 1]
        /\ d' = BeginAuthorization(d, c, scopes, request, fault)
  BY DEF Request
<1>3. used' \in UsedSet /\ used'.connections = used.connections
  <2>1. PICK i \in Nat, j \in Nat :
          i = used.requests + 1 /\ j = IF fault = NoFault THEN used.trouble ELSE used.trouble + 1
    BY <1>1 DEF UsedSet
  <2>2. used' = [used EXCEPT !.requests = i, !.trouble = j]
    BY <1>2, <2>1
  <2> QED
    BY <1>1, <2>2 DEF UsedSet
<1>4. scopes \in SUBSET Scopes /\ d.clients[c].conn # 0 /\ store' = store /\ approved' = approved
  BY ScopeAssumption DEF Request, Loop, Connected
<1>5. Good(d', store, approved, used.connections)
  BY <1>1, <1>2, <1>4, BeginProps
<1> QED
  BY <1>3, <1>4, <1>5, StayStep

\* The clients' task changes: of what they hold nothing does.
LEMMA TaskBegins ==
  ASSUME NEW st, NEW ap, NEW n \in Nat, NEW x, Good(x, st, ap, n), NEW c \in Clients,
         NEW y, y = [x EXCEPT !.clients[c].task = "revoke"]
  PROVE  Good(y, st, ap, n)
<1>1. Typed(x) /\ x.clients[c] \in ClientSet
  BY DEF Good, TaskInv, Typed
<1>2. PICK k : k = [x.clients[c] EXCEPT !.task = "revoke"]
  OBVIOUS
<1>3. k \in ClientSet /\ Same(k, x.clients[c])
  BY <1>1, <1>2 DEF ClientSet, Same
<1>4. PICK v : v = x.valid
  OBVIOUS
<1>5. y = Put(x, c, k, v)
  BY <1>1, <1>2, <1>4 DEF Put, Typed
<1>6. MayBe(x, st, c, k)
  BY <1>3, SameMayBe
<1> QED
  BY <1>5, <1>6, SetClient

RevokeTask(x, c, apps, scopes) ==
  [NewTask(x, c, "revoke") EXCEPT !.apps = apps, !.scopes = scopes]

\* A revocation's task.
LEMMA RevokeTaskProps ==
  ASSUME NEW x, Typed(x), NEW c \in Revokers, x.clients[c].conn # 0, NEW apps \in SUBSET Apps,
         NEW scopes \in SUBSET Scopes,
         NEW t, t = RevokeTask(x, c, apps, scopes)
  PROVE  /\ t \in Tasks /\ t.kind = "revoke" /\ t.client = c /\ t.conn = x.clients[c].conn
         /\ ~Begun(t) /\ \A st, ap : Promise(t, st, ap)
<1>1. PICK k \in ClientSet : k = x.clients[c]
  BY DEF Typed, Clients
<1>2. t = [kind |-> "revoke", client |-> c, conn |-> k.conn, fresh |-> {"input"}, stage |-> "start",
           status |-> "ok", scopes |-> scopes, apps |-> apps, missing |-> {}, allowed |-> {}]
  BY <1>1 DEF NewTask, RevokeTask
<1>3. k.conn \in Nat \ {0}
  BY <1>1 DEF ClientSet
<1>4. t \in RevokeTasks
  BY <1>2, <1>3 DEF RevokeTasks, Stages, Statuses, Generations
<1>5. t.kind = "revoke" /\ t.client = c /\ t.conn = k.conn /\ t.stage = "start" /\ t.allowed = {}
  BY <1>2
<1>6. ~Begun(t) /\ \A st, ap : Promise(t, st, ap)
  BY <1>5 DEF Begun, Promise
<1>7. t \in Tasks
  BY <1>4 DEF Tasks
<1> QED
  BY <1>1, <1>5, <1>6, <1>7

\* handle_revoke_permissions
LEMMA RequestRevokeStep ==
  ASSUME IInv, NEW c \in Revokers, NEW apps \in SUBSET Apps, NEW scopes \in Withdrawn,
         RequestRevoke(c, apps, scopes)
  PROVE  IInv'
<1>1. /\ Good(d, store, approved, used.connections) /\ TaskInv(d, store, approved, used.connections)
      /\ Typed(d) /\ used \in UsedSet /\ used.connections \in Nat
  BY DEF IInv, Good, TaskInv, UsedSet
<1>2. used' \in UsedSet /\ used'.connections = used.connections
  BY <1>1, TroubleProps DEF RequestRevoke
<1>3. scopes \in SUBSET Scopes /\ d.clients[c].conn # 0 /\ store' = store /\ approved' = approved
      /\ c \in Clients
  BY ScopeAssumption DEF RequestRevoke, Loop, Connected, Clients
<1>4. PICK t : t = RevokeTask(d, c, apps, scopes)
  OBVIOUS
<1>5. /\ t \in Tasks /\ t.kind = "revoke" /\ t.client = c /\ t.conn = d.clients[c].conn
      /\ ~Begun(t) /\ Promise(t, store, approved)
  BY <1>1, <1>3, <1>4, RevokeTaskProps
<1>6. PICK x : x = Enqueue(d, t)
  OBVIOUS
<1>7. Accepts(d, t, FALSE) /\ d' = [x EXCEPT !.clients[c].task = "revoke"]
  BY <1>4, <1>6, Zenon DEF RequestRevoke, RevokeTask
<1>8. CanSubmit(d.pools[PoolOf(t)])
  BY <1>7 DEF Accepts
<1>9. Sound(d, t, store, approved, used.connections) /\ Apart(InFlight(d), {t})
  BY <1>1, <1>3, <1>5 DEF Sound, Identity, TaskInv, Apart, Alike
<1>10. TaskInv(x, store, approved, used.connections) /\ ClientsKept(d, x) /\ RestKept(d, x)
  BY <1>1, <1>5, <1>6, <1>8, <1>9, EnqueueProps
<1>11. Good(x, store, approved, used.connections)
  BY <1>1, <1>10, GoodKept
<1>12. Good(d', store, approved, used.connections)
  BY <1>1, <1>3, <1>7, <1>11, TaskBegins
<1> QED
  BY <1>2, <1>3, <1>12, StayStep

\* Tasks of an earlier generation say nothing of the store any more.
LEMMA StaleRestore ==
  ASSUME NEW st, NEW ap, NEW n, NEW x, TaskInv(x, st, ap, n), Stale(x, "permission"), NEW su
  PROVE  TaskInv(x, su, ap, n)
<1>1. \A t \in InFlight(x) : Promise(t, su, ap)
  BY DEF TaskInv, Sound, Promise, Stale
<1> QED
  BY <1>1, Restore

\* process_permission_notifications
LEMMA NotifiedStep ==
  ASSUME IInv, NEW fault \in Faults, Notified(fault)
  PROVE  IInv'
<1>1. /\ Good(d, store, approved, used.connections) /\ TaskInv(d, store, approved, used.connections)
      /\ Granted(d) /\ ~d.failed /\ used \in UsedSet /\ used.connections \in Nat
      /\ store \in StoreSet /\ approved' = approved /\ approved \in [Apps -> SUBSET Scopes] /\ RevokeWins
  BY DEF IInv, Good, UsedSet, Notified, Loop
<1>2. used' \in UsedSet /\ used'.connections = used.connections
  BY <1>1, FaultProps DEF Notified, MainFault
<1>3. PICK su : su = store'
  OBVIOUS
<1>4. su \in StoreSet /\ su.allowed = store.allowed
  BY <1>1, <1>3 DEF Notified, StoreSet
<1>5. Good(d', su, approved, used.connections)
  <2>1. CASE fault = "late"
    <3>1. d' = FailOpen(d)
      BY <2>1 DEF Notified
    <3>2. TaskInv(d', store, approved, used.connections) /\ Bare(d') /\ Stale(d', "permission")
      BY <1>1, <3>1, FailOpenProps
    <3>3. TaskInv(d', su, approved, used.connections)
      BY <3>2, StaleRestore
    <3> QED
      BY <3>2, <3>3, BareGrants DEF Good
  <2>2. CASE fault # "late"
    <3>1. PICK x : x = Advance(d, "permission")
      OBVIOUS
    <3>2. d' = Refresh(x, fault)
      BY <2>2, <3>1 DEF Notified
    <3>3. TaskInv(x, store, approved, used.connections) /\ ClientsKept(d, x) /\ RestKept(d, x)
          /\ \A t \in InFlight(x) : "permission" \notin t.fresh
      BY <1>1, <3>1, AdvanceProps
    <3>4. Stale(x, "permission") /\ Granted(x)
      BY <1>1, <3>3 DEF Stale, Granted, Warranted, ClientsKept, RestKept
    <3>5. TaskInv(x, su, approved, used.connections)
      BY <3>3, <3>4, StaleRestore
    <3> QED
      BY <1>1, <3>2, <3>4, <3>5, RefreshProps
  <2> QED
    BY <2>1, <2>2
<1> QED
  BY <1>1, <1>2, <1>3, <1>4, <1>5 DEF IInv, RevokeWins

\* process_daemon_commands
LEMMA CommandStep ==
  ASSUME IInv, NEW fault \in Faults, Command(fault)
  PROVE  IInv'
<1>1. /\ Good(d, store, approved, used.connections) /\ TaskInv(d, store, approved, used.connections)
      /\ used \in UsedSet /\ used.connections \in Nat /\ d.ring # <<>>
      /\ store' = store /\ approved' = approved
  BY DEF IInv, Good, UsedSet, Command, Loop
<1>2. used' \in UsedSet /\ used'.connections = used.connections
  BY <1>1, FaultProps DEF Command, MainFault
<1>3. PICK t, x : t = Head(d.ring) /\ x = [d EXCEPT !.ring = Tail(@)]
  OBVIOUS
<1>4. /\ TaskInv(x, store, approved, used.connections) /\ ClientsKept(d, x) /\ RestKept(d, x)
      /\ t \in Tasks /\ Sound(x, t, store, approved, used.connections) /\ Apart(InFlight(x), {t})
      /\ t.kind = "identify" => t.status \in {"known", "failed"}
  <2>1. t = Head(d.ring)
    BY <1>3
  <2>2. x = [d EXCEPT !.ring = Tail(@)]
    BY <1>3
  <2>3. TaskInv(d, store, approved, used.connections)
    BY <1>1
  <2>4. d.ring # <<>>
    BY <1>1
  <2> QED
    BY <2>1, <2>2, <2>3, <2>4, PopTask
<1>5. Good(x, store, approved, used.connections)
  BY <1>1, <1>4, GoodKept
<1>6. PICK y : y = Complete(x, t, fault)
  OBVIOUS
<1>7. Good(y, store, approved, used.connections)
  BY <1>1, <1>4, <1>5, <1>6, CompleteProps
<1>8. d' = IF t.kind = "prompt" THEN y ELSE FreeTask(y, t)
  BY <1>3, <1>6, Zenon DEF Command
<1>9. PICK r : r = [y.refs EXCEPT ![t.conn] = @ - 1]
  OBVIOUS
<1>10. d' = y \/ d' = [y EXCEPT !.refs = r]
  BY <1>8, <1>9 DEF FreeTask
<1>11. CASE d' = y
  BY <1>1, <1>2, <1>7, <1>11, StayStep
<1>12. CASE d' = [y EXCEPT !.refs = r]
  <2>1. Good(d', store, approved, used.connections)
    BY <1>1, <1>7, <1>12, CountProps
  <2> QED
    BY <1>1, <1>2, <2>1, StayStep
<1> QED
  BY <1>10, <1>11, <1>12

\* fence_permission_output, as the seat changes hands or the daemon stops
LEMMA FenceProps ==
  ASSUME IInv, NEW x, x = Fence(d)
  PROVE  Good(x, store, approved, used.connections) /\ Typed(x)
<1>1. Good(d, store, approved, used.connections) /\ TaskInv(d, store, approved, used.connections)
  BY DEF IInv, Good
<1>2. x = Advance(d, "input")
  BY DEF Fence
<1>3. TaskInv(x, store, approved, used.connections) /\ ClientsKept(d, x) /\ RestKept(d, x)
  BY <1>1, <1>2, AdvanceProps
<1> QED
  BY <1>1, <1>3, GoodKept DEF TaskInv

\* set_active_input_owner
LEMMA SeatChangesStep ==
  ASSUME IInv, SeatChanges
  PROVE  IInv'
<1>0. used \in UsedSet /\ used.connections \in Nat /\ store' = store /\ approved' = approved
  BY DEF IInv, UsedSet, SeatChanges, Loop
<1>1. used' \in UsedSet /\ used'.connections = used.connections
  BY <1>0, TroubleProps DEF SeatChanges
<1>2. PICK x : x = Fence(d)
  OBVIOUS
<1>3. Good(x, store, approved, used.connections) /\ Typed(x)
  BY <1>2, FenceProps
<1>4. PICK o \in BOOLEAN, ph \in {"run", "stopping", "gone", "exited"} : o = ~x.owner /\ ph = x.phase
  BY <1>3 DEF Typed
<1>5. d' = [x EXCEPT !.owner = ~@]
  BY <1>2, Zenon DEF SeatChanges
<1>6. d' = Phased(x, o, ph)
  BY <1>3, <1>4, <1>5 DEF Phased, Typed
<1>7. Good(d', store, approved, used.connections)
  BY <1>0, <1>3, <1>6, PhasedProps
<1> QED
  BY <1>0, <1>1, <1>7, StayStep

\* The loop ends and the pools are told to stop.
LEMMA StopStep ==
  ASSUME IInv, Stop
  PROVE  IInv'
<1>0. used \in UsedSet /\ used.connections \in Nat /\ store' = store /\ approved' = approved
  BY DEF IInv, UsedSet, Stop
<1>1. used' \in UsedSet /\ used'.connections = used.connections
  BY <1>0, TroubleProps DEF Stop
<1>2. PICK x : x = Fence(d)
  OBVIOUS
<1>3. Good(x, store, approved, used.connections) /\ Typed(x) /\ TaskInv(x, store, approved, used.connections)
      /\ \A p \in Pools : PoolOk(x.pools[p])
  <2>1. Good(x, store, approved, used.connections) /\ Typed(x)
    BY <1>2, FenceProps
  <2> QED
    BY <2>1 DEF Good, TaskInv, Shape, PoolInv
<1>4. PICK pools : pools = [p \in Pools |-> RequestStop(x.pools[p])]
  OBVIOUS
<1>5. \A p \in Pools : /\ PoolOk(pools[p]) /\ pools[p].jobs = x.pools[p].jobs
                       /\ pools[p].active = x.pools[p].active
  BY <1>3, <1>4, RequestStopProps
<1>6. pools = [p \in Pools |-> pools[p]]
  BY <1>4
<1>7. PICK y : y = [x EXCEPT !.pools = pools]
  OBVIOUS
<1>8. TaskInv(y, store, approved, used.connections) /\ ClientsKept(x, y) /\ RestKept(x, y)
  BY <1>3, <1>5, <1>6, <1>7, PoolsStep
<1>9. Good(y, store, approved, used.connections) /\ Typed(y)
  BY <1>3, <1>8, GoodKept DEF TaskInv
<1>10. PICK o \in BOOLEAN : o = x.owner
  BY <1>3 DEF Typed
<1>11. d' = [x EXCEPT !.phase = "stopping", !.pools = pools]
  BY <1>2, <1>4, Zenon DEF Stop
<1>12. d' = Phased(y, o, "stopping")
  BY <1>3, <1>7, <1>10, <1>11 DEF Phased, Typed
<1>13. Good(d', store, approved, used.connections)
  BY <1>0, <1>9, <1>12, PhasedProps
<1> QED
  BY <1>0, <1>1, <1>13, StayStep

\* The queues and the ring are emptied.
Emptied(x) ==
  [x EXCEPT !.phase = "gone", !.ring = <<>>,
            !.pools = [p \in Pools |-> [x.pools[p] EXCEPT !.jobs = <<>>]]]

\* An emptied daemon has the tasks its workers run, and no other.
LEMMA EmptiedProps ==
  ASSUME NEW st, NEW ap, NEW n, NEW x, Good(x, st, ap, n), NEW y, y = Emptied(x)
  PROVE  Good(y, st, ap, n)
<1>1. Typed(x) /\ Shape(x) /\ TaskInv(x, st, ap, n) /\ \A p \in Pools : PoolInv(x, p)
  BY DEF Good, TaskInv, Shape
<1>2. <<>> \in Seq(Tasks) /\ Len(<<>>) = 0 /\ DOMAIN <<>> = {}
  OBVIOUS
<1>3. PICK pools : pools = [p \in Pools |-> [x.pools[p] EXCEPT !.jobs = <<>>]]
  OBVIOUS
<1>4. \A p \in Pools : /\ PoolOk(pools[p]) /\ pools[p].jobs = <<>>
                       /\ pools[p].active = x.pools[p].active
  <2> SUFFICES ASSUME NEW p \in Pools
               PROVE  /\ PoolOk(pools[p]) /\ pools[p].jobs = <<>>
                      /\ pools[p].active = x.pools[p].active
    OBVIOUS
  <2>1. PoolOk(x.pools[p]) /\ x.pools[p].jobs \in Seq(Tasks)
    BY <1>1 DEF PoolInv, PoolOk, PoolSet
  <2>2. PICK jobs \in Seq(Tasks) : jobs = <<>> /\ Len(jobs) <= Len(x.pools[p].jobs)
    <3>1. Len(x.pools[p].jobs) \in Nat
      BY <2>1, LenProperties
    <3>2. Len(<<>>) <= Len(x.pools[p].jobs)
      BY <1>2, <3>1
    <3> QED
      BY <1>2, <3>2
  <2>3. PICK o, q : o = x.pools[p] /\ q = pools[p]
    OBVIOUS
  <2>4. q = [o EXCEPT !.jobs = jobs]
    BY <1>3, <2>2, <2>3
  <2>5. PoolOk(q) /\ q.jobs = jobs /\ q.active = o.active
    <3>1. PoolOk(o) /\ Len(jobs) <= Len(o.jobs)
      BY <2>1, <2>2, <2>3
    <3> QED
      BY <2>4, <3>1, RejobProps
  <2> QED
    BY <2>2, <2>3, <2>5
<1>5. y = [x EXCEPT !.phase = "gone", !.ring = <<>>, !.pools = pools]
  BY <1>3 DEF Emptied
<1>6. /\ Typed(y) /\ y.clients = x.clients /\ y.running = x.running /\ y.ring = <<>> /\ y.pools = pools
      /\ y.inflight = x.inflight /\ y.failed = x.failed
  <2>1. pools \in [Pools -> PoolSet]
    BY <1>3, <1>4 DEF PoolOk
  <2> QED
    BY <1>1, <1>2, <1>5, <2>1 DEF Typed
<1>7. Listed(y.ring) = {} /\ \A p \in Pools : Listed(y.pools[p].jobs) = {}
  BY <1>2, <1>4, <1>6 DEF Listed
<1>8. InFlight(y) \subseteq InFlight(x)
  BY <1>6, <1>7 DEF InFlight
<1>9. \A p \in Pools : PoolInv(y, p)
  <2> SUFFICES ASSUME NEW p \in Pools
               PROVE  PoolInv(y, p)
    OBVIOUS
  <2>1. Runs(y, p) = Runs(x, p)
    BY <1>6 DEF Runs
  <2>2. Cardinality(Runs(y, p)) <= y.pools[p].active /\ PoolOk(y.pools[p])
    BY <1>1, <1>4, <1>6, <2>1 DEF PoolInv
  <2>3. DOMAIN y.pools[p].jobs = {}
    BY <1>2, <1>4, <1>6
  <2> QED
    BY <2>2, <2>3 DEF PoolInv
<1>10. Once(y)
  <2>1. "identify" \in Pools /\ Lone(x.running)
    BY <1>1 DEF Pools, Shape, Once
  <2>2. y.pools["identify"].jobs = <<>>
    BY <1>4, <1>6, <2>1
  <2>3. Single(<<>>)
    BY <1>2 DEF Single
  <2> QED
    BY <1>6, <1>7, <2>1, <2>2, <2>3 DEF Once, Apart
<1>11. Shape(y)
  BY <1>1, <1>6, <1>7, <1>9, <1>10 DEF Shape
<1>12. \A t \in InFlight(y) : Sound(y, t, st, ap, n)
  <2> SUFFICES ASSUME NEW t \in InFlight(y)
               PROVE  Sound(y, t, st, ap, n)
    OBVIOUS
  <2>1. Sound(x, t, st, ap, n)
    BY <1>1, <1>8 DEF TaskInv
  <2> QED
    BY <1>6, <2>1 DEF Sound
<1>13. TaskInv(y, st, ap, n)
  BY <1>1, <1>6, <1>11, <1>12 DEF TaskInv
<1> QED
  BY <1>6, <1>13 DEF Good, Granted, Current, Warranted, Covered

\* Tasks are freed: only references change.
LEMMA FreeAllProps ==
  ASSUME NEW st, NEW ap, NEW n \in Nat, NEW x, Good(x, st, ap, n), NEW tasks,
         NEW y, y = FreeAll(x, tasks)
  PROVE  Good(y, st, ap, n)
<1>1. PICK r : r = [k \in Connections |-> x.refs[k] - Cardinality({i \in DOMAIN tasks : Refers(tasks[i]) /\ tasks[i].conn = k})]
  OBVIOUS
<1>2. y = [x EXCEPT !.refs = r]
  BY <1>1, Zenon DEF FreeAll
<1> QED
  BY <1>2, CountProps

\* The daemon ends in order.
LEMMA FinishStep ==
  ASSUME IInv, Finish
  PROVE  IInv'
<1>0. used \in UsedSet /\ used.connections \in Nat /\ store' = store /\ approved' = approved /\ used' = used
      /\ Good(d, store, approved, used.connections)
  BY DEF IInv, UsedSet, Finish
<1>1. PICK jobs, S, commands :
        /\ jobs = d.pools["identify"].jobs \o d.pools["permission"].jobs \o d.pools["prompt"].jobs
        /\ S = {c \in Clients : Connected(d, c)}
        /\ commands = SelectSeq(d.ring, LAMBDA t : t.kind # "prompt")
  OBVIOUS
<1>2. PICK x : x = FreeAll(d, jobs)
  OBVIOUS
<1>3. PICK y : y = RemoveClients(x, S)
  OBVIOUS
<1>4. PICK z : z = FreeAll(y, commands)
  OBVIOUS
<1>5. Good(z, store, approved, used.connections)
  <2>1. Good(x, store, approved, used.connections)
    BY <1>0, <1>2, FreeAllProps
  <2>2. Good(y, store, approved, used.connections)
    BY <1>0, <1>3, <2>1, RemoveProps
  <2> QED
    BY <1>0, <1>4, <2>2, FreeAllProps
<1>6. d' = Emptied(z)
  BY <1>1, <1>2, <1>3, <1>4, Zenon DEF Finish, Emptied
<1>7. Good(d', store, approved, used.connections)
  BY <1>5, <1>6, EmptiedProps
<1> QED
  BY <1>0, <1>7, StayStep

\* A daemon with nothing in flight and nothing granted.
Blank(x, n) ==
  /\ Typed(x) /\ x.running = {} /\ x.ring = <<>> /\ x.pools = [p \in Pools |-> IdlePool]
  /\ \A c \in Clients : x.clients[c].granted = {} /\ x.clients[c].conn <= n

\* It is as it should be.
LEMMA BlankGood ==
  ASSUME NEW n, NEW x, Blank(x, n), NEW st, NEW ap
  PROVE  Good(x, st, ap, n)
<1>1. <<>> \in Seq(Tasks) /\ Len(<<>>) = 0 /\ DOMAIN <<>> = {}
  OBVIOUS
<1>2. Threads \in Nat /\ MaxJobs \in Nat
  BY PoolAssumption
<1>3. IdlePool \in PoolSet /\ IdlePool.jobs = <<>> /\ IdlePool.active = 0
      /\ IdlePool.waiting = Threads /\ IdlePool.awake = 0 /\ IdlePool.left = 0
  BY <1>1, <1>2 DEF IdlePool, PoolSet
<1>4. PoolOk(IdlePool)
  <2>1. Sizes(Threads, 0, 0, 0, 0, IdlePool.stopping)
    BY <1>2 DEF Sizes
  <2> QED
    BY <1>1, <1>3, <2>1, PoolNumbers
<1>5. \A p \in Pools : x.pools[p] = IdlePool
  BY DEF Blank
<1>6. Listed(x.ring) = {} /\ \A p \in Pools : Listed(x.pools[p].jobs) = {}
  BY <1>1, <1>3, <1>5 DEF Listed, Blank
<1>7. InFlight(x) = {}
  BY <1>6 DEF InFlight, Blank
<1>8. \A p \in Pools : PoolInv(x, p)
  <2> SUFFICES ASSUME NEW p \in Pools
               PROVE  PoolInv(x, p)
    OBVIOUS
  <2>1. Runs(x, p) = {}
    BY DEF Runs, Blank
  <2>2. Cardinality(Runs(x, p)) = 0
    BY <2>1, FS_EmptySet
  <2>3. PoolOk(x.pools[p]) /\ DOMAIN x.pools[p].jobs = {} /\ x.pools[p].active = 0
    BY <1>1, <1>3, <1>4, <1>5
  <2> QED
    BY <2>2, <2>3 DEF PoolInv
<1>9. Once(x)
  <2>1. x.pools["identify"].jobs = <<>>
    BY <1>3, <1>5 DEF Pools
  <2>2. Single(<<>>)
    BY <1>1 DEF Single
  <2> QED
    BY <1>6, <2>1, <2>2 DEF Once, Apart, Lone, Listed, Blank
<1>10. IsFiniteSet(x.running)
  BY FS_EmptySet DEF Blank
<1>11. Shape(x)
  BY <1>6, <1>8, <1>9, <1>10 DEF Shape
<1>12. TaskInv(x, st, ap, n)
  BY <1>7, <1>11 DEF TaskInv, Blank
<1>13. Bare(x)
  BY DEF Bare, Blank, Clients
<1> QED
  BY <1>12, <1>13, BareGrants DEF Good

\* The process exits.
LEMMA ExitStep ==
  ASSUME IInv, Exit
  PROVE  IInv'
<1>0. used \in UsedSet /\ used.connections \in Nat /\ store' = store /\ approved' = approved /\ used' = used
  BY DEF IInv, UsedSet, Exit
<1>1. Absent \in ClientSet /\ Absent.conn = 0 /\ Absent.granted = {}
  BY DEF Absent, ClientSet
<1>2. /\ d'.clients = [c \in Clients |-> Absent] /\ d'.running = {} /\ d'.ring = <<>>
      /\ d'.pools = [p \in Pools |-> IdlePool]
  BY DEF Exit, InitD
<1>3. Typed(d')
  <2>1. IdlePool \in PoolSet
    BY PoolAssumption DEF IdlePool, PoolSet
  <2>2. [c \in Clients |-> Absent] \in [Clients -> ClientSet] /\ [p \in Pools |-> IdlePool] \in [Pools -> PoolSet]
    BY <1>1, <2>1
  <2>3. <<>> \in Seq(Tasks) /\ {} \in SUBSET Tasks
    OBVIOUS
  <2> QED
    BY <2>2, <2>3 DEF Exit, InitD, Typed
<1>4. Blank(d', used.connections)
  BY <1>0, <1>1, <1>2, <1>3 DEF Blank
<1>5. Good(d', store, approved, used.connections)
  BY <1>4, BlankGood
<1> QED
  BY <1>0, <1>5, StayStep

-----------------------------------------------------------------------------
(* The specification                                                       *)

\* There is an order of the clients to connect in.
LEMMA FirstProps ==
  /\ Cardinality(Clients) \in Nat
  /\ First \in [Clients -> 1..Cardinality(Clients)]
<1>1. IsFiniteSet(Clients)
  BY ClientAssumption
<1>2. PICK n \in Nat : n = Cardinality(Clients)
  BY <1>1, FS_CardinalityType
<1>3. IsFiniteSet(1..n) /\ Cardinality(1..n) = n
  <2>1. 1 \in Int /\ n \in Int /\ n - 1 + 1 = n /\ (n < 1 => n = 0)
    BY <1>2
  <2> QED
    BY <2>1, FS_Interval
<1>4. ExistsBijection(Clients, 1..n)
  BY <1>1, <1>2, <1>3, FS_SameCardinalityBij
<1>5. \E order \in Injection(Clients, 1..n) : TRUE
  BY <1>4 DEF ExistsBijection, Bijection
<1>6. First \in Injection(Clients, 1..n)
  BY <1>2, <1>5 DEF First
<1> QED
  BY <1>2, <1>6 DEF Injection

\* The invariant holds at first.
LEMMA InitIInv ==
  ASSUME Init
  PROVE  IInv
<1>1. PICK n \in Nat : n = Cardinality(Clients)
  BY FirstProps
<1>2. \A c \in Clients : First[c] \in Nat /\ First[c] <= n
  BY <1>1, FirstProps
<1>3. \A c \in Clients : /\ d.clients[c] \in ClientSet /\ d.clients[c].granted = {}
                         /\ d.clients[c].conn <= n
  <2> SUFFICES ASSUME NEW c \in Clients
               PROVE  d.clients[c] \in ClientSet /\ d.clients[c].granted = {} /\ d.clients[c].conn <= n
    OBVIOUS
  <2>1. d.clients[c] = [Absent EXCEPT !.conn = First[c]]
    BY DEF Init, InitD
  <2> QED
    BY <1>2, <2>1 DEF Absent, ClientSet
<1>4. Typed(d)
  <2>1. IdlePool \in PoolSet
    BY PoolAssumption DEF IdlePool, PoolSet
  <2>2. d.clients \in [Clients -> ClientSet] /\ [p \in Pools |-> IdlePool] \in [Pools -> PoolSet]
    <3>1. DOMAIN d.clients = Clients /\ d.clients = [c \in Clients |-> d.clients[c]]
      BY DEF Init, InitD
    <3> QED
      BY <1>3, <2>1, <3>1
  <2>3. <<>> \in Seq(Tasks) /\ {} \in SUBSET Tasks
    OBVIOUS
  <2>4. d = InitD
    BY DEF Init
  <2> QED
    BY <2>2, <2>3, <2>4 DEF InitD, Typed
<1>5. Blank(d, n)
  BY <1>3, <1>4 DEF Blank, Init, InitD
<1>6. Good(d, store, approved, n)
  BY <1>5, BlankGood
<1>7. used \in UsedSet /\ used.connections = n
  BY <1>1 DEF Init, UsedSet
<1>8. store \in StoreSet /\ approved \in [Apps -> SUBSET Scopes] /\ RevokeWins
  BY DEF Init, StoreSet, RevokeWins
<1> QED
  BY <1>6, <1>7, <1>8 DEF IInv

\* Every step keeps it.
LEMMA NextIInv ==
  ASSUME IInv, [Next]_vars
  PROVE  IInv'
<1>1. CASE UNCHANGED vars
  BY <1>1 DEF vars, IInv, RevokeWins
<1>2. CASE Worker
  BY <1>2, WorkerStep
<1>3. CASE \E apps \in SUBSET Apps \ {{}}, scopes \in Withdrawn : RevokedElsewhere(apps, scopes)
  BY <1>3, RevokedElsewhereStep
<1>4. CASE Main
  <2>1. CASE \E c \in Clients : Connect(c) \/ Disconnect(c)
    BY <2>1, ConnectStep, LeaveStep
  <2>2. CASE \E c \in Leases, scopes \in Asked, request \in BOOLEAN : Request(c, scopes, request)
    BY <2>2, RequestStep
  <2>3. CASE \E c \in Revokers, apps \in SUBSET Apps \ {{}}, scopes \in Withdrawn : RequestRevoke(c, apps, scopes)
    BY <2>3, RequestRevokeStep
  <2>4. CASE \E fault \in Faults : Notified(fault) \/ Command(fault)
    BY <2>4, NotifiedStep, CommandStep
  <2>5. CASE \E refresh \in BOOLEAN, late \in SUBSET Clients : Expire(refresh, late)
    BY <2>5, LeaveStep
  <2>6. CASE SeatChanges \/ Stop \/ Finish \/ Exit
    BY <2>6, SeatChangesStep, StopStep, FinishStep, ExitStep
  <2> QED
    BY <1>4, <2>1, <2>2, <2>3, <2>4, <2>5, <2>6 DEF Main
<1> QED
  BY <1>1, <1>2, <1>3, <1>4 DEF Next

\* The invariant: every task in flight, in a queue, in a worker or in the ring,
\* says of the store what is so, or is of an earlier generation or about to be
\* overtaken by a notification.
THEOREM InductiveInvariant == Spec => []IInv
<1>1. Init => IInv
  BY InitIInv
<1>2. IInv /\ [Next]_vars => IInv'
  BY NextIInv
<1> QED
  BY <1>1, <1>2, PTL DEF Spec

\* The store allows only what the user approved after it was last revoked: the
\* worker of a prompt answered before that does not write (the generation that
\* ksp_store_grant_if_generation_cancelled compares).
THEOREM ConcurrentRevokeWins == Spec => []RevokeWins
<1>1. IInv => RevokeWins
  BY DEF IInv
<1> QED
  BY <1>1, InductiveInvariant, PTL

\* A client holds what the store no longer allows only while a notification is
\* unread, or it is paused for the refresh in flight: no late answer of a check,
\* a prompt or a refresh grants what was revoked meanwhile.
THEOREM GrantsAreCurrent == Spec => []StaleGrantsKnown
<1>1. IInv => StaleGrantsKnown
  BY DEF IInv, Good, Granted, Current, Warranted, Covered, StaleGrantsKnown
<1> QED
  BY <1>1, InductiveInvariant, PTL

\* In each of the three pools every job has a thread coming for it, whatever the
\* number of threads, clients and tasks (worker_pool.c).
THEOREM JobsHaveWorkers == Spec => []NoJobForgotten
<1>1. IInv => NoJobForgotten
  BY DEF IInv, Good, TaskInv, Shape, PoolInv, PoolOk, NoJobForgotten
<1> QED
  BY <1>1, InductiveInvariant, PTL
=============================================================================
