------------------------- MODULE OutputQueueProofs -------------------------
(***************************************************************************)
(* Proofs about OutputQueue, for any number of connections, users and keys *)
(* and any sizes of the queues: the two views of the ledger agree, nothing *)
(* foreign is written or held, and no hold outlives its connection, its    *)
(* hook or its source key.                                                 *)
(***************************************************************************)
EXTENDS OutputQueue, TLAPS, NaturalsInduction, WellFoundedInduction, SequenceTheorems

-----------------------------------------------------------------------------
(* Types.  Actions and events are typed by the generation g and the user u *)
(* of the seat under which they may still take effect.                     *)

Owners == [conn : Conns \cup {None}, hook : BOOLEAN, src : Keys \cup {None}, target : Nat]
View == [held : SUBSET (Owners \X (Keys \cup {None})), target : Nat]

Scoped == {"synth", "replay", "suppressed"}
Wipes == {"all", "generic", "recreate"}
Safety == Wipes \cup {"release", "end"}

Actions == [type : Scoped \cup Safety \cup {"marker", "none"}, gen : Nat, owner : Owners,
            key : Keys \cup {None}, press : BOOLEAN]

\* A scoped action belongs to a generation, and the current one's synthetic
\* output to the user of the seat.
Current(a, g, u) == a.type = "synth" /\ a.gen = g => User[a.owner.conn] = u

Queued(g, u) ==
  {a \in Actions : /\ a.type \in Scoped \cup Safety
                   /\ a.gen <= g /\ (a.gen = 0) = (a.type \in Safety)
                   /\ a.type = "synth" => a.owner.conn \in Conns
                   /\ a.owner.src # None => a.owner.target # 0
                   /\ Current(a, g, u)}

Sent(g, u) ==
  {a \in Actions : /\ a.type = "synth" /\ a.gen \in 1..g
                   /\ a.owner.conn \in Conns /\ a.owner = Sender(a.owner.conn)
                   /\ Current(a, g, u)}

Markers == {Marker(c) : c \in Conns}

Packets(g) ==
  {a \in Actions : /\ a.type = "replay" /\ a.gen \in 1..g /\ a.key \in Keys
                   /\ a.owner = Target(a.owner.target) /\ a.owner.target # 0}

Events(g, u) ==
  {e \in [origin : {"physical", "synthetic"}, action : Actions, subs : SUBSET Conns,
          stage : {"call", "pass", "block", "modify"}, flushed : BOOLEAN,
          mod : Conns \cup {None}, press : BOOLEAN] :
     /\ e.action \in (IF e.origin = "physical" THEN Packets(g) ELSE Sent(g, u))
     /\ e.stage = "modify" => e.mod \in e.subs
     /\ e.action.gen = g => \A c \in e.subs : User[c] = u}

Nestings(g, u) ==
  {NoNested} \cup
  {t \in [conn : Conns, gen : 1..g, key : Keys, stage : {"queued", "ran"}, orphan : BOOLEAN] :
     t.gen = g => User[t.conn] = u}

Ops == {"sync", "grab", "class", "release", "marker", "generic", "flush", "wait", "discard",
        "all", "seat"}
StepType == [op : Ops, conn : Conns \cup {None}, hook : BOOLEAN, user : Users \cup {None}]

TypeOK ==
  /\ clients \subseteq Conns /\ unused \subseteq Conns /\ hooks \subseteq clients
  /\ clients \cap unused = {} /\ overtaken \subseteq Conns
  /\ owned \in BOOLEAN /\ grabbed \in BOOLEAN /\ failOpen \in BOOLEAN /\ refused \in BOOLEAN
  /\ seat \in Users \cup {None} /\ gen \in Nat \ {0}
  /\ todo \in Seq(StepType)
  /\ owners \in [Conns -> {"gone", "open", "hooked"}]
  /\ queue \in Seq(Queued(gen, seat))
  /\ seq \in [stage : {"idle", "popped", "writing"}, action : Actions]
  /\ synthq \in Seq(Sent(gen, seat) \cup Markers)
  /\ lane \in Seq(Events(gen, seat))
  /\ nested \in Nestings(gen, seat)
  /\ device \in {"up", "gone"}
  /\ enqueued \in View /\ applied \in View
  /\ down \subseteq Keys

\* What the sequencer has popped was queued.
PoppedOK == seq.stage # "idle" => seq.action \in Queued(gen, seat)

-----------------------------------------------------------------------------
(* The handler's remaining steps.                                          *)

Has(op) == \E i \in 1..Len(todo) : todo[i].op = op

\* A step that only the last of its handler can be.
LastOps == {"seat", "marker", "release", "generic"}

\* How the steps of a handler may follow each other.
Follows(x, y) ==
  /\ x \notin LastOps
  /\ ~(x = "class" /\ y = "sync")
  /\ ~(x = "all" /\ y \in {"all", "wait"})

TodoOrder ==
  /\ \A i, j \in 1..Len(todo) : i < j => Follows(todo[i].op, todo[j].op)
  /\ Has("wait") => Has("all")
  /\ Has("seat") => seat = None
  /\ \A i \in 1..Len(todo) : todo[i].op \in {"marker", "release"} => todo[i].conn \in Conns

\* The step that releases what connection c's hook holds, and the one that
\* orders the release of everything of c.
Releasing(c) == \E i \in 1..Len(todo) : todo[i].op = "release" /\ todo[i].conn = c
Closing(c) == \E i \in 1..Len(todo) : todo[i].op = "marker" /\ todo[i].conn = c

\* The queue's owners follow the clients, at the latest with the next sync.
OwnersFollow ==
  /\ ~Has("sync") => \A c \in Conns :
       owners[c] = IF c \in hooks THEN "hooked" ELSE IF c \in clients THEN "open" ELSE "gone"
  /\ \A c \in Conns : owners[c] # "gone" => c \notin unused

-----------------------------------------------------------------------------
(* Nothing foreign.                                                        *)

\* The seat changes hands, and RELEASE_ALL is not queued yet.
Between == seat = None /\ Fencing

\* What is being written is the seat's, or the new owner waits for it.
WritesOwn ==
  seq.stage = "writing" /\ seq.action.type = "synth" =>
    IF seat = None THEN Has("wait") ELSE User[seq.action.owner.conn] = seat

\* RELEASE_ALL is queued, or being written.
AllPending ==
  \/ \E i \in 1..Len(queue) : queue[i].type = "all"
  \/ seq.stage # "idle" /\ seq.action.type = "all"

HoldsOwn ==
  ~refused /\ ~Between =>
    /\ \A h \in enqueued.held : User[h[1].conn] = seat
    /\ \A h \in applied.held : User[h[1].conn] = seat \/ AllPending

-----------------------------------------------------------------------------
(* Revoked hooks.                                                          *)

\* The class's holds are about to be released.
ClassEnds == Has("class") /\ Active = {} /\ owned

\* A hook of the seat that can still make holds is known to own some.
OwnedFollows ==
  \A c \in Conns : User[c] = seat =>
    /\ owners[c] = "hooked" => owned \/ (Has("class") /\ c \in hooks)
    /\ c \in hooks => owned \/ Has("class")

\* A hook that lost its subscription while the queue still takes its output has
\* a release coming.
RevokedEnds ==
  \A c \in Conns :
    owners[c] = "hooked" /\ User[c] = seat /\ c \in clients \ hooks =>
      Releasing(c) \/ ClassEnds

HooksHold ==
  ~refused => \A h \in enqueued.held : h[1].hook =>
    /\ h[1].conn \notin unused
    /\ h[1].conn \in clients \ hooks => Releasing(h[1].conn) \/ ClassEnds

-----------------------------------------------------------------------------
(* Closed connections.                                                     *)

Closed == Conns \ (clients \cup unused)

\* The release marker of c is queued behind position i.
MarkedAfter(c, i) == \E j \in 1..Len(synthq) : j > i /\ synthq[j] = Marker(c)

\* A closed connection that the queue still knows has its marker coming.
ClosedKnown == \A c \in Closed : owners[c] # "gone" => Closing(c)

\* Every batch of a closed connection has the connection's marker behind it.
BatchesMarked ==
  \A c \in Closed \ overtaken :
    \/ Closing(c)
    \/ /\ \A i \in 1..Len(synthq) :
            synthq[i].type = "synth" /\ synthq[i].owner.conn = c => MarkedAfter(c, i)
       /\ \A i \in 1..Len(lane) : lane[i].action.owner.conn = c => MarkedAfter(c, 0)

ClosedEnds ==
  ~refused => \A h \in enqueued.held :
    h[1].conn \in Closed \ overtaken =>
      \/ Closing(h[1].conn) \/ MarkedAfter(h[1].conn, 0)
      \/ nested.conn = h[1].conn /\ nested.stage = "ran"

-----------------------------------------------------------------------------
(* Source keys.                                                            *)

\* An event of the current grab and generation about key k.
CurrentEvent(e, k) ==
  /\ e.origin = "physical" /\ e.action.key = k
  /\ e.action.gen = gen /\ e.action.owner.target = enqueued.target

ReleaseFrom(k, i) ==
  \E j \in 1..Len(lane) : j >= i /\ CurrentEvent(lane[j], k) /\ ~lane[j].action.press

\* A key with an event in the lane is down, or its release is in the lane too.
EventsEnd ==
  \A i \in 1..Len(lane) : \A k \in Keys :
    CurrentEvent(lane[i], k) => grabbed /\ (k \in down \/ ReleaseFrom(k, i))

\* Targets of the lane's events are not in the future.
TargetsPast ==
  /\ enqueued.target # 0
  /\ \A i \in 1..Len(lane) : lane[i].origin = "physical" =>
       lane[i].action.owner.target <= enqueued.target

\* A Modify hold belongs to the current grab, and its key to a release to come.
SourcesHold ==
  \A h \in enqueued.held : h[1].src # None =>
    /\ h[1].target = enqueued.target
    /\ ~refused /\ ~Fencing => h[1].src \in down \/ ReleaseFrom(h[1].src, 1)

-----------------------------------------------------------------------------
(* The two views.                                                          *)

Popped == IF seq.stage = "idle" THEN <<>> ELSE <<seq.action>>

\* The grab's target always agrees.
TargetsAgree == ~refused => Replayed(applied, Popped \o queue).target = enqueued.target

\* A write that its generation did not outlive is followed by RELEASE_ALL.
StaleWriteEnds ==
  seq.stage = "writing" /\ Stale(seq.action.gen) /\ ~refused =>
    Fencing \/ \E i \in 1..Len(queue) : queue[i].type = "all"

HeldConns ==
  /\ \A h \in enqueued.held : h[1].conn \in Conns
  /\ \A h \in applied.held : h[1].conn \in Conns

IInv ==
  /\ TypeOK /\ PoppedOK /\ TodoOrder /\ OwnersFollow /\ HeldConns
  /\ WritesOwn /\ HoldsOwn
  /\ OwnedFollows /\ RevokedEnds /\ HooksHold
  /\ ClosedKnown /\ BatchesMarked /\ ClosedEnds
  /\ EventsEnd /\ TargetsPast /\ SourcesHold
  /\ TargetsAgree /\ StaleWriteEnds /\ ViewsAgree

-----------------------------------------------------------------------------
(* Lemmas on induction and on recursively defined functions                *)

\* Induction on the naturals, for a set.
LEMMA NatSetInduction ==
  ASSUME NEW T, 0 \in T, \A n \in Nat : n \in T => n + 1 \in T
  PROVE  Nat \subseteq T
<1> SUFFICES ASSUME Nat \ T # {} PROVE FALSE
  OBVIOUS
<1>1. PICK x \in Nat \ T : \A y \in Nat \ T : ~(<<y, x>> \in OpToRel(<, Nat))
  BY NatLessThanWellFounded, WFMin
<1>2. \A y \in Nat \ T : ~(y < x)
  BY <1>1 DEF OpToRel
<1>3. x # 0 /\ x - 1 \in Nat /\ x - 1 < x
  OBVIOUS
<1>4. x - 1 \in T
  BY <1>2, <1>3
<1> QED
  BY <1>4, <1>3

\* Induction on sequences that grow at their end, for a set of sequences.
LEMMA SeqSetInduction ==
  ASSUME NEW S, NEW T, <<>> \in T,
         \A s \in Seq(S), a \in S : s \in T => Append(s, a) \in T
  PROVE  Seq(S) \subseteq T
<1> DEFINE N == {n \in Nat : \A s \in Seq(S) : Len(s) = n => s \in T}
<1>1. 0 \in N
  <2>1. \A s \in Seq(S) : Len(s) = 0 => s = <<>>
    OBVIOUS
  <2> QED
    BY <2>1
<1>2. ASSUME NEW n \in Nat, n \in N PROVE n + 1 \in N
  <2> SUFFICES ASSUME NEW s \in Seq(S), Len(s) = n + 1 PROVE s \in T
    OBVIOUS
  <2>1. /\ SubSeq(s, 1, n) \in Seq(S) /\ Len(SubSeq(s, 1, n)) = n /\ s[n + 1] \in S
    OBVIOUS
  <2>2. s = Append(SubSeq(s, 1, n), s[n + 1])
    OBVIOUS
  <2>3. SubSeq(s, 1, n) \in T
    BY <1>2, <2>1
  <2> QED
    BY <2>1, <2>2, <2>3
<1>3. Nat \subseteq N
  <2> HIDE DEF N
  <2> QED
    BY <1>1, <1>2, NatSetInduction
<1>4. \A s \in Seq(S) : Len(s) \in Nat
  OBVIOUS
<1> QED
  BY <1>3, <1>4

\* The views after each of the actions acts exist ...
IsReplay(f, v, acts, n) == f = [i \in 0..n |-> IF i = 0 THEN v ELSE Effect(f[i - 1], acts[i])]

\* The recursive function in Replayed exists.
LEMMA ReplayExists ==
  ASSUME NEW v, NEW acts, NEW n \in Nat
  PROVE  \E f : IsReplay(f, v, acts, n)
<1> USE DEF IsReplay
<1> DEFINE Is(f, k) == IsReplay(f, v, acts, k)
           N == {k \in Nat : \E f : Is(f, k)}
<1>1. 0 \in N
  <2>1. Is([i \in 0..0 |-> v], 0)
    OBVIOUS
  <2> QED
    BY <2>1
<1>2. ASSUME NEW k \in Nat, k \in N PROVE k + 1 \in N
  <2>1. PICK f : Is(f, k)
    BY <1>2
  <2>2. PICK last : last = Effect(f[k], acts[k + 1])
    OBVIOUS
  <2>3. PICK g : g = [i \in 0..(k + 1) |-> IF i = k + 1 THEN last ELSE f[i]]
    OBVIOUS
  <2>4. g[k + 1] = last /\ \A i \in 0..k : g[i] = f[i]
    BY <2>3
  <2>5. f[0] = v /\ \A i \in 1..k : f[i] = Effect(f[i - 1], acts[i])
    <3>1. \A i \in 0..k : f[i] = IF i = 0 THEN v ELSE Effect(f[i - 1], acts[i])
      BY <2>1, Zenon
    <3>2. 0 \in 0..k /\ \A i \in 1..k : i \in 0..k /\ i # 0
      OBVIOUS
    <3> QED
      BY <3>1, <3>2, Zenon
  <2>6. g[0] = v
    BY <2>4, <2>5
  <2>7. ASSUME NEW i \in 1..(k + 1) PROVE g[i] = Effect(g[i - 1], acts[i])
    <3>1. CASE i = k + 1
      <4>1. i - 1 = k /\ g[k] = f[k]
        BY <3>1, <2>4
      <4> QED
        BY <3>1, <4>1, <2>2, <2>4
    <3>2. CASE i # k + 1
      <4>1. i \in 1..k /\ i \in 0..k /\ i - 1 \in 0..k
        BY <3>2
      <4>2. g[i] = f[i] /\ g[i - 1] = f[i - 1]
        BY <4>1, <2>4
      <4> QED
        BY <4>1, <4>2, <2>5
    <3> QED
      BY <3>1, <3>2
  <2>8. g = [i \in 0..(k + 1) |-> g[i]]
    BY <2>3
  <2>9. \A i \in 0..(k + 1) : g[i] = IF i = 0 THEN v ELSE Effect(g[i - 1], acts[i])
    <3>1. \A i \in 0..(k + 1) : i = 0 \/ i \in 1..(k + 1)
      OBVIOUS
    <3> QED
      BY <3>1, <2>6, <2>7, Zenon
  <2>10. Is(g, k + 1)
    BY <2>8, <2>9, Zenon
  <2> HIDE DEF IsReplay, Is
  <2> QED
    BY <2>10
<1>3. Nat \subseteq N
  <2> HIDE DEF N
  <2> QED
    BY <1>1, <1>2, NatSetInduction
<1> HIDE DEF IsReplay
<1> QED
  BY <1>3

\* ... and there is one such function, so Replayed is its last value.
Replays(f, v, acts, n) == f[0] = v /\ \A i \in 1..n : f[i] = Effect(f[i - 1], acts[i])

\* Replayed is what any function that replays the actions one by one ends with.
LEMMA ReplayIs ==
  ASSUME NEW v, NEW acts, Len(acts) \in Nat, NEW f, Replays(f, v, acts, Len(acts))
  PROVE  Replayed(v, acts) = f[Len(acts)]
<1> DEFINE Is(h) == h = [i \in 0..Len(acts) |-> IF i = 0 THEN v ELSE Effect(h[i - 1], acts[i])]
<1>0. PICK n \in Nat : n = Len(acts)
  OBVIOUS
<1>1. \E h : Is(h)
  <2>1. \E h : IsReplay(h, v, acts, n)
    BY ReplayExists
  <2> QED
    BY <1>0, <2>1, Zenon DEF IsReplay
<1>2. PICK g : g = CHOOSE h : Is(h)
  OBVIOUS
<1>3. Replayed(v, acts) = g[Len(acts)]
  BY <1>2 DEF Replayed
<1>4. Is(g)
  <2> HIDE DEF Is
  <2> QED
    BY <1>1, <1>2
<1>5. Replays(g, v, acts, n)
  <2>1. \A i \in 0..n : g[i] = IF i = 0 THEN v ELSE Effect(g[i - 1], acts[i])
    BY <1>0, <1>4, Zenon
  <2>2. 0 \in 0..n /\ \A i \in 1..n : i \in 0..n /\ i # 0
    OBVIOUS
  <2> QED
    BY <2>1, <2>2, Zenon DEF Replays
<1> HIDE DEF Is
<1> DEFINE Same(m) == m <= n => g[m] = f[m]
           N == {m \in Nat : Same(m)}
<1>6. Same(0)
  BY <1>5, <1>0 DEF Replays
<1>7. ASSUME NEW m \in Nat, Same(m) PROVE Same(m + 1)
  <2> SUFFICES ASSUME m + 1 <= n PROVE g[m + 1] = f[m + 1]
    OBVIOUS
  <2>1. m + 1 \in 1..n /\ (m + 1) - 1 = m /\ m <= n
    OBVIOUS
  <2>2. g[m + 1] = Effect(g[(m + 1) - 1], acts[m + 1])
    BY <1>5, <2>1, Zenon DEF Replays
  <2>3. f[m + 1] = Effect(f[(m + 1) - 1], acts[m + 1])
    BY <1>0, <2>1, Zenon DEF Replays
  <2>4. g[m] = f[m]
    BY <1>7, <2>1
  <2> QED
    BY <2>1, <2>2, <2>3, <2>4, Zenon
<1> HIDE DEF Same
<1>8. Nat \subseteq N
  <2>1. 0 \in N /\ \A m \in Nat : m \in N => m + 1 \in N
    BY <1>6, <1>7
  <2> HIDE DEF N
  <2> QED
    BY <2>1, NatSetInduction
<1>9. Same(n)
  BY <1>8
<1>10. g[n] = f[n]
  BY <1>9 DEF Same
<1> QED
  BY <1>0, <1>3, <1>10, Zenon

\* Likewise for the items picked up to each position.
Put(picked, items, places, i) == IF i \in places THEN Append(picked, items[i]) ELSE picked

IsPick(f, items, places, n) == f = [i \in 0..n |-> IF i = 0 THEN <<>> ELSE Put(f[i - 1], items, places, i)]

\* The recursive function in Picked exists.
LEMMA PickExists ==
  ASSUME NEW items, NEW places, NEW n \in Nat
  PROVE  \E f : IsPick(f, items, places, n)
<1> USE DEF IsPick
<1> DEFINE Is(f, k) == IsPick(f, items, places, k)
           N == {k \in Nat : \E f : Is(f, k)}
<1>1. 0 \in N
  <2>1. Is([i \in 0..0 |-> <<>>], 0)
    OBVIOUS
  <2> QED
    BY <2>1
<1>2. ASSUME NEW k \in Nat, k \in N PROVE k + 1 \in N
  <2>1. PICK f : Is(f, k)
    BY <1>2
  <2>2. PICK last : last = Put(f[k], items, places, k + 1)
    OBVIOUS
  <2>3. PICK g : g = [i \in 0..(k + 1) |-> IF i = k + 1 THEN last ELSE f[i]]
    OBVIOUS
  <2>4. g[k + 1] = last /\ \A i \in 0..k : g[i] = f[i]
    BY <2>3
  <2>5. f[0] = <<>> /\ \A i \in 1..k : f[i] = Put(f[i - 1], items, places, i)
    <3>1. \A i \in 0..k : f[i] = IF i = 0 THEN <<>> ELSE Put(f[i - 1], items, places, i)
      BY <2>1, Zenon
    <3>2. 0 \in 0..k /\ \A i \in 1..k : i \in 0..k /\ i # 0
      OBVIOUS
    <3> QED
      BY <3>1, <3>2, Zenon
  <2>6. g[0] = <<>>
    BY <2>4, <2>5
  <2>7. ASSUME NEW i \in 1..(k + 1) PROVE g[i] = Put(g[i - 1], items, places, i)
    <3>1. CASE i = k + 1
      <4>1. i - 1 = k /\ g[k] = f[k]
        BY <3>1, <2>4
      <4> QED
        BY <3>1, <4>1, <2>2, <2>4
    <3>2. CASE i # k + 1
      <4>1. i \in 1..k /\ i \in 0..k /\ i - 1 \in 0..k
        BY <3>2
      <4>2. g[i] = f[i] /\ g[i - 1] = f[i - 1]
        BY <4>1, <2>4
      <4> QED
        BY <4>1, <4>2, <2>5
    <3> QED
      BY <3>1, <3>2
  <2>8. g = [i \in 0..(k + 1) |-> g[i]]
    BY <2>3
  <2>9. \A i \in 0..(k + 1) : g[i] = IF i = 0 THEN <<>> ELSE Put(g[i - 1], items, places, i)
    <3>1. \A i \in 0..(k + 1) : i = 0 \/ i \in 1..(k + 1)
      OBVIOUS
    <3> QED
      BY <3>1, <2>6, <2>7, Zenon
  <2>10. Is(g, k + 1)
    BY <2>8, <2>9, Zenon
  <2> HIDE DEF IsPick, Is
  <2> QED
    BY <2>10
<1>3. Nat \subseteq N
  <2> HIDE DEF N
  <2> QED
    BY <1>1, <1>2, NatSetInduction
<1> HIDE DEF IsPick
<1> QED
  BY <1>3

Picks(f, items, places, n) == f[0] = <<>> /\ \A i \in 1..n : f[i] = Put(f[i - 1], items, places, i)

\* Picked is what any function that picks the items one by one ends with.
LEMMA PickIs ==
  ASSUME NEW items, NEW places, Len(items) \in Nat, NEW f, Picks(f, items, places, Len(items))
  PROVE  Picked(items, places) = f[Len(items)]
<1> DEFINE Is(h) == h = [i \in 0..Len(items) |-> IF i = 0 THEN <<>> ELSE Put(h[i - 1], items, places, i)]
<1>0. PICK n \in Nat : n = Len(items)
  OBVIOUS
<1>1. \E h : Is(h)
  <2>1. \E h : IsPick(h, items, places, n)
    BY PickExists
  <2> QED
    BY <1>0, <2>1, Zenon DEF IsPick
<1>2. PICK g : g = CHOOSE h : Is(h)
  OBVIOUS
<1>3. Picked(items, places) = g[Len(items)]
  BY <1>2 DEF Picked, Put
<1>4. Is(g)
  <2> HIDE DEF Is
  <2> QED
    BY <1>1, <1>2
<1>5. Picks(g, items, places, n)
  <2>1. \A i \in 0..n : g[i] = IF i = 0 THEN <<>> ELSE Put(g[i - 1], items, places, i)
    BY <1>0, <1>4, Zenon
  <2>2. 0 \in 0..n /\ \A i \in 1..n : i \in 0..n /\ i # 0
    OBVIOUS
  <2> QED
    BY <2>1, <2>2, Zenon DEF Picks
<1> HIDE DEF Is
<1> DEFINE Same(m) == m <= n => g[m] = f[m]
           N == {m \in Nat : Same(m)}
<1>6. Same(0)
  BY <1>5, <1>0 DEF Picks
<1>7. ASSUME NEW m \in Nat, Same(m) PROVE Same(m + 1)
  <2> SUFFICES ASSUME m + 1 <= n PROVE g[m + 1] = f[m + 1]
    OBVIOUS
  <2>1. m + 1 \in 1..n /\ (m + 1) - 1 = m /\ m <= n
    OBVIOUS
  <2>2. g[m + 1] = Put(g[(m + 1) - 1], items, places, m + 1)
    BY <1>5, <2>1, Zenon DEF Picks
  <2>3. f[m + 1] = Put(f[(m + 1) - 1], items, places, m + 1)
    BY <1>0, <2>1, Zenon DEF Picks
  <2>4. g[m] = f[m]
    BY <1>7, <2>1
  <2> QED
    BY <2>1, <2>2, <2>3, <2>4, Zenon
<1> HIDE DEF Same
<1>8. Nat \subseteq N
  <2>1. 0 \in N /\ \A m \in Nat : m \in N => m + 1 \in N
    BY <1>6, <1>7
  <2> HIDE DEF N
  <2> QED
    BY <2>1, NatSetInduction
<1>9. Same(n)
  BY <1>8
<1>10. g[n] = f[n]
  BY <1>9 DEF Same
<1> QED
  BY <1>0, <1>3, <1>10, Zenon

\* Replaying one action more.
LEMMA ReplayEmpty == ASSUME NEW v PROVE Replayed(v, <<>>) = v
<1>1. Len(<<>>) = 0 /\ Len(<<>>) \in Nat
  OBVIOUS
<1>2. PICK f : f = [i \in 0..0 |-> v]
  OBVIOUS
<1>3. f[0] = v
  BY <1>2
<1>4. Replays(f, v, <<>>, Len(<<>>))
  BY <1>1, <1>3 DEF Replays
<1>5. Replayed(v, <<>>) = f[Len(<<>>)]
  BY <1>1, <1>4, ReplayIs
<1> QED
  BY <1>1, <1>3, <1>5

\* An action more is replayed last.
LEMMA ReplayAppend ==
  ASSUME NEW v, NEW S, NEW acts \in Seq(S), NEW a \in S
  PROVE  Replayed(v, Append(acts, a)) = Effect(Replayed(v, acts), a)
<1>0. Len(acts) \in Nat
  OBVIOUS
<1>1. PICK n \in Nat : n = Len(acts)
  BY <1>0
<1>2. PICK bs : bs = Append(acts, a)
  OBVIOUS
<1>3. Len(bs) = n + 1 /\ Len(bs) \in Nat /\ bs[n + 1] = a /\ \A i \in 1..n : bs[i] = acts[i]
  BY <1>1, <1>2, AppendProperties
<1>4. PICK f : IsReplay(f, v, bs, n + 1)
  <2>1. n + 1 \in Nat
    OBVIOUS
  <2> QED
    BY <2>1, ReplayExists
<1>5. Replays(f, v, bs, n + 1)
  <2>1. \A i \in 0..(n + 1) : f[i] = IF i = 0 THEN v ELSE Effect(f[i - 1], bs[i])
    BY <1>4, Zenon DEF IsReplay
  <2>2. 0 \in 0..(n + 1) /\ \A i \in 1..(n + 1) : i \in 0..(n + 1) /\ i # 0
    OBVIOUS
  <2> QED
    BY <2>1, <2>2, Zenon DEF Replays
<1>6. Replays(f, v, acts, n)
  <2>1. \A i \in 1..n : i \in 1..(n + 1)
    OBVIOUS
  <2> QED
    BY <2>1, <1>3, <1>5, Zenon DEF Replays
<1>7. Replayed(v, acts) = f[n] /\ Replayed(v, bs) = f[n + 1]
  <2>1. Replayed(v, acts) = f[Len(acts)]
    BY <1>1, <1>6, ReplayIs
  <2>2. Replayed(v, bs) = f[Len(bs)]
    BY <1>3, <1>5, ReplayIs
  <2> QED
    BY <2>1, <2>2, <1>1, <1>3
<1>8. f[n + 1] = Effect(f[n], bs[n + 1])
  <2>1. n + 1 \in 1..(n + 1) /\ (n + 1) - 1 = n
    OBVIOUS
  <2>2. f[n + 1] = Effect(f[(n + 1) - 1], bs[n + 1])
    BY <2>1, <1>5, Zenon DEF Replays
  <2> QED
    BY <2>1, <2>2, Zenon
<1> QED
  BY <1>2, <1>3, <1>7, <1>8, Zenon


\* Picking one item more.
LEMMA PickEmpty == ASSUME NEW I PROVE Picked(<<>>, I) = <<>>
<1>1. Len(<<>>) = 0 /\ Len(<<>>) \in Nat
  OBVIOUS
<1>2. PICK f : f = [i \in 0..0 |-> <<>>]
  OBVIOUS
<1>3. f[0] = <<>>
  BY <1>2
<1>4. Picks(f, <<>>, I, Len(<<>>))
  BY <1>1, <1>3 DEF Picks
<1>5. Picked(<<>>, I) = f[Len(<<>>)]
  BY <1>1, <1>4, PickIs
<1> QED
  BY <1>1, <1>3, <1>5

\* An item more is picked last, if its place is.
LEMMA PickAppend ==
  ASSUME NEW I, NEW J, NEW S, NEW acts \in Seq(S), NEW a \in S,
         \A i \in 1..Len(acts) : (i \in I) = (i \in J)
  PROVE  Picked(Append(acts, a), J) =
           IF Len(acts) + 1 \in J THEN Append(Picked(acts, I), a) ELSE Picked(acts, I)
<1>0. Len(acts) \in Nat
  OBVIOUS
<1>1. PICK n \in Nat : n = Len(acts)
  BY <1>0
<1>2. PICK bs : bs = Append(acts, a)
  OBVIOUS
<1>3. Len(bs) = n + 1 /\ Len(bs) \in Nat /\ bs[n + 1] = a /\ \A i \in 1..n : bs[i] = acts[i]
  BY <1>1, <1>2, AppendProperties
<1>4. PICK f : IsPick(f, bs, J, n + 1)
  <2>1. n + 1 \in Nat
    OBVIOUS
  <2> QED
    BY <2>1, PickExists
<1>5. Picks(f, bs, J, n + 1)
  <2>1. \A i \in 0..(n + 1) : f[i] = IF i = 0 THEN <<>> ELSE Put(f[i - 1], bs, J, i)
    BY <1>4, Zenon DEF IsPick
  <2>2. 0 \in 0..(n + 1) /\ \A i \in 1..(n + 1) : i \in 0..(n + 1) /\ i # 0
    OBVIOUS
  <2> QED
    BY <2>1, <2>2, Zenon DEF Picks
<1>6. Picks(f, acts, I, n)
  <2>1. \A i \in 1..n : i \in 1..(n + 1)
    OBVIOUS
  <2> QED
    BY <2>1, <1>1, <1>3, <1>5, Zenon DEF Picks, Put
<1>7. Picked(acts, I) = f[n] /\ Picked(bs, J) = f[n + 1]
  <2>1. Picked(acts, I) = f[Len(acts)]
    BY <1>1, <1>6, PickIs
  <2>2. Picked(bs, J) = f[Len(bs)]
    BY <1>3, <1>5, PickIs
  <2> QED
    BY <2>1, <2>2, <1>1, <1>3
<1>8. f[n + 1] = Put(f[n], bs, J, n + 1)
  <2>1. n + 1 \in 1..(n + 1) /\ (n + 1) - 1 = n
    OBVIOUS
  <2>2. f[n + 1] = Put(f[(n + 1) - 1], bs, J, n + 1)
    BY <2>1, <1>5, Zenon DEF Picks
  <2> QED
    BY <2>1, <2>2, Zenon
<1> QED
  BY <1>1, <1>2, <1>3, <1>7, <1>8, Zenon DEF Put

-----------------------------------------------------------------------------
(* Lemmas on what actions do to a view                                     *)

\* What can be in the output queue.
Plain == {a \in Actions : /\ a.type \in Scoped \cup Safety
                          /\ (a.gen = 0) = (a.type \in Safety)}

\* A view is its holds and its target.
LEMMA ViewShape ==
  ASSUME NEW v \in View
  PROVE  v = [held |-> v.held, target |-> v.target]
BY DEF View

\* An action turns a view into a view.
LEMMA EffectType ==
  ASSUME NEW v \in View, NEW a \in Plain
  PROVE  Effect(v, a) \in View
<1>1. v.held \in SUBSET (Owners \X (Keys \cup {None})) /\ v.target \in Nat
  BY DEF View
<1>2. \A hs \in SUBSET (Owners \X (Keys \cup {None})) : Held(v, hs) \in View
  BY DEF View, Held
<1>3. a.owner \in Owners /\ a.key \in Keys \cup {None} /\ a.owner.target \in Nat
  BY DEF Plain, Actions, Owners
<1>4. CASE a.type = "synth"
  <2>1. ApplyKey(v.held, a.owner, a.key, a.press) \in SUBSET (Owners \X (Keys \cup {None}))
    BY <1>1, <1>3 DEF ApplyKey
  <2> QED
    BY <1>2, <1>4, <2>1 DEF Effect
<1>5. CASE a.type \in {"replay", "suppressed"}
  <2>1. PhysicalRelease(v.held, a) \in SUBSET (Owners \X (Keys \cup {None}))
    BY <1>1 DEF PhysicalRelease
  <2> QED
    BY <1>2, <1>5, <2>1 DEF Effect
<1>6. CASE a.type = "release"
  <2>1. DropClaims(v.held, a.owner) \in SUBSET (Owners \X (Keys \cup {None}))
    BY <1>1 DEF DropClaims
  <2> QED
    BY <1>2, <1>6, <2>1 DEF Effect
<1>7. CASE a.type = "end"
  <2>1. [held |-> {h \in v.held : h[1].target = 0}, target |-> a.owner.target] \in View
    BY <1>1, <1>3 DEF View
  <2> QED
    BY <1>7, <2>1 DEF Effect
<1>8. CASE a.type \in Wipes
  BY <1>2, <1>8 DEF Effect, Wipes
<1> QED
  BY <1>4, <1>5, <1>6, <1>7, <1>8 DEF Plain, Scoped, Safety, Wipes

\* Only the end of a grab moves the target, and what it makes of it does not
\* depend on the holds; wiping actions leave no hold.
LEMMA EffectTarget ==
  ASSUME NEW v \in View, NEW a \in Plain
  PROVE  /\ Effect(v, a).target = IF a.type = "end" /\ v.target < a.owner.target
                                  THEN a.owner.target ELSE v.target
         /\ a.type \in Wipes => Effect(v, a) = [held |-> {}, target |-> v.target]
<1>1. v.target \in Nat /\ a.owner.target \in Nat
  BY DEF Plain, Actions, Owners, View
<1>2. \A hs : Held(v, hs) = [held |-> hs, target |-> v.target]
  BY DEF Held, View
<1>3. CASE a.type = "synth"
  BY <1>2, <1>3 DEF Effect, Wipes
<1>5. CASE a.type \in {"replay", "suppressed"}
  BY <1>2, <1>5 DEF Effect, Wipes
<1>6. CASE a.type = "release"
  BY <1>2, <1>6 DEF Effect, Wipes
<1>7. CASE a.type = "end"
  BY <1>1, <1>7 DEF Effect, Wipes
<1>8. CASE a.type \in Wipes
  BY <1>2, <1>8 DEF Effect, Wipes
<1> QED
  BY <1>3, <1>5, <1>6, <1>7, <1>8 DEF Plain, Scoped, Safety, Wipes

\* The holds after each kind of action.
LEMMA EffectHeld ==
  ASSUME NEW v \in View, NEW a \in Plain
  PROVE  /\ a.type = "synth" => Effect(v, a).held \subseteq v.held \cup {<<a.owner, a.key>>}
         /\ a.type = "synth" /\ a.owner.target \notin {0, v.target} => Effect(v, a).held \subseteq v.held
         /\ a.type # "synth" => Effect(v, a).held \subseteq v.held
         /\ a.type = "release" => Effect(v, a).held = {h \in v.held : ~Matches(h[1], a.owner)}
         /\ a.type \in {"replay", "suppressed"} /\ ~a.press =>
              Effect(v, a).held = PhysicalRelease(v.held, a)
         /\ a.type = "end" /\ v.target < a.owner.target =>
              Effect(v, a).held = {h \in v.held : h[1].target = 0}
<1>1. v.target \in Nat /\ a.owner.target \in Nat
  BY DEF Plain, Actions, Owners, View
<1>2. \A hs : Held(v, hs).held = hs
  BY DEF Held, View
<1>3. CASE a.type = "synth"
  <2>1. ApplyKey(v.held, a.owner, a.key, a.press) \subseteq v.held \cup {<<a.owner, a.key>>}
    BY DEF ApplyKey
  <2>2. ~a.press => ApplyKey(v.held, a.owner, a.key, a.press) \subseteq v.held
    BY DEF ApplyKey
  <2>3. Effect(v, a) = IF a.press /\ IsDead(v, a.owner) THEN v
                       ELSE Held(v, ApplyKey(v.held, a.owner, a.key, a.press))
    BY <1>3 DEF Effect
  <2>4. a.owner.target \notin {0, v.target} => IsDead(v, a.owner)
    BY DEF IsDead
  <2>5. Effect(v, a).held = v.held \/
        Effect(v, a).held = ApplyKey(v.held, a.owner, a.key, a.press)
    BY <2>3, <1>2
  <2>6. a.press /\ IsDead(v, a.owner) => Effect(v, a).held = v.held
    BY <2>3
  <2>7. CASE a.press
    BY <1>3, <2>1, <2>4, <2>5, <2>6, <2>7
  <2>8. CASE ~a.press
    BY <1>3, <2>2, <2>5, <2>8
  <2> QED
    BY <2>7, <2>8
<1>5. CASE a.type \in {"replay", "suppressed"}
  <2>1. Effect(v, a).held = IF a.press THEN v.held ELSE PhysicalRelease(v.held, a)
    BY <1>2, <1>5 DEF Effect
  <2>2. PhysicalRelease(v.held, a) \subseteq v.held
    BY DEF PhysicalRelease
  <2> QED
    BY <1>5, <2>1, <2>2
<1>6. CASE a.type = "release"
  BY <1>2, <1>6 DEF Effect, DropClaims
<1>7. CASE a.type = "end"
  BY <1>1, <1>7 DEF Effect
<1>8. CASE a.type \in Wipes
  BY <1>2, <1>8 DEF Effect, Wipes
<1> QED
  BY <1>3, <1>5, <1>6, <1>7, <1>8 DEF Plain, Scoped, Safety, Wipes

-----------------------------------------------------------------------------
(* Lemmas on replaying actions                                             *)

\* What the provers need of sequences.
LEMMA SeqFacts ==
  ASSUME NEW S, NEW s \in Seq(S), NEW a \in S
  PROVE  /\ Append(s, a) \in Seq(S) /\ Len(Append(s, a)) = Len(s) + 1
         /\ Append(s, a)[Len(s) + 1] = a
         /\ \A i \in 1..Len(s) : Append(s, a)[i] = s[i]
         /\ <<a>> \o s \in Seq(S) /\ <<>> \o s = s
         /\ Len(<<a>> \o s) = Len(s) + 1
         /\ (<<a>> \o s)[1] = a
         /\ \A i \in 1..Len(s) : (<<a>> \o s)[i + 1] = s[i]
         /\ s \o <<a>> = Append(s, a)
OBVIOUS

\* Replaying actions gives a view; its target depends on the target only.
LEMMA ReplayType ==
  ASSUME NEW v \in View, NEW acts \in Seq(Plain)
  PROVE  Replayed(v, acts) \in View
<1> DEFINE T == {s \in Seq(Plain) : Replayed(v, s) \in View}
<1>1. <<>> \in T
  BY ReplayEmpty
<1>2. ASSUME NEW s \in Seq(Plain), NEW a \in Plain, s \in T PROVE Append(s, a) \in T
  <2>1. Replayed(v, Append(s, a)) = Effect(Replayed(v, s), a)
    BY ReplayAppend
  <2>2. Replayed(v, s) \in View
    BY <1>2
  <2>3. Effect(Replayed(v, s), a) \in View
    BY <2>2, EffectType
  <2>4. Append(s, a) \in Seq(Plain)
    OBVIOUS
  <2> QED
    BY <2>1, <2>3, <2>4
<1>3. Seq(Plain) \subseteq T
  <2> HIDE DEF T
  <2> QED
    BY <1>1, <1>2, SeqSetInduction
<1> QED
  BY <1>3

\* The target that replayed actions leave depends on the target alone.
LEMMA ReplayTarget ==
  ASSUME NEW v \in View, NEW w \in View, v.target = w.target, NEW acts \in Seq(Plain)
  PROVE  Replayed(v, acts).target = Replayed(w, acts).target
<1> DEFINE T == {s \in Seq(Plain) : Replayed(v, s).target = Replayed(w, s).target}
<1>1. <<>> \in T
  BY ReplayEmpty
<1>2. ASSUME NEW s \in Seq(Plain), NEW a \in Plain, s \in T PROVE Append(s, a) \in T
  <2>1. PICK x : x = Replayed(v, s)
    OBVIOUS
  <2>2. PICK y : y = Replayed(w, s)
    OBVIOUS
  <2>3. /\ Replayed(v, Append(s, a)) = Effect(x, a)
        /\ Replayed(w, Append(s, a)) = Effect(y, a)
    BY ReplayAppend, <2>1, <2>2
  <2>4. x \in View /\ y \in View /\ x.target = y.target
    BY <1>2, <2>1, <2>2, ReplayType
  <2>5. Effect(x, a).target = Effect(y, a).target
    BY <2>4, EffectTarget
  <2>6. Append(s, a) \in Seq(Plain)
    OBVIOUS
  <2> QED
    BY <2>3, <2>5, <2>6
<1>3. Seq(Plain) \subseteq T
  <2> HIDE DEF T
  <2> QED
    BY <1>1, <1>2, SeqSetInduction
<1> QED
  BY <1>3

\* After an action that wipes the holds, it does not matter what was held.
LEMMA ReplayWiped ==
  ASSUME NEW v \in View, NEW w \in View, v.target = w.target, NEW acts \in Seq(Plain),
         \E i \in 1..Len(acts) : acts[i].type \in Wipes
  PROVE  Replayed(v, acts) = Replayed(w, acts)
<1> DEFINE Wiped(s) == \E i \in 1..Len(s) : s[i].type \in Wipes
           T == {s \in Seq(Plain) : Wiped(s) => Replayed(v, s) = Replayed(w, s)}
<1>1. <<>> \in T
  OBVIOUS
<1>2. ASSUME NEW s \in Seq(Plain), NEW a \in Plain, s \in T PROVE Append(s, a) \in T
  <2> SUFFICES ASSUME Wiped(Append(s, a)) PROVE Replayed(v, Append(s, a)) = Replayed(w, Append(s, a))
    BY SeqFacts
  <2>1. PICK x : x = Replayed(v, s)
    OBVIOUS
  <2>2. PICK y : y = Replayed(w, s)
    OBVIOUS
  <2>3. /\ Replayed(v, Append(s, a)) = Effect(x, a)
        /\ Replayed(w, Append(s, a)) = Effect(y, a)
    BY ReplayAppend, <2>1, <2>2
  <2>4. x \in View /\ y \in View /\ x.target = y.target
    BY <2>1, <2>2, ReplayType, ReplayTarget
  <2>5. CASE a.type \in Wipes
    <3>1. /\ Effect(x, a) = [held |-> {}, target |-> x.target]
          /\ Effect(y, a) = [held |-> {}, target |-> y.target]
      BY <2>4, <2>5, EffectTarget
    <3> QED
      BY <2>3, <2>4, <3>1
  <2>6. CASE a.type \notin Wipes
    <3>1. Wiped(s)
      <4>1. PICK i \in 1..Len(Append(s, a)) : Append(s, a)[i].type \in Wipes
        OBVIOUS
      <4>2. i # Len(s) + 1
        BY <4>1, <2>6, SeqFacts
      <4>3. i \in 1..Len(s) /\ Append(s, a)[i] = s[i]
        BY <4>1, <4>2, SeqFacts
      <4> QED
        BY <4>1, <4>3
    <3>2. x = y
      BY <1>2, <3>1, <2>1, <2>2
    <3> QED
      BY <2>3, <3>2
  <2> QED
    BY <2>5, <2>6
<1>3. Seq(Plain) \subseteq T
  <2> HIDE DEF T
  <2> QED
    BY <1>1, <1>2, SeqSetInduction
<1> QED
  BY <1>3

\* Replaying from the front.
LEMMA ReplayHead ==
  ASSUME NEW v, NEW a \in Plain, NEW acts \in Seq(Plain)
  PROVE  Replayed(v, <<a>> \o acts) = Replayed(Effect(v, a), acts)
<1> DEFINE T == {s \in Seq(Plain) : Replayed(v, <<a>> \o s) = Replayed(Effect(v, a), s)}
<1>1. <<>> \in T
  <2>1. <<a>> \o <<>> = Append(<<>>, a) /\ <<>> \in Seq(Plain)
    OBVIOUS
  <2>2. Replayed(v, Append(<<>>, a)) = Effect(Replayed(v, <<>>), a)
    BY <2>1, ReplayAppend
  <2> QED
    BY <2>1, <2>2, ReplayEmpty
<1>2. ASSUME NEW s \in Seq(Plain), NEW b \in Plain, s \in T PROVE Append(s, b) \in T
  <2>1. <<a>> \o Append(s, b) = Append(<<a>> \o s, b) /\ <<a>> \o s \in Seq(Plain)
    OBVIOUS
  <2>2. Replayed(v, Append(<<a>> \o s, b)) = Effect(Replayed(v, <<a>> \o s), b)
    BY <2>1, ReplayAppend
  <2>3. PICK w : w = Effect(v, a)
    OBVIOUS
  <2>4. Replayed(w, Append(s, b)) = Effect(Replayed(w, s), b)
    BY ReplayAppend
  <2>5. Replayed(v, <<a>> \o s) = Replayed(w, s)
    BY <1>2, <2>3
  <2>6. Append(s, b) \in Seq(Plain)
    OBVIOUS
  <2> QED
    BY <2>1, <2>2, <2>3, <2>4, <2>5, <2>6
<1>3. Seq(Plain) \subseteq T
  <2> HIDE DEF T
  <2> QED
    BY <1>1, <1>2, SeqSetInduction
<1> QED
  BY <1>3

\* Replaying one action, and two.
LEMMA ReplayOne ==
  ASSUME NEW v, NEW a \in Plain
  PROVE  Replayed(v, <<a>>) = Effect(v, a)
<1>1. <<>> \in Seq(Plain) /\ <<a>> = Append(<<>>, a)
  OBVIOUS
<1>2. Replayed(v, Append(<<>>, a)) = Effect(Replayed(v, <<>>), a)
  BY <1>1, ReplayAppend
<1> QED
  BY <1>1, <1>2, ReplayEmpty, Zenon

\* Two actions are replayed one after the other.
LEMMA ReplayTwo ==
  ASSUME NEW v, NEW a \in Plain, NEW b \in Plain
  PROVE  Replayed(v, <<a, b>>) = Effect(Effect(v, a), b)
<1>1. <<a>> \in Seq(Plain) /\ <<a, b>> = Append(<<a>>, b)
  OBVIOUS
<1>2. Replayed(v, Append(<<a>>, b)) = Effect(Replayed(v, <<a>>), b)
  BY <1>1, ReplayAppend
<1> QED
  BY <1>1, <1>2, ReplayOne, Zenon

-----------------------------------------------------------------------------
(* Lemmas on the items that are kept of a sequence                         *)

Filtered(s, K) == Picked(s, {i \in DOMAIN s : s[i] \in K})

Items(s) == {s[i] : i \in 1..Len(s)}

\* Nothing is picked from nothing.
LEMMA FilterEmpty == ASSUME NEW K PROVE Filtered(<<>>, K) = <<>>
BY PickEmpty DEF Filtered

\* The last item is picked by its value.
LEMMA FilterAppend ==
  ASSUME NEW S, NEW K, NEW s \in Seq(S), NEW a \in S
  PROVE  Filtered(Append(s, a), K) = IF a \in K THEN Append(Filtered(s, K), a) ELSE Filtered(s, K)
<1>1. PICK I : I = {i \in DOMAIN s : s[i] \in K}
  OBVIOUS
<1>2. PICK J : J = {i \in DOMAIN Append(s, a) : Append(s, a)[i] \in K}
  OBVIOUS
<1>3. \A i \in 1..Len(s) : (i \in I) = (i \in J)
  BY <1>1, <1>2
<1>4. (Len(s) + 1 \in J) = (a \in K)
  BY <1>2
<1>5. Picked(Append(s, a), J) = IF Len(s) + 1 \in J THEN Append(Picked(s, I), a) ELSE Picked(s, I)
  BY <1>3, PickAppend
<1>6. Filtered(s, K) = Picked(s, I) /\ Filtered(Append(s, a), K) = Picked(Append(s, a), J)
  BY <1>1, <1>2 DEF Filtered
<1> QED
  BY <1>4, <1>5, <1>6, Zenon

\* The items of a sequence that grew by one.
LEMMA ItemsAppend ==
  ASSUME NEW S, NEW s \in Seq(S), NEW a \in S
  PROVE  Items(Append(s, a)) = Items(s) \cup {a}
<1>1. ASSUME NEW x \in Items(Append(s, a)) PROVE x \in Items(s) \cup {a}
  BY SeqFacts DEF Items
<1>2. ASSUME NEW x \in Items(s) \cup {a} PROVE x \in Items(Append(s, a))
  <2>1. CASE x \in Items(s)
    <3>1. PICK i \in 1..Len(s) : x = s[i]
      BY <2>1 DEF Items
    <3>2. i \in 1..Len(Append(s, a)) /\ Append(s, a)[i] = x
      BY <3>1, SeqFacts
    <3> QED
      BY <3>2 DEF Items
  <2>2. CASE x = a
    <3>1. Len(s) + 1 \in 1..Len(Append(s, a)) /\ Append(s, a)[Len(s) + 1] = x
      BY <2>2, SeqFacts
    <3> QED
      BY <3>1 DEF Items
  <2> QED
    BY <2>1, <2>2
<1> QED
  BY <1>1, <1>2

\* The kept items are those of the sequence that are in K.
LEMMA FilterType ==
  ASSUME NEW S, NEW K, NEW s \in Seq(S)
  PROVE  /\ Filtered(s, K) \in Seq(S) /\ Filtered(s, K) \in Seq(S \cap K)
         /\ Items(Filtered(s, K)) = Items(s) \cap K
<1> DEFINE T == {t \in Seq(S) : /\ Filtered(t, K) \in Seq(S) /\ Filtered(t, K) \in Seq(S \cap K)
                                /\ Items(Filtered(t, K)) = Items(t) \cap K}
<1>1. <<>> \in T
  <2>1. Items(<<>>) = {}
    BY DEF Items
  <2>2. <<>> \in Seq(S) /\ <<>> \in Seq(S \cap K)
    OBVIOUS
  <2> QED
    BY <2>1, <2>2, FilterEmpty
<1>2. ASSUME NEW t \in Seq(S), NEW a \in S, t \in T PROVE Append(t, a) \in T
  <2>1. PICK f : f = Filtered(t, K)
    OBVIOUS
  <2>2. PICK g : g = Filtered(Append(t, a), K)
    OBVIOUS
  <2>3. g = IF a \in K THEN Append(f, a) ELSE f
    BY <2>1, <2>2, FilterAppend
  <2>4. f \in Seq(S) /\ f \in Seq(S \cap K) /\ Items(f) = Items(t) \cap K
    BY <1>2, <2>1
  <2>5. g \in Seq(S)
    BY <2>3, <2>4
  <2>6. g \in Seq(S \cap K)
    <3>1. CASE a \in K
      <4>1. a \in S \cap K
        BY <3>1
      <4>2. PICK C : C = S \cap K
        OBVIOUS
      <4>3. Append(f, a) \in Seq(C)
        BY <4>1, <4>2, <2>4
      <4> QED
        BY <4>2, <4>3, <3>1, <2>3
    <3> QED
      BY <3>1, <2>3, <2>4
  <2>7. Items(Append(t, a)) = Items(t) \cup {a}
    BY ItemsAppend
  <2>8. Items(g) = Items(Append(t, a)) \cap K
    <3>1. CASE a \in K
      <4>1. Items(g) = Items(f) \cup {a}
        BY <3>1, <2>3, <2>4, ItemsAppend
      <4> QED
        BY <4>1, <3>1, <2>4, <2>7
    <3>2. CASE a \notin K
      BY <3>2, <2>3, <2>4, <2>7
    <3> QED
      BY <3>1, <3>2
  <2>9. Append(t, a) \in Seq(S)
    OBVIOUS
  <2> QED
    BY <2>2, <2>5, <2>6, <2>8, <2>9
<1>3. Seq(S) \subseteq T
  <2> HIDE DEF T
  <2> QED
    BY <1>1, <1>2, SeqSetInduction
<1> QED
  BY <1>3

\* Keeping from the front.
LEMMA FilterHead ==
  ASSUME NEW S, NEW K, NEW a \in S, NEW s \in Seq(S)
  PROVE  /\ a \in K => Filtered(<<a>> \o s, K) = <<a>> \o Filtered(s, K)
         /\ a \notin K => Filtered(<<a>> \o s, K) = Filtered(s, K)
<1> DEFINE First(t) == IF a \in K THEN <<a>> \o t ELSE t
           T == {t \in Seq(S) : Filtered(<<a>> \o t, K) = First(Filtered(t, K))}
<1>1. <<>> \in T
  <2>1. <<a>> \o <<>> = Append(<<>>, a) /\ <<>> \in Seq(S)
    OBVIOUS
  <2>2. Filtered(Append(<<>>, a), K) =
          IF a \in K THEN Append(Filtered(<<>>, K), a) ELSE Filtered(<<>>, K)
    <3>1. PICK e \in Seq(S) : e = <<>>
      BY <2>1
    <3>2. Filtered(Append(e, a), K) = IF a \in K THEN Append(Filtered(e, K), a) ELSE Filtered(e, K)
      BY FilterAppend
    <3> QED
      BY <3>1, <3>2, Zenon
  <2>3. Filtered(<<>>, K) = <<>>
    BY FilterEmpty
  <2>4. Filtered(<<a>> \o <<>>, K) = First(Filtered(<<>>, K))
    <3>1. CASE a \in K
      BY <2>1, <2>2, <2>3, <3>1, Zenon
    <3>2. CASE a \notin K
      BY <2>1, <2>2, <2>3, <3>2, Zenon
    <3> QED
      BY <3>1, <3>2
  <2> QED
    BY <2>1, <2>4
<1>2. ASSUME NEW t \in Seq(S), NEW b \in S, t \in T PROVE Append(t, b) \in T
  <2>1. PICK f : f = Filtered(t, K)
    OBVIOUS
  <2>2. PICK p : p = <<a>> \o t
    OBVIOUS
  <2>3. <<a>> \o Append(t, b) = Append(p, b) /\ p \in Seq(S)
    BY <2>2
  <2>4. Filtered(Append(p, b), K) = IF b \in K THEN Append(Filtered(p, K), b) ELSE Filtered(p, K)
    BY <2>3, FilterAppend
  <2>5. Filtered(p, K) = First(f)
    BY <1>2, <2>1, <2>2
  <2>6. Filtered(Append(t, b), K) = IF b \in K THEN Append(f, b) ELSE f
    BY <2>1, FilterAppend
  <2>7. f \in Seq(S)
    BY <2>1, FilterType
  <2>8. First(Append(f, b)) = Append(First(f), b)
    BY <2>7
  <2>9. Append(t, b) \in Seq(S)
    OBVIOUS
  <2>10. Filtered(<<a>> \o Append(t, b), K) = First(Filtered(Append(t, b), K))
    <3> HIDE DEF First
    <3>1. CASE b \in K
      BY <2>3, <2>4, <2>5, <2>6, <2>8, <3>1, Zenon
    <3>2. CASE b \notin K
      BY <2>3, <2>4, <2>5, <2>6, <2>8, <3>2, Zenon
    <3> QED
      BY <3>1, <3>2
  <2> QED
    BY <2>9, <2>10
<1>3. Seq(S) \subseteq T
  <2> HIDE DEF T
  <2> QED
    BY <1>1, <1>2, SeqSetInduction
<1> QED
  BY <1>3

\* A sequence of items to keep is kept whole.
LEMMA FilterAll ==
  ASSUME NEW S, NEW K, NEW s \in Seq(S \cap K)
  PROVE  Filtered(s, K) = s
<1> DEFINE T == {t \in Seq(S \cap K) : Filtered(t, K) = t}
<1>1. <<>> \in T
  BY FilterEmpty
<1>2. ASSUME NEW t \in Seq(S \cap K), NEW b \in S \cap K, t \in T PROVE Append(t, b) \in T
  <2>1. Filtered(Append(t, b), K) = Append(Filtered(t, K), b)
    BY FilterAppend
  <2>2. PICK C : C = S \cap K
    OBVIOUS
  <2>3. Append(t, b) \in Seq(C)
    BY <2>2
  <2> QED
    BY <1>2, <2>1, <2>2, <2>3
<1>3. Seq(S \cap K) \subseteq T
  <2> HIDE DEF T
  <2> QED
    BY <1>1, <1>2, SeqSetInduction
<1> QED
  BY <1>3

\* What output_queue_discard_stale keeps when the generation is g.
FreshActs(g) == {a \in Plain : a.gen \in {0, g}}

FreshFor(s, g) == Picked(s, {i \in DOMAIN s : ~(s[i].gen # 0 /\ s[i].gen # g)})

\* output_queue_discard_stale picks actions by their value: their generation.
LEMMA FreshIs ==
  ASSUME NEW s \in Seq(Plain), NEW g
  PROVE  FreshFor(s, g) = Filtered(s, FreshActs(g))
<1>1. {i \in DOMAIN s : ~(s[i].gen # 0 /\ s[i].gen # g)} = {i \in DOMAIN s : s[i] \in FreshActs(g)}
  <2>1. \A i \in DOMAIN s : s[i] \in Plain
    OBVIOUS
  <2> QED
    BY <2>1 DEF FreshActs
<1> QED
  BY <1>1 DEF FreshFor, Filtered

\* Scoped actions do not move the target.
LEMMA ReplayFresh ==
  ASSUME NEW v \in View, NEW s \in Seq(Plain), NEW g
  PROVE  Replayed(v, Filtered(s, FreshActs(g))).target = Replayed(v, s).target
<1>0. PICK K : K = FreshActs(g)
  OBVIOUS
<1> DEFINE T == {t \in Seq(Plain) : Replayed(v, Filtered(t, K)).target = Replayed(v, t).target}
<1>1. <<>> \in T
  BY FilterEmpty
<1>2. ASSUME NEW t \in Seq(Plain), NEW a \in Plain, t \in T PROVE Append(t, a) \in T
  <2>1. PICK f \in Seq(Plain) : f = Filtered(t, K)
    BY FilterType
  <2>2. PICK x : x = Replayed(v, f)
    OBVIOUS
  <2>3. PICK y : y = Replayed(v, t)
    OBVIOUS
  <2>4. x \in View /\ y \in View /\ x.target = y.target
    BY <1>2, <2>1, <2>2, <2>3, ReplayType
  <2>5. Replayed(v, Append(t, a)) = Effect(y, a)
    BY <2>3, ReplayAppend
  <2>6. Append(t, a) \in Seq(Plain)
    OBVIOUS
  <2>7. CASE a \in K
    <3>1. Filtered(Append(t, a), K) = Append(f, a)
      BY <2>1, <2>7, FilterAppend
    <3>2. Replayed(v, Append(f, a)) = Effect(x, a)
      BY <2>2, ReplayAppend
    <3>3. Effect(x, a).target = Effect(y, a).target
      BY <2>4, EffectTarget
    <3> QED
      BY <3>1, <3>2, <3>3, <2>5, <2>6
  <2>8. CASE a \notin K
    <3>1. Filtered(Append(t, a), K) = f
      BY <2>1, <2>8, FilterAppend
    <3>2. a.type # "end"
      BY <2>8, <1>0 DEF FreshActs, Plain, Safety
    <3>3. Effect(y, a).target = y.target
      BY <2>4, <3>2, EffectTarget
    <3> QED
      BY <3>1, <3>3, <2>2, <2>4, <2>5, <2>6
  <2> QED
    BY <2>7, <2>8
<1>3. Seq(Plain) \subseteq T
  <2> HIDE DEF T
  <2> QED
    BY <1>1, <1>2, SeqSetInduction
<1> QED
  BY <1>0, <1>3

-----------------------------------------------------------------------------
(* Lemmas on what is queued                                                *)

\* What may be queued is of the types both views know.
LEMMA QueuedPlain ==
  ASSUME NEW g, NEW u
  PROVE  /\ Queued(g, u) \subseteq Plain
         /\ Seq(Queued(g, u)) \subseteq Seq(Plain)
<1>1. Queued(g, u) \subseteq Plain
  BY DEF Queued, Plain
<1> QED
  BY <1>1

\* Output of a generation that has ended may belong to anyone.
LEMMA Ended ==
  ASSUME NEW g \in Nat, NEW u, NEW w
  PROVE  /\ Queued(g, u) \subseteq Queued(g + 1, w)
         /\ Sent(g, u) \subseteq Sent(g + 1, w)
         /\ Events(g, u) \subseteq Events(g + 1, w)
         /\ Nestings(g, u) \subseteq Nestings(g + 1, w)
<1>1. Queued(g, u) \subseteq Queued(g + 1, w)
  BY DEF Queued, Current, Actions
<1>2. Sent(g, u) \subseteq Sent(g + 1, w)
  BY DEF Sent, Current, Actions
<1>3. Packets(g) \subseteq Packets(g + 1)
  BY DEF Packets, Actions
<1>4. Events(g, u) \subseteq Events(g + 1, w)
  <2> SUFFICES ASSUME NEW e \in Events(g, u) PROVE e \in Events(g + 1, w)
    OBVIOUS
  <2>1. e.action.gen # g + 1
    BY DEF Events, Packets, Sent
  <2>2. e.action \in (IF e.origin = "physical" THEN Packets(g + 1) ELSE Sent(g + 1, w))
    BY <1>2, <1>3 DEF Events
  <2> QED
    BY <2>1, <2>2 DEF Events
<1>5. Nestings(g, u) \subseteq Nestings(g + 1, w)
  BY DEF Nestings
<1> QED
  BY <1>1, <1>2, <1>4, <1>5

\* While the seat belongs to nobody, nothing of the current generation exists.
LEMMA Unowned ==
  ASSUME NEW g \in Nat, NEW w
  PROVE  /\ Queued(g, None) \subseteq Queued(g, w)
         /\ Sent(g, None) \subseteq Sent(g, w)
         /\ Events(g, None) \subseteq Events(g, w)
         /\ Nestings(g, None) \subseteq Nestings(g, w)
<1>0. \A c \in Conns : User[c] # None
  BY IdAssumption
<1>1. Queued(g, None) \subseteq Queued(g, w)
  BY <1>0 DEF Queued, Current
<1>2. Sent(g, None) \subseteq Sent(g, w)
  BY <1>0 DEF Sent, Current
<1>4. Events(g, None) \subseteq Events(g, w)
  <2> SUFFICES ASSUME NEW e \in Events(g, None) PROVE e \in Events(g, w)
    OBVIOUS
  <2>1. e.action.gen = g => e.subs = {}
    BY <1>0 DEF Events
  <2>2. e.action \in (IF e.origin = "physical" THEN Packets(g) ELSE Sent(g, w))
    BY <1>2 DEF Events
  <2> QED
    BY <2>1, <2>2 DEF Events
<1>5. Nestings(g, None) \subseteq Nestings(g, w)
  BY <1>0 DEF Nestings
<1> QED
  BY <1>1, <1>2, <1>4, <1>5

-----------------------------------------------------------------------------
(* Lemmas on the handlers' steps                                           *)

\* A handler's list of steps that is in order, and has the operations ops.
Listed(s, ops) ==
  /\ s \in Seq(StepType)
  /\ \A i, j \in 1..Len(s) : i < j => Follows(s[i].op, s[j].op)
  /\ \A i \in 1..Len(s) : s[i].op \in {"marker", "release"} => s[i].conn \in Conns
  /\ \A o \in Ops : (\E i \in 1..Len(s) : s[i].op = o) <=> o \in ops

GrabOps == {"sync", "grab", "class"}

\* The fields of a handler's steps.
LEMMA StepShape ==
  /\ \A op \in Ops : Step(op) \in StepType /\ Step(op).op = op
  /\ \A c \in Conns, hook \in BOOLEAN :
       /\ ReleaseStep(c, hook) \in StepType /\ ReleaseStep(c, hook).op = "release"
       /\ ReleaseStep(c, hook).conn = c /\ ReleaseStep(c, hook).hook = hook
       /\ MarkerStep(c) \in StepType /\ MarkerStep(c).op = "marker" /\ MarkerStep(c).conn = c
  /\ \A u \in Users \cup {None} :
       LET s == [Step("seat") EXCEPT !.user = u]
       IN  s \in StepType /\ s.op = "seat" /\ s.user = u
<1>1. \A op \in Ops : Step(op) \in StepType /\ Step(op).op = op
  BY DEF Step, StepType
<1>2. \A c \in Conns, hook \in BOOLEAN :
        /\ ReleaseStep(c, hook) \in StepType /\ ReleaseStep(c, hook).op = "release"
        /\ ReleaseStep(c, hook).conn = c /\ ReleaseStep(c, hook).hook = hook
  BY DEF Step, StepType, ReleaseStep, Ops
<1>3. \A c \in Conns :
        MarkerStep(c) \in StepType /\ MarkerStep(c).op = "marker" /\ MarkerStep(c).conn = c
  BY DEF Step, StepType, MarkerStep, Ops
<1>4. \A u \in Users \cup {None} :
        LET s == [Step("seat") EXCEPT !.user = u]
        IN  s \in StepType /\ s.op = "seat" /\ s.user = u
  BY DEF Step, StepType, Ops
<1> QED
  BY <1>1, <1>2, <1>3, <1>4

\* The lists that the handlers start with.
LEMMA EmptyList == Listed(<<>>, {})
BY DEF Listed

\* update_grab_state is a well-ordered list of steps.
LEMMA GrabList == Listed(UpdateGrabs, GrabOps)
<1>1. PICK s : s = UpdateGrabs
  OBVIOUS
<1>2. s = <<Step("sync"), Step("grab"), Step("class")>>
  BY <1>1 DEF UpdateGrabs
<1>3. Len(s) = 3 /\ s[1] = Step("sync") /\ s[2] = Step("grab") /\ s[3] = Step("class")
  BY <1>2
<1>4. s[1].op = "sync" /\ s[2].op = "grab" /\ s[3].op = "class"
  BY <1>3, StepShape DEF Ops
<1>5. s \in Seq(StepType)
  BY <1>2, StepShape DEF Ops
<1>6. \A i \in 1..Len(s) : i = 1 \/ i = 2 \/ i = 3
  BY <1>3
<1> QED
  <2>1. \A i, j \in 1..Len(s) : i < j => Follows(s[i].op, s[j].op)
    BY <1>3, <1>4, <1>6 DEF Follows, LastOps
  <2>2. \A i \in 1..Len(s) : s[i].op \notin {"marker", "release"}
    BY <1>4, <1>6
  <2>3. \A o \in Ops : (\E i \in 1..Len(s) : s[i].op = o) <=> o \in GrabOps
    <3>1. 1 \in 1..Len(s) /\ 2 \in 1..Len(s) /\ 3 \in 1..Len(s)
      BY <1>3
    <3> QED
      BY <3>1, <1>4, <1>6 DEF GrabOps
  <2> QED
    BY <1>1, <1>5, <2>1, <2>2, <2>3 DEF Listed

\* One step is a well-ordered list.
LEMMA OneList ==
  ASSUME NEW x \in StepType, x.op \in {"marker", "release"} => x.conn \in Conns
  PROVE  Listed(<<x>>, {x.op})
<1>1. PICK s : s = <<x>>
  OBVIOUS
<1>2. Len(s) = 1 /\ s[1] = x /\ s \in Seq(StepType)
  BY <1>1
<1>3. \A i \in 1..Len(s) : i = 1
  BY <1>2
<1>4. 1 \in 1..Len(s)
  BY <1>2
<1> QED
  BY <1>1, <1>2, <1>3, <1>4 DEF Listed

\* Lists that may follow each other make one.
LEMMA ListConcat ==
  ASSUME NEW s, NEW t, NEW I, NEW J, Listed(s, I), Listed(t, J),
         \A x \in I, y \in J : Follows(x, y)
  PROVE  Listed(s \o t, I \cup J)
<1>1. PICK r : r = s \o t
  OBVIOUS
<1>2. s \in Seq(StepType) /\ t \in Seq(StepType)
  BY DEF Listed
<1>3. /\ r \in Seq(StepType) /\ Len(r) = Len(s) + Len(t) /\ Len(s) \in Nat /\ Len(t) \in Nat
      /\ \A i \in 1..Len(s) : r[i] = s[i] /\ i \in 1..Len(r)
      /\ \A i \in 1..Len(t) : r[i + Len(s)] = t[i] /\ i + Len(s) \in 1..Len(r)
      /\ \A i \in 1..Len(r) : i \in 1..Len(s) \/ (i - Len(s) \in 1..Len(t) /\ r[i] = t[i - Len(s)])
  BY <1>1, <1>2
<1>4. /\ \A i \in 1..Len(s) : s[i].op \in I
      /\ \A i \in 1..Len(t) : t[i].op \in J
  <2>1. /\ \A i \in 1..Len(s) : s[i].op \in Ops
        /\ \A i \in 1..Len(t) : t[i].op \in Ops
    <3>1. \A x \in StepType : x.op \in Ops
      BY DEF StepType
    <3> QED
      BY <1>2, <3>1
  <2> QED
    BY <2>1 DEF Listed
<1>5. ASSUME NEW i \in 1..Len(r), NEW j \in 1..Len(r), i < j
      PROVE  Follows(r[i].op, r[j].op)
  <2>1. CASE j \in 1..Len(s)
    <3>1. i \in 1..Len(s)
      BY <1>5, <2>1, <1>3
    <3> QED
      BY <1>3, <1>5, <2>1, <3>1 DEF Listed
  <2>2. CASE j \notin 1..Len(s) /\ i \in 1..Len(s)
    <3>1. r[j].op \in J /\ r[i].op \in I
      BY <2>2, <1>3, <1>4
    <3> QED
      BY <3>1
  <2>3. CASE i \notin 1..Len(s) /\ j \notin 1..Len(s)
    <3>1. PICK m, n \in 1..Len(t) : m = i - Len(s) /\ n = j - Len(s) /\ r[i] = t[m] /\ r[j] = t[n]
      BY <1>3, <2>3
    <3>2. m < n
      BY <1>3, <1>5, <3>1
    <3> QED
      BY <3>1, <3>2 DEF Listed
  <2> QED
    BY <2>1, <2>2, <2>3
<1>6. ASSUME NEW i \in 1..Len(r), r[i].op \in {"marker", "release"} PROVE r[i].conn \in Conns
  <2>1. CASE i \in 1..Len(s)
    BY <2>1, <1>3, <1>6 DEF Listed
  <2>2. CASE i \notin 1..Len(s)
    <3>1. PICK m \in 1..Len(t) : r[i] = t[m]
      BY <1>3, <2>2
    <3> QED
      BY <3>1, <1>6 DEF Listed
  <2> QED
    BY <2>1, <2>2
<1>7. ASSUME NEW o \in Ops PROVE (\E i \in 1..Len(r) : r[i].op = o) <=> o \in I \cup J
  <2>1. (\E i \in 1..Len(s) : s[i].op = o) <=> o \in I
    BY DEF Listed
  <2>2. (\E i \in 1..Len(t) : t[i].op = o) <=> o \in J
    BY DEF Listed
  <2>3. ASSUME NEW i \in 1..Len(r), r[i].op = o PROVE o \in I \cup J
    BY <2>3, <1>3, <1>4
  <2>4. ASSUME o \in I PROVE \E i \in 1..Len(r) : r[i].op = o
    BY <2>1, <2>4, <1>3
  <2>5. ASSUME o \in J PROVE \E i \in 1..Len(r) : r[i].op = o
    BY <2>2, <2>5, <1>3
  <2> QED
    BY <2>3, <2>4, <2>5
<1> QED
  BY <1>1, <1>3, <1>5, <1>6, <1>7 DEF Listed

\* So is a step that names no connection.
LEMMA StepList == ASSUME NEW op \in Ops \ {"marker", "release"} PROVE Listed(<<Step(op)>>, {op})
<1>1. Step(op) \in StepType /\ Step(op).op = op
  BY StepShape
<1>2. PICK x \in StepType : x = Step(op)
  BY <1>1
<1>3. Listed(<<x>>, {x.op})
  BY <1>1, <1>2, OneList
<1> QED
  BY <1>1, <1>2, <1>3

\* A list whose last step is x.
Ends(s, x) == \E i \in 1..Len(s) : s[i] = x

\* A list ends with the step put last.
LEMMA EndsWith ==
  ASSUME NEW s \in Seq(StepType), NEW x \in StepType
  PROVE  Ends(s \o <<x>>, x)
<1>1. s \o <<x>> = Append(s, x) /\ Len(s) + 1 \in 1..Len(Append(s, x)) /\ Append(s, x)[Len(s) + 1] = x
  OBVIOUS
<1> QED
  BY <1>1 DEF Ends

\* Tuples written out are concatenations, one step at a time.
LEMMA Tuples ==
  ASSUME NEW S, NEW x \in S, NEW y \in S, NEW z \in S
  PROVE  <<x>> \o <<y>> = <<x, y>> /\ (<<x>> \o <<y>>) \o <<z>> = <<x, y, z>>
<1>0. <<x>> \in Seq(S) /\ <<x, y>> \in Seq(S)
  OBVIOUS
<1>1. PICK s \in Seq(S) : s = <<x>>
  BY <1>0
<1>2. PICK t \in Seq(S) : t = <<x, y>>
  BY <1>0
<1>3. s \o <<y>> = Append(s, y)
  BY SeqFacts
<1>4. t \o <<z>> = Append(t, z)
  BY SeqFacts
<1>5. <<x, y>> = Append(<<x>>, y)
  OBVIOUS
<1>6. <<x, y, z>> = Append(<<x, y>>, z)
  OBVIOUS
<1> QED
  BY <1>1, <1>2, <1>3, <1>4, <1>5, <1>6, Zenon

\* The steps of an unsubscription end with the release of the hook's holds.
LEMMA UnsubscribeList ==
  ASSUME NEW c \in Conns
  PROVE  /\ Listed(UnsubscribeSteps(c), {"sync", "grab", "class", "release"})
         /\ Ends(UnsubscribeSteps(c), ReleaseStep(c, TRUE))
<1>1. PICK x \in StepType : x = ReleaseStep(c, TRUE) /\ x.op = "release" /\ x.conn = c
  BY StepShape
<1>2. Listed(<<x>>, {"release"})
  BY <1>1, OneList
<1>3. \A o \in GrabOps : Follows(o, "release")
  BY DEF GrabOps, Follows, LastOps
<1>4. PICK g : g = UpdateGrabs
  OBVIOUS
<1>5. Listed(g, GrabOps)
  BY <1>4, GrabList
<1>6. Listed(g \o <<x>>, GrabOps \cup {"release"})
  BY <1>2, <1>3, <1>5, ListConcat
<1>7. g \in Seq(StepType)
  BY <1>5 DEF Listed
<1>8. GrabOps \cup {"release"} = {"sync", "grab", "class", "release"}
  BY DEF GrabOps
<1>9. UnsubscribeSteps(c) = g \o <<x>>
  BY <1>1, <1>4 DEF UnsubscribeSteps
<1>10. Ends(g \o <<x>>, x)
  BY <1>7, EndsWith
<1> QED
  BY <1>1, <1>6, <1>8, <1>9, <1>10, Zenon

\* So do those of a quarantine.
LEMMA QuarantineList ==
  ASSUME NEW c \in Conns
  PROVE  /\ Listed(<<Step("sync"), ReleaseStep(c, TRUE)>>, {"sync", "release"})
         /\ Ends(<<Step("sync"), ReleaseStep(c, TRUE)>>, ReleaseStep(c, TRUE))
<1>1. PICK x \in StepType : x = ReleaseStep(c, TRUE) /\ x.op = "release" /\ x.conn = c
  BY StepShape
<1>2. Listed(<<x>>, {"release"})
  BY <1>1, OneList
<1>3. Follows("sync", "release")
  BY DEF Follows, LastOps
<1>4. PICK y \in StepType : y = Step("sync")
  BY StepShape DEF Ops
<1>5. Listed(<<y>>, {"sync"})
  BY <1>4, StepList DEF Ops
<1>6. Listed(<<y>> \o <<x>>, {"sync"} \cup {"release"})
  BY <1>2, <1>3, <1>5, ListConcat
<1>7. <<y>> \in Seq(StepType) /\ <<y>> \o <<x>> = <<y, x>>
  BY Tuples
<1>8. {"sync"} \cup {"release"} = {"sync", "release"}
  OBVIOUS
<1>9. Ends(<<y>> \o <<x>>, x)
  BY <1>7, EndsWith
<1>10. Listed(<<y, x>>, {"sync", "release"}) /\ Ends(<<y, x>>, x)
  BY <1>6, <1>7, <1>8, <1>9, Zenon
<1> QED
  BY <1>1, <1>4, <1>10, Zenon

\* The steps of a disconnect end with the connection's marker.
LEMMA DisconnectList ==
  ASSUME NEW c \in Conns
  PROVE  /\ Listed(UpdateGrabs \o <<MarkerStep(c)>>, {"sync", "grab", "class", "marker"})
         /\ Ends(UpdateGrabs \o <<MarkerStep(c)>>, MarkerStep(c))
<1>1. PICK x \in StepType : x = MarkerStep(c) /\ x.op = "marker" /\ x.conn = c
  BY StepShape
<1>2. Listed(<<x>>, {"marker"})
  BY <1>1, OneList
<1>3. \A o \in GrabOps : Follows(o, "marker")
  BY DEF GrabOps, Follows, LastOps
<1>4. PICK g : g = UpdateGrabs
  OBVIOUS
<1>5. Listed(g, GrabOps)
  BY <1>4, GrabList
<1>6. Listed(g \o <<x>>, GrabOps \cup {"marker"})
  BY <1>2, <1>3, <1>5, ListConcat
<1>7. g \in Seq(StepType)
  BY <1>5 DEF Listed
<1>8. GrabOps \cup {"marker"} = {"sync", "grab", "class", "marker"}
  BY DEF GrabOps
<1>9. Ends(g \o <<x>>, x)
  BY <1>7, EndsWith
<1> QED
  BY <1>1, <1>4, <1>6, <1>8, <1>9, Zenon

\* The steps of a seat change.
LEMMA SeatList ==
  ASSUME NEW u \in Users \cup {None}
  PROVE  Listed(SeatSteps(u), {"flush", "wait", "sync", "grab", "class", "discard", "all", "seat"})
<1>0. [Step("seat") EXCEPT !.user = u] \in StepType /\ [Step("seat") EXCEPT !.user = u].op = "seat"
  BY DEF Step, StepType, Ops
<1>1. PICK x \in StepType : x = [Step("seat") EXCEPT !.user = u] /\ x.op = "seat"
  BY <1>0
<1>2. Listed(<<x>>, {"seat"})
  BY <1>1, OneList
<1>3. PICK f \in StepType : f = Step("flush")
  BY StepShape DEF Ops
<1>4. PICK w \in StepType : w = Step("wait")
  BY StepShape DEF Ops
<1>5. PICK d \in StepType : d = Step("discard")
  BY StepShape DEF Ops
<1>6. PICK a \in StepType : a = Step("all")
  BY StepShape DEF Ops
<1>7. PICK g : g = UpdateGrabs
  OBVIOUS
<1>8. /\ Listed(<<f>>, {"flush"}) /\ Listed(<<w>>, {"wait"})
      /\ Listed(<<d>>, {"discard"}) /\ Listed(<<a>>, {"all"}) /\ Listed(g, GrabOps)
  BY <1>3, <1>4, <1>5, <1>6, <1>7, StepList, GrabList DEF Ops
<1>9. Listed(<<f>> \o <<w>>, {"flush"} \cup {"wait"})
  BY <1>8, ListConcat DEF Follows, LastOps
<1>10. <<f>> \o <<w>> = <<f, w>> /\ (<<d>> \o <<a>>) \o <<x>> = <<d, a, x>>
  BY Tuples
<1>11. Listed(<<d>> \o <<a>>, {"discard"} \cup {"all"})
  BY <1>8, ListConcat DEF Follows, LastOps
<1>12. Listed((<<d>> \o <<a>>) \o <<x>>, ({"discard"} \cup {"all"}) \cup {"seat"})
  <2>1. \A i \in {"discard"} \cup {"all"}, j \in {"seat"} : Follows(i, j)
    BY DEF Follows, LastOps
  <2> QED
    BY <1>2, <1>11, <2>1, ListConcat
<1>13. Listed(<<f, w>>, {"flush"} \cup {"wait"})
  BY <1>9, <1>10, Zenon
<1>14. Listed(<<d, a, x>>, ({"discard"} \cup {"all"}) \cup {"seat"})
  BY <1>10, <1>12, Zenon
<1>15. PICK s : s = <<f, w>>
  OBVIOUS
<1>16. PICK t : t = <<d, a, x>>
  OBVIOUS
<1>17. Listed(s \o g, ({"flush"} \cup {"wait"}) \cup GrabOps)
  <2>1. \A i \in {"flush"} \cup {"wait"}, j \in GrabOps : Follows(i, j)
    BY DEF Follows, LastOps, GrabOps
  <2> QED
    BY <1>8, <1>13, <1>15, <2>1, ListConcat
<1>18. Listed((s \o g) \o t,
              (({"flush"} \cup {"wait"}) \cup GrabOps) \cup (({"discard"} \cup {"all"}) \cup {"seat"}))
  <2>1. \A i \in ({"flush"} \cup {"wait"}) \cup GrabOps,
           j \in ({"discard"} \cup {"all"}) \cup {"seat"} : Follows(i, j)
    BY DEF Follows, LastOps, GrabOps
  <2> QED
    BY <1>14, <1>16, <1>17, <2>1, ListConcat
<1>19. (({"flush"} \cup {"wait"}) \cup GrabOps) \cup (({"discard"} \cup {"all"}) \cup {"seat"})
       = {"flush", "wait", "sync", "grab", "class", "discard", "all", "seat"}
  BY DEF GrabOps
<1>20. SeatSteps(u) = (s \o g) \o t
  BY <1>1, <1>3, <1>4, <1>5, <1>6, <1>7, <1>15, <1>16, Zenon DEF SeatSteps
<1> QED
  BY <1>18, <1>19, <1>20, Zenon

\* The steps of a permission fence.
LEMMA FenceList ==
  Listed(<<Step("flush"), Step("discard"), Step("all")>> \o UpdateGrabs,
         {"flush", "discard", "all", "sync", "grab", "class"})
<1>3. PICK f \in StepType : f = Step("flush")
  BY StepShape DEF Ops
<1>5. PICK d \in StepType : d = Step("discard")
  BY StepShape DEF Ops
<1>6. PICK a \in StepType : a = Step("all")
  BY StepShape DEF Ops
<1>7. PICK g : g = UpdateGrabs
  OBVIOUS
<1>8. /\ Listed(<<f>>, {"flush"}) /\ Listed(<<d>>, {"discard"}) /\ Listed(<<a>>, {"all"})
      /\ Listed(g, GrabOps)
  BY <1>3, <1>5, <1>6, <1>7, StepList, GrabList DEF Ops
<1>9. Listed(<<f>> \o <<d>>, {"flush"} \cup {"discard"})
  BY <1>8, ListConcat DEF Follows, LastOps
<1>10. Listed((<<f>> \o <<d>>) \o <<a>>, ({"flush"} \cup {"discard"}) \cup {"all"})
  <2>1. \A i \in {"flush"} \cup {"discard"}, j \in {"all"} : Follows(i, j)
    BY DEF Follows, LastOps
  <2> QED
    BY <1>8, <1>9, <2>1, ListConcat
<1>11. (<<f>> \o <<d>>) \o <<a>> = <<f, d, a>>
  BY Tuples
<1>12. Listed(<<f, d, a>>, ({"flush"} \cup {"discard"}) \cup {"all"})
  BY <1>10, <1>11, Zenon
<1>13. PICK s : s = <<f, d, a>>
  OBVIOUS
<1>14. Listed(s \o g, (({"flush"} \cup {"discard"}) \cup {"all"}) \cup GrabOps)
  <2>1. \A i \in ({"flush"} \cup {"discard"}) \cup {"all"}, j \in GrabOps : Follows(i, j)
    BY DEF Follows, LastOps, GrabOps
  <2> QED
    BY <1>8, <1>12, <1>13, <2>1, ListConcat
<1>15. (({"flush"} \cup {"discard"}) \cup {"all"}) \cup GrabOps
       = {"flush", "discard", "all", "sync", "grab", "class"}
  BY DEF GrabOps
<1> QED
  BY <1>3, <1>5, <1>6, <1>7, <1>13, <1>14, <1>15, Zenon

\* The steps of fail-open.
LEMMA FailOpenList == Listed(<<Step("flush")>> \o UpdateGrabs, {"flush", "sync", "grab", "class"})
<1>1. PICK s : s = <<Step("flush")>>
  OBVIOUS
<1>2. Listed(s, {"flush"})
  BY <1>1, StepList DEF Ops
<1>3. PICK g : g = UpdateGrabs
  OBVIOUS
<1>4. Listed(g, GrabOps)
  BY <1>3, GrabList
<1>5. \A i \in {"flush"}, j \in GrabOps : Follows(i, j)
  BY DEF Follows, LastOps, GrabOps
<1>6. Listed(s \o g, {"flush"} \cup GrabOps)
  BY <1>2, <1>4, <1>5, ListConcat
<1>7. {"flush"} \cup GrabOps = {"flush", "sync", "grab", "class"}
  BY DEF GrabOps
<1> QED
  BY <1>1, <1>3, <1>6, <1>7, Zenon

\* Nothing is left to do in an idle main thread.
LEMMA IdleHas ==
  ASSUME Idle
  PROVE  /\ \A o : ~Has(o)
         /\ ~Fencing
         /\ \A c : ~Releasing(c) /\ ~Closing(c)
BY DEF Idle, Has, Fencing, Releasing, Closing

\* A fence is open while RELEASE_ALL is among the steps.
LEMMA FencingHas ==
  ASSUME todo \in Seq(StepType)
  PROVE  /\ Fencing <=> Has("all")
         /\ todo' \in Seq(StepType) => (Fencing' <=> Has("all")')
BY DEF Fencing, Has

\* A new handler starts.
LEMMA Started ==
  ASSUME NEW s, NEW I, Listed(s, I), todo' = s
  PROVE  /\ todo' \in Seq(StepType)
         /\ \A o \in Ops : Has(o)' <=> o \in I
         /\ \A i, j \in 1..Len(todo') : i < j => Follows(todo'[i].op, todo'[j].op)
         /\ \A i \in 1..Len(todo') : todo'[i].op \in {"marker", "release"} => todo'[i].conn \in Conns
         /\ \A c \in Conns, hook \in BOOLEAN : Ends(s, ReleaseStep(c, hook)) => Releasing(c)'
         /\ \A c \in Conns : Ends(s, MarkerStep(c)) => Closing(c)'
<1>1. todo' \in Seq(StepType)
  BY DEF Listed
<1>2. \A o \in Ops : Has(o)' <=> o \in I
  BY DEF Listed, Has
<1>3. \A i, j \in 1..Len(todo') : i < j => Follows(todo'[i].op, todo'[j].op)
  BY DEF Listed
<1>4. \A i \in 1..Len(todo') : todo'[i].op \in {"marker", "release"} => todo'[i].conn \in Conns
  BY DEF Listed
<1>5. \A c \in Conns, hook \in BOOLEAN : Ends(s, ReleaseStep(c, hook)) => Releasing(c)'
  BY StepShape DEF Ends, Releasing
<1>6. \A c \in Conns : Ends(s, MarkerStep(c)) => Closing(c)'
  <2>1. \A c \in Conns : MarkerStep(c).op = "marker" /\ MarkerStep(c).conn = c
    BY DEF MarkerStep, Step
  <2> QED
    BY <2>1 DEF Ends, Closing
<1> QED
  BY <1>1, <1>2, <1>3, <1>4, <1>5, <1>6

\* A handler takes its next step.
LEMMA Advance ==
  ASSUME todo \in Seq(StepType), TodoOrder, NEW op, NextStep(op)
  PROVE  /\ todo' \in Seq(StepType)
         /\ Has(op)
         /\ \A o : o # op => (Has(o)' <=> Has(o))
         /\ \A i, j \in 1..Len(todo') : i < j => Follows(todo'[i].op, todo'[j].op)
         /\ \A i \in 1..Len(todo') : todo'[i].op \in {"marker", "release"} => todo'[i].conn \in Conns
         /\ op # "release" => \A c : Releasing(c)' <=> Releasing(c)
         /\ op # "marker" => \A c : Closing(c)' <=> Closing(c)
         /\ \A o : Has(o)' => Follows(op, o)
<1>1. /\ todo # <<>> /\ Head(todo).op = op /\ todo' = Tail(todo)
  BY DEF NextStep
<1>2. /\ todo' \in Seq(StepType) /\ Len(todo) \in Nat /\ Len(todo) > 0 /\ Len(todo') = Len(todo) - 1
      /\ todo[1].op = op
      /\ \A i \in 1..Len(todo') : todo'[i] = todo[i + 1] /\ i + 1 \in 1..Len(todo)
      /\ \A i \in 1..Len(todo) : i # 1 => i - 1 \in 1..Len(todo') /\ todo'[i - 1] = todo[i]
  BY <1>1
<1>3. ASSUME NEW o, o # op PROVE Has(o)' <=> Has(o)
  BY <1>2, <1>3 DEF Has
<1>4. Has(op)
  BY <1>2 DEF Has
<1>5. \A i, j \in 1..Len(todo') : i < j => Follows(todo'[i].op, todo'[j].op)
  <2> SUFFICES ASSUME NEW i \in 1..Len(todo'), NEW j \in 1..Len(todo'), i < j
               PROVE  Follows(todo'[i].op, todo'[j].op)
    OBVIOUS
  <2>1. i + 1 < j + 1 /\ i + 1 \in 1..Len(todo) /\ j + 1 \in 1..Len(todo)
    BY <1>2
  <2>2. Follows(todo[i + 1].op, todo[j + 1].op)
    BY <2>1 DEF TodoOrder
  <2> QED
    BY <2>2, <1>2
<1>6. \A i \in 1..Len(todo') : todo'[i].op \in {"marker", "release"} => todo'[i].conn \in Conns
  BY <1>2 DEF TodoOrder
<1>7. op # "release" => \A c : Releasing(c)' <=> Releasing(c)
  BY <1>2 DEF Releasing
<1>8. op # "marker" => \A c : Closing(c)' <=> Closing(c)
  BY <1>2 DEF Closing
<1>9. ASSUME NEW o, Has(o)' PROVE Follows(op, o)
  <2>1. PICK i \in 1..Len(todo') : todo'[i].op = o
    BY <1>9 DEF Has
  <2>2. 1 < i + 1 /\ 1 \in 1..Len(todo) /\ i + 1 \in 1..Len(todo)
    BY <1>2
  <2>3. Follows(todo[1].op, todo[i + 1].op)
    BY <2>2 DEF TodoOrder
  <2> QED
    BY <2>1, <2>3, <1>2
<1> QED
  BY <1>2, <1>3, <1>4, <1>5, <1>6, <1>7, <1>8, <1>9

\* The steps that end their handler are alone when their turn comes.
LEMMA Alone ==
  ASSUME todo \in Seq(StepType), TodoOrder, todo # <<>>, Head(todo).op \in LastOps
  PROVE  /\ Tail(todo) = <<>> /\ Len(todo) = 1
         /\ \A o : Has(o) <=> o = Head(todo).op
         /\ \A c : Closing(c) <=> Head(todo).op = "marker" /\ c = Head(todo).conn
         /\ \A c : Releasing(c) <=> Head(todo).op = "release" /\ c = Head(todo).conn
         /\ Head(todo).op \in {"marker", "release"} => Head(todo).conn \in Conns
<1>1. Len(todo) \in Nat /\ Len(todo) > 0 /\ todo[1] = Head(todo)
  OBVIOUS
<1>2. ~(Len(todo) > 1)
  <2> SUFFICES ASSUME Len(todo) > 1 PROVE FALSE
    OBVIOUS
  <2>1. 1 < 2 /\ 1 \in 1..Len(todo) /\ 2 \in 1..Len(todo)
    BY <1>1
  <2>2. Follows(todo[1].op, todo[2].op)
    BY <2>1 DEF TodoOrder
  <2> QED
    BY <2>2, <1>1 DEF Follows
<1>3. Len(todo) = 1 /\ Tail(todo) = <<>>
  <2>1. Len(todo) = 1
    BY <1>1, <1>2
  <2>2. Tail(todo) \in Seq(StepType) /\ Len(Tail(todo)) = 0
    BY <2>1, <1>1
  <2>3. \A x \in Seq(StepType) : Len(x) = 0 => x = <<>>
    OBVIOUS
  <2> QED
    BY <2>1, <2>2, <2>3, Zenon
<1>4. 1 \in 1..Len(todo) /\ \A i \in 1..Len(todo) : i = 1
  BY <1>3
<1>5. Head(todo).op \in {"marker", "release"} => Head(todo).conn \in Conns
  BY <1>1, <1>4 DEF TodoOrder
<1> QED
  BY <1>1, <1>3, <1>4, <1>5 DEF Has, Closing, Releasing

-----------------------------------------------------------------------------
(* The main thread keeps its part of the invariant                         *)

MainInv == TodoOrder /\ OwnersFollow /\ OwnedFollows /\ RevokedEnds /\ ClosedKnown

mains == <<clients, unused, hooks, owned, seat, todo, owners>>

\* MainInv depends on the main thread's variables and the owners only.
LEMMA MainQuiet ==
  ASSUME MainInv, UNCHANGED mains
  PROVE  MainInv'
<1> USE DEF mains, Has, Releasing, Closing
<1>1. TodoOrder'
  BY DEF MainInv, TodoOrder
<1>2. OwnersFollow'
  BY DEF MainInv, OwnersFollow
<1>3. OwnedFollows'
  BY DEF MainInv, OwnedFollows
<1>4. RevokedEnds'
  BY DEF MainInv, RevokedEnds, ClassEnds, Active
<1>5. ClosedKnown'
  BY DEF MainInv, ClosedKnown, Closed
<1> QED
  BY <1>1, <1>2, <1>3, <1>4, <1>5 DEF MainInv

\* While no sync is owed, the queue knows exactly the subscribed hooks, so no
\* revoked hook is left.
LEMMA Synced ==
  ASSUME TypeOK, OwnersFollow, ~Has("sync")
  PROVE  /\ \A c \in Conns : (owners[c] = "hooked" <=> c \in hooks)
         /\ \A c \in Closed : owners[c] = "gone"
BY DEF TypeOK, OwnersFollow, Closed

\* What an idle main thread's handler finds.
LEMMA IdleMain ==
  ASSUME TypeOK, MainInv, Idle
  PROVE  /\ \A c \in Conns : (owners[c] = "hooked" <=> c \in hooks)
         /\ \A c \in Closed : owners[c] = "gone"
         /\ \A c \in Conns : User[c] = seat /\ c \in hooks => owned
<1>1. ~Has("sync") /\ ~Has("class")
  BY IdleHas
<1> QED
  BY <1>1, Synced DEF MainInv, OwnedFollows

\* A handler that starts with a sync and holds a class step.
LEMMA Syncing ==
  ASSUME TypeOK, MainInv, Idle, NEW I \in SUBSET Ops, NEW s, Listed(s, I), todo' = s,
         "sync" \in I, "wait" \in I => "all" \in I, "seat" \in I => seat' = None,
         UNCHANGED <<unused, owned, owners>>,
         clients' \subseteq clients, hooks' \subseteq clients',
         \A c \in Conns : c \in hooks' \ hooks => "class" \in I,
         seat' \in {seat, None},
         \A c \in clients \ clients' : Closing(c)',
         seat' = seat => \A c \in hooks \cap clients' : c \notin hooks' /\ User[c] = seat =>
           Releasing(c)' \/ (hooks' = {} /\ "class" \in I)
  PROVE  MainInv' /\ todo' \in Seq(StepType)
<1>1. /\ todo' \in Seq(StepType)
      /\ \A o \in Ops : Has(o)' <=> o \in I
      /\ \A i, j \in 1..Len(todo') : i < j => Follows(todo'[i].op, todo'[j].op)
      /\ \A i \in 1..Len(todo') : todo'[i].op \in {"marker", "release"} => todo'[i].conn \in Conns
  BY Started
<1>2. TodoOrder'
  BY <1>1 DEF TodoOrder, Ops
<1>3. Has("sync")' /\ (Has("class")' <=> "class" \in I)
  BY <1>1 DEF Ops
<1>4. OwnersFollow'
  BY <1>3 DEF MainInv, OwnersFollow
<1>5. \A c \in Conns : User[c] # None
  BY IdAssumption
<1>6. OwnedFollows'
  BY <1>3, <1>5, IdleMain DEF OwnedFollows
<1>7. RevokedEnds'
  <2> SUFFICES ASSUME NEW c \in Conns, owners'[c] = "hooked", User[c] = seat', c \in clients' \ hooks'
               PROVE  Releasing(c)' \/ ClassEnds'
    BY DEF RevokedEnds
  <2>1. seat' = seat /\ c \in hooks /\ owned
    BY <1>5, IdleMain
  <2>2. Releasing(c)' \/ (hooks' = {} /\ "class" \in I)
    BY <2>1
  <2>3. hooks' = {} => Active' = {}
    BY DEF Active
  <2> QED
    BY <1>3, <2>1, <2>2, <2>3 DEF ClassEnds
<1>8. ClosedKnown'
  <2> SUFFICES ASSUME NEW c \in Closed', owners'[c] # "gone" PROVE Closing(c)'
    BY DEF ClosedKnown
  <2>1. c \in Conns /\ c \notin clients' /\ c \notin unused
    BY DEF Closed
  <2>2. c \in clients
    BY <2>1, IdleMain DEF Closed
  <2> QED
    BY <2>1, <2>2
<1> QED
  BY <1>1, <1>2, <1>4, <1>6, <1>7, <1>8 DEF MainInv

\* A step that only shortens the handler's list, by a step that no other part of
\* MainInv is about.
LEMMA Passing ==
  ASSUME TypeOK, MainInv, NEW op \in {"grab", "generic", "flush", "wait", "discard", "all"},
         NextStep(op), UNCHANGED <<clients, unused, hooks, owned, seat, owners>>
  PROVE  MainInv' /\ todo' \in Seq(StepType)
<1>0. todo \in Seq(StepType) /\ TodoOrder
  BY DEF TypeOK, MainInv
<1>1. /\ todo' \in Seq(StepType)
      /\ \A o : o # op => (Has(o)' <=> Has(o))
      /\ \A i, j \in 1..Len(todo') : i < j => Follows(todo'[i].op, todo'[j].op)
      /\ \A i \in 1..Len(todo') : todo'[i].op \in {"marker", "release"} => todo'[i].conn \in Conns
      /\ \A c : Releasing(c)' <=> Releasing(c)
      /\ \A c : Closing(c)' <=> Closing(c)
      /\ \A o : Has(o)' => Follows(op, o)
      /\ Has(op)
  BY <1>0, Advance
<1>2. Has("wait")' => Has("all")'
  <2>1. CASE op = "all"
    BY <1>1, <2>1 DEF Follows
  <2>2. CASE op # "all"
    <3>1. Has("wait")' => Has("wait")
      BY <1>1
    <3> QED
      BY <1>0, <1>1, <2>2, <3>1 DEF TodoOrder
  <2> QED
    BY <2>1, <2>2
<1>3. TodoOrder'
  BY <1>0, <1>1, <1>2 DEF TodoOrder
<1>4. (Has("sync")' <=> Has("sync")) /\ (Has("class")' <=> Has("class"))
  BY <1>1
<1>5. OwnersFollow'
  BY <1>4 DEF MainInv, OwnersFollow
<1>6. OwnedFollows'
  BY <1>4 DEF MainInv, OwnedFollows
<1>7. RevokedEnds'
  BY <1>1, <1>4 DEF MainInv, RevokedEnds, ClassEnds, Active
<1>8. ClosedKnown'
  BY <1>1 DEF MainInv, ClosedKnown, Closed
<1> QED
  BY <1>1, <1>3, <1>5, <1>6, <1>7, <1>8 DEF MainInv

\* The last step of a handler, after which nothing or a list without sync is left.
LEMMA Finishing ==
  ASSUME TypeOK, MainInv, ~Has("sync"), ~Has("class"),
         UNCHANGED <<clients, unused, hooks, owned, seat, owners>>,
         todo' \in {<<>>, <<Step("generic")>>}
  PROVE  MainInv' /\ todo' \in Seq(StepType)
<1>1. PICK I \in {{}, {"generic"}} : Listed(todo', I)
  <2>1. Listed(<<>>, {})
    BY EmptyList
  <2>2. Listed(<<Step("generic")>>, {"generic"})
    BY StepList DEF Ops
  <2> QED
    BY <2>1, <2>2
<1>2. /\ todo' \in Seq(StepType)
      /\ \A o \in Ops : Has(o)' <=> o \in I
      /\ \A i, j \in 1..Len(todo') : i < j => Follows(todo'[i].op, todo'[j].op)
      /\ \A i \in 1..Len(todo') : todo'[i].op \in {"marker", "release"} => todo'[i].conn \in Conns
  BY <1>1, Started
<1>3. ~Has("sync")' /\ ~Has("class")' /\ ~Has("wait")' /\ ~Has("seat")'
  BY <1>2 DEF Ops
<1>4. TodoOrder'
  BY <1>2, <1>3 DEF TodoOrder
<1>5. OwnersFollow'
  BY <1>3 DEF MainInv, OwnersFollow
<1>6. OwnedFollows'
  BY <1>3 DEF MainInv, OwnedFollows
<1>7. /\ \A c \in Conns : (owners[c] = "hooked" <=> c \in hooks)
      /\ \A c \in Closed : owners[c] = "gone"
  BY Synced DEF MainInv
<1>8. RevokedEnds'
  BY <1>7 DEF RevokedEnds
<1>9. ClosedKnown'
  BY <1>7 DEF ClosedKnown, Closed
<1> QED
  BY <1>2, <1>4, <1>5, <1>6, <1>8, <1>9 DEF MainInv

\* A new connection has no hook and is not closed.
LEMMA ConnectMain ==
  ASSUME TypeOK, MainInv, NEW c \in Conns, Connect(c)
  PROVE  MainInv' /\ todo' \in Seq(StepType)
<1>0. /\ Idle /\ c \in unused /\ unused' = unused \ {c} /\ clients' = clients \cup {c}
      /\ owners' = [owners EXCEPT ![c] = "open"]
      /\ UNCHANGED <<hooks, owned, seat, todo>>
  BY DEF Connect
<1>1. /\ clients \cap unused = {} /\ hooks \subseteq clients /\ todo = <<>>
      /\ owners \in [Conns -> {"gone", "open", "hooked"}]
  BY <1>0 DEF TypeOK, Idle
<1>2. todo' \in Seq(StepType) /\ \A o : ~Has(o)'
  BY <1>0, <1>1 DEF Has
<1>3. TodoOrder'
  BY <1>0, <1>1, <1>2 DEF TodoOrder
<1>4. ~Has("sync")
  BY <1>0, IdleHas
<1>5. OwnersFollow'
  BY <1>0, <1>1, <1>4 DEF OwnersFollow, MainInv
<1>6. /\ \A d \in Conns : (owners[d] = "hooked" <=> d \in hooks)
      /\ \A d \in Closed : owners[d] = "gone"
      /\ \A d \in Conns : User[d] = seat /\ d \in hooks => owned
  BY <1>0, IdleMain
<1>7. \A d \in Conns : owners'[d] = "hooked" => d \in hooks
  BY <1>0, <1>1, <1>6
<1>8. OwnedFollows'
  BY <1>0, <1>6, <1>7 DEF OwnedFollows
<1>9. RevokedEnds'
  BY <1>0, <1>7 DEF RevokedEnds
<1>10. ClosedKnown'
  BY <1>0, <1>1, <1>6 DEF ClosedKnown, Closed
<1> QED
  BY <1>2, <1>3, <1>5, <1>8, <1>9, <1>10 DEF MainInv

\* output_queue_sync_owners brings the owners up to date.
LEMMA SyncMain ==
  ASSUME TypeOK, MainInv, SyncOwners
  PROVE  MainInv' /\ todo' \in Seq(StepType)
<1>0. /\ NextStep("sync")
      /\ owners' = [c \in Conns |-> CASE c \in hooks -> "hooked"
                                      [] c \in clients \ hooks -> "open"
                                      [] OTHER -> "gone"]
      /\ UNCHANGED <<clients, unused, hooks, owned, seat>>
  BY DEF SyncOwners
<1>1. todo \in Seq(StepType) /\ TodoOrder /\ hooks \subseteq clients /\ clients \cap unused = {}
  BY DEF TypeOK, MainInv
<1>2. /\ todo' \in Seq(StepType)
      /\ \A o : o # "sync" => (Has(o)' <=> Has(o))
      /\ \A i, j \in 1..Len(todo') : i < j => Follows(todo'[i].op, todo'[j].op)
      /\ \A i \in 1..Len(todo') : todo'[i].op \in {"marker", "release"} => todo'[i].conn \in Conns
  BY <1>0, <1>1, Advance
<1>3. TodoOrder'
  BY <1>0, <1>1, <1>2 DEF TodoOrder
<1>4. /\ \A c \in Conns : owners'[c] =
           IF c \in hooks THEN "hooked" ELSE IF c \in clients THEN "open" ELSE "gone"
  BY <1>0
<1>5. OwnersFollow'
  BY <1>0, <1>1, <1>4 DEF OwnersFollow
<1>6. OwnedFollows'
  <2>1. Has("class")' <=> Has("class")
    BY <1>2
  <2> QED
    BY <1>0, <1>4, <2>1 DEF OwnedFollows, MainInv
<1>7. RevokedEnds'
  BY <1>0, <1>4 DEF RevokedEnds
<1>8. ClosedKnown'
  BY <1>0, <1>1, <1>4 DEF ClosedKnown, Closed
<1> QED
  BY <1>2, <1>3, <1>5, <1>6, <1>7, <1>8 DEF MainInv

\* update_grab_state knows whether the class may own holds.
LEMMA ClassMain ==
  ASSUME TypeOK, MainInv, ReleaseClass
  PROVE  MainInv' /\ todo' \in Seq(StepType)
<1>0. /\ NextStep("class")
      /\ UNCHANGED <<clients, unused, hooks, seat, owners>>
      /\ Active # {} => owned'
  BY DEF ReleaseClass, TypeOK
<1>1. todo \in Seq(StepType) /\ TodoOrder
  BY DEF TypeOK, MainInv
<1>2. /\ todo' \in Seq(StepType)
      /\ \A o : o # "class" => (Has(o)' <=> Has(o))
      /\ \A i, j \in 1..Len(todo') : i < j => Follows(todo'[i].op, todo'[j].op)
      /\ \A i \in 1..Len(todo') : todo'[i].op \in {"marker", "release"} => todo'[i].conn \in Conns
      /\ \A o : Has(o)' => Follows("class", o)
      /\ \A c : Closing(c)' <=> Closing(c)
  BY <1>0, <1>1, Advance
<1>3. TodoOrder'
  BY <1>0, <1>1, <1>2 DEF TodoOrder
<1>4. ~Has("sync")' /\ ~Has("sync")
  BY <1>2 DEF Follows
<1>5. \A c \in Conns : (owners[c] = "hooked" <=> c \in hooks)
  BY <1>4, Synced DEF MainInv
<1>6. OwnersFollow'
  BY <1>0, <1>4 DEF OwnersFollow, MainInv
<1>7. OwnedFollows'
  BY <1>0, <1>5 DEF OwnedFollows, Active
<1>8. RevokedEnds'
  BY <1>0, <1>5 DEF RevokedEnds
<1>9. ClosedKnown'
  BY <1>0, <1>2 DEF ClosedKnown, Closed, MainInv
<1> QED
  BY <1>2, <1>3, <1>6, <1>7, <1>8, <1>9 DEF MainInv

\* The new owner's hooks are looked at again at once.
LEMMA TakeSeatMain ==
  ASSUME TypeOK, MainInv, TakeSeat
  PROVE  MainInv' /\ todo' \in Seq(StepType)
<1>0. /\ todo # <<>> /\ Head(todo).op = "seat" /\ seat' = Head(todo).user
      /\ todo' = IF seat' = None THEN <<>> ELSE UpdateGrabs
      /\ UNCHANGED <<clients, unused, hooks, owned, owners>>
  BY DEF TakeSeat
<1>1. todo \in Seq(StepType) /\ TodoOrder
  BY DEF TypeOK, MainInv
<1>2. /\ \A o : Has(o) <=> o = "seat"
      /\ \A c : ~Closing(c)
  BY <1>0, <1>1, Alone DEF LastOps
<1>3. /\ \A c \in Conns : (owners[c] = "hooked" <=> c \in hooks)
      /\ \A c \in Closed : owners[c] = "gone"
  BY <1>2, Synced DEF MainInv
<1>4. PICK I \in {{}, GrabOps} : Listed(todo', I) /\ (seat' # None => I = GrabOps)
  BY <1>0, EmptyList, GrabList
<1>5. /\ todo' \in Seq(StepType)
      /\ \A o \in Ops : Has(o)' <=> o \in I
      /\ \A i, j \in 1..Len(todo') : i < j => Follows(todo'[i].op, todo'[j].op)
      /\ \A i \in 1..Len(todo') : todo'[i].op \in {"marker", "release"} => todo'[i].conn \in Conns
  BY <1>4, Started
<1>6. ~Has("wait")' /\ ~Has("seat")' /\ (seat' # None => Has("class")')
  BY <1>4, <1>5 DEF Ops, GrabOps
<1>7. TodoOrder'
  BY <1>5, <1>6 DEF TodoOrder
<1>8. OwnersFollow'
  BY <1>0, <1>2 DEF OwnersFollow, MainInv
<1>9. OwnedFollows'
  <2>1. \A c \in Conns : User[c] # None
    BY IdAssumption
  <2> QED
    BY <1>0, <1>3, <1>6, <2>1 DEF OwnedFollows
<1>10. RevokedEnds'
  BY <1>0, <1>3 DEF RevokedEnds
<1>11. ClosedKnown'
  BY <1>0, <1>3 DEF ClosedKnown, Closed
<1> QED
  BY <1>5, <1>7, <1>8, <1>9, <1>10, <1>11 DEF MainInv

\* Every step of the daemon keeps it.
LEMMA MainKeeps ==
  ASSUME TypeOK, MainInv, Next
  PROVE  MainInv' /\ todo' \in Seq(StepType)
<1>0. /\ todo \in Seq(StepType) /\ TodoOrder /\ hooks \subseteq clients /\ clients \subseteq Conns
      /\ seat \in Users \cup {None}
  BY DEF TypeOK, MainInv
<1>1. CASE UNCHANGED mains
  <2>1. MainInv'
    BY <1>1, MainQuiet
  <2>2. todo' = todo
    BY <1>1 DEF mains
  <2> QED
    BY <2>1, <2>2, <1>0
<1>2. ASSUME NEW c \in Conns, Subscribe(c) PROVE MainInv' /\ todo' \in Seq(StepType)
  <2>1. /\ Idle /\ c \in clients \ hooks /\ hooks' = hooks \cup {c} /\ todo' = UpdateGrabs
        /\ UNCHANGED <<clients, unused, owned, seat, owners>>
    BY <1>2 DEF Subscribe
  <2>2. Listed(UpdateGrabs, GrabOps) /\ GrabOps \in SUBSET Ops
    BY GrabList DEF GrabOps, Ops
  <2>3. "sync" \in GrabOps /\ "class" \in GrabOps /\ "wait" \notin GrabOps /\ "seat" \notin GrabOps
    BY DEF GrabOps
  <2>4. PICK s : s = UpdateGrabs
    OBVIOUS
  <2>5. PICK I \in SUBSET Ops : I = GrabOps
    BY <2>2
  <2> QED
    BY <1>0, <2>1, <2>2, <2>3, <2>4, <2>5, Syncing
<1>3. ASSUME NEW c \in Conns, Unsubscribe(c) PROVE MainInv' /\ todo' \in Seq(StepType)
  <2>1. /\ Idle /\ c \in hooks /\ hooks' = hooks \ {c} /\ todo' = UnsubscribeSteps(c)
        /\ UNCHANGED <<clients, unused, owned, seat, owners>>
    BY <1>3 DEF Unsubscribe
  <2>2. PICK I \in SUBSET Ops : I = {"sync", "grab", "class", "release"}
    BY DEF Ops
  <2>3. Listed(todo', I) /\ "sync" \in I /\ "wait" \notin I /\ "seat" \notin I
    BY <2>1, <2>2, UnsubscribeList
  <2>4. Releasing(c)'
    BY <2>1, <2>3, UnsubscribeList, Started
  <2> QED
    BY <1>0, <2>1, <2>3, <2>4, Syncing
<1>4. ASSUME NEW c \in Conns, Quarantine(c) PROVE MainInv' /\ todo' \in Seq(StepType)
  <2>1. /\ Idle /\ c \in hooks /\ hooks' = hooks \ {c}
        /\ todo' = <<Step("sync"), ReleaseStep(c, TRUE)>>
        /\ UNCHANGED <<clients, unused, owned, seat, owners>>
    BY <1>4 DEF Quarantine, Active
  <2>2. PICK I \in SUBSET Ops : I = {"sync", "release"}
    BY DEF Ops
  <2>3. Listed(todo', I) /\ "sync" \in I /\ "wait" \notin I /\ "seat" \notin I
    BY <2>1, <2>2, QuarantineList
  <2>4. PICK s : s = <<Step("sync"), ReleaseStep(c, TRUE)>>
    OBVIOUS
  <2>5. Ends(s, ReleaseStep(c, TRUE)) /\ Listed(s, I) /\ todo' = s
    BY <2>1, <2>3, <2>4, QuarantineList
  <2>6. Releasing(c)'
    BY <2>5, Started
  <2> QED
    BY <1>0, <2>1, <2>3, <2>5, <2>6, Syncing
<1>5. ASSUME NEW c \in Conns, Disconnect(c) PROVE MainInv' /\ todo' \in Seq(StepType)
  <2>1. /\ Idle /\ c \in clients /\ hooks' = hooks \ {c} /\ clients' = clients \ {c}
        /\ todo' = UpdateGrabs \o <<MarkerStep(c)>>
        /\ UNCHANGED <<unused, owned, seat, owners>>
    BY <1>5 DEF Disconnect
  <2>2. PICK I \in SUBSET Ops : I = {"sync", "grab", "class", "marker"}
    BY DEF Ops
  <2>3. "sync" \in I /\ "wait" \notin I /\ "seat" \notin I
    BY <2>2
  <2>4. PICK s : s = UpdateGrabs \o <<MarkerStep(c)>>
    OBVIOUS
  <2>5. Ends(s, MarkerStep(c)) /\ Listed(s, I) /\ todo' = s
    BY <2>1, <2>2, <2>4, DisconnectList
  <2>6. Closing(c)'
    BY <2>5, Started
  <2> QED
    BY <1>0, <2>1, <2>3, <2>5, <2>6, Syncing
<1>6. ASSUME NEW u \in Users \cup {None}, ChangeSeat(u) PROVE MainInv' /\ todo' \in Seq(StepType)
  <2>1. /\ Idle /\ seat' = None /\ todo' = SeatSteps(u)
        /\ UNCHANGED <<clients, hooks, unused, owned, owners>>
    BY <1>6 DEF ChangeSeat
  <2>2. PICK I \in SUBSET Ops : I = {"flush", "wait", "sync", "grab", "class", "discard", "all", "seat"}
    BY DEF Ops
  <2>3. "sync" \in I /\ "all" \in I
    BY <2>2
  <2>4. Listed(todo', I)
    BY <2>1, <2>2, SeatList
  <2> QED
    BY <1>0, <2>1, <2>3, <2>4, Syncing
<1>7. ASSUME FencePermissions PROVE MainInv' /\ todo' \in Seq(StepType)
  <2>1. /\ Idle
        /\ todo' = <<Step("flush"), Step("discard"), Step("all")>> \o UpdateGrabs
        /\ UNCHANGED <<clients, hooks, unused, owned, seat, owners>>
    BY <1>7 DEF FencePermissions
  <2>2. PICK I \in SUBSET Ops : I = {"flush", "discard", "all", "sync", "grab", "class"}
    BY DEF Ops
  <2>3. "sync" \in I /\ "all" \in I /\ "seat" \notin I
    BY <2>2
  <2>4. Listed(todo', I)
    BY <2>1, <2>2, FenceList
  <2> QED
    BY <1>0, <2>1, <2>3, <2>4, Syncing
<1>8. ASSUME FailOpen PROVE MainInv' /\ todo' \in Seq(StepType)
  <2>1. /\ Idle /\ hooks' = {} /\ todo' = <<Step("flush")>> \o UpdateGrabs
        /\ UNCHANGED <<clients, unused, owned, seat, owners>>
    BY <1>8 DEF FailOpen
  <2>2. PICK I \in SUBSET Ops : I = {"flush", "sync", "grab", "class"}
    BY DEF Ops
  <2>3. "sync" \in I /\ "class" \in I /\ "wait" \notin I /\ "seat" \notin I
    BY <2>2
  <2>4. Listed(todo', I)
    BY <2>1, <2>2, FailOpenList
  <2> QED
    BY <1>0, <2>1, <2>3, <2>4, Syncing
<1>9. ASSUME NEW op \in {"grab", "generic", "flush", "wait", "discard", "all"},
             NextStep(op), UNCHANGED <<clients, unused, hooks, owned, seat, owners>>
      PROVE  MainInv' /\ todo' \in Seq(StepType)
  BY <1>9, Passing
<1>10. ASSUME ReleaseHook PROVE MainInv' /\ todo' \in Seq(StepType)
  <2>1. /\ todo # <<>> /\ Head(todo).op = "release" /\ todo' = Tail(todo)
        /\ UNCHANGED <<clients, unused, hooks, owned, seat, owners>>
    BY <1>10 DEF ReleaseHook, NextStep
  <2>2. ~Has("sync") /\ ~Has("class") /\ Tail(todo) = <<>>
    BY <1>0, <2>1, Alone DEF LastOps
  <2> QED
    BY <2>1, <2>2, Finishing
<1>11. ASSUME PushMarker PROVE MainInv' /\ todo' \in Seq(StepType)
  <2>1. /\ todo # <<>> /\ Head(todo).op = "marker" /\ todo' \in {<<>>, <<Step("generic")>>}
        /\ UNCHANGED <<clients, unused, hooks, owned, seat, owners>>
    BY <1>11 DEF PushMarker, LastOut
  <2>2. ~Has("sync") /\ ~Has("class")
    BY <1>0, <2>1, Alone DEF LastOps
  <2> QED
    BY <2>1, <2>2, Finishing
<1>12. ASSUME Ingress PROVE MainInv' /\ todo' \in Seq(StepType)
  <2>1. /\ Idle /\ todo' \in {<<>>, <<Step("generic")>>}
        /\ UNCHANGED <<clients, unused, hooks, owned, seat, owners>>
    BY <1>12 DEF Ingress, LastOut, Idle
  <2>2. ~Has("sync") /\ ~Has("class")
    BY <2>1, IdleHas
  <2> QED
    BY <2>1, <2>2, Finishing
<1>13. ASSUME Request PROVE MainInv' /\ todo' \in Seq(StepType)
  <2>1. ASSUME NEW c \in Conns, Connect(c) PROVE MainInv' /\ todo' \in Seq(StepType)
    BY <2>1, ConnectMain
  <2>2. (Panic \/ Recreate \/ Grab) => UNCHANGED mains
    BY DEF Panic, Recreate, Grab, mains, main
  <2>3. \A c \in Conns, key \in Keys : SendNested(c, key) => UNCHANGED mains
    BY DEF SendNested, mains, main
  <2>4. \A c \in Conns, key \in Keys, press \in BOOLEAN : Send(c, key, press) => UNCHANGED mains
    BY DEF Send, mains, main
  <2>5. \A key \in Keys : Physical(key) => UNCHANGED mains
    BY DEF Physical, mains, main
  <2> QED
    BY <1>1, <1>2, <1>3, <1>4, <1>5, <1>6, <1>7, <1>13, <2>1, <2>2, <2>3, <2>4, <2>5 DEF Request
<1>14. ASSUME MainStep PROVE MainInv' /\ todo' \in Seq(StepType)
  <2>1. UpdateGrab => NextStep("grab") /\ UNCHANGED <<clients, unused, hooks, owned, seat, owners>>
    BY DEF UpdateGrab
  <2>2. ReleaseGeneric => NextStep("generic") /\ UNCHANGED <<clients, unused, hooks, owned, seat, owners>>
    BY DEF ReleaseGeneric
  <2>3. Flush => NextStep("flush") /\ UNCHANGED <<clients, unused, hooks, owned, seat, owners>>
    BY DEF Flush
  <2>4. WaitForInflight => NextStep("wait") /\ UNCHANGED <<clients, unused, hooks, owned, seat, owners>>
    BY DEF WaitForInflight
  <2>5. DiscardStale => NextStep("discard") /\ UNCHANGED <<clients, unused, hooks, owned, seat, owners>>
    BY DEF DiscardStale
  <2>6. PushReleaseAll => NextStep("all") /\ UNCHANGED <<clients, unused, hooks, owned, seat, owners>>
    BY DEF PushReleaseAll
  <2> QED
    BY <1>9, <1>10, <1>11, <1>14, <2>1, <2>2, <2>3, <2>4, <2>5, <2>6,
       SyncMain, ClassMain, TakeSeatMain DEF MainStep
<1>15. LaneStep => UNCHANGED mains
  BY DEF LaneStep, Decide, EmitModify, EmitEgress, EmitCleanup, RunNested, FinishNested, mains, main
<1>16. SequencerStep => UNCHANGED mains
  BY DEF SequencerStep, Pop, BeginWrite, EndWrite, mains, main
<1> QED
  BY <1>1, <1>8, <1>12, <1>13, <1>14, <1>15, <1>16 DEF Next

-----------------------------------------------------------------------------
(* Lemmas on admission                                                     *)

\* The queue takes action a, and the admitted view has it.
Admits(a) ==
  /\ a \in Queued(gen, seat) /\ ~Stale(a.gen)
  /\ queue' = Append(queue, a)
  /\ enqueued' = Effect(enqueued, a)

\* The queue takes a closed connection's action and the connection's release.
Companion(a) == Unscoped("release", Filter(a.owner.conn, FALSE))

AdmitsTwo(a) ==
  /\ a \in Queued(gen, seat) /\ ~Stale(a.gen) /\ a.type = "synth" /\ Companion(a) \in Queued(gen, seat)
  /\ queue' = Append(Append(queue, a), Companion(a))
  /\ enqueued' = Effect(Effect(enqueued, a), Companion(a))

\* The fields of the owners and filters of holds.
LEMMA OwnerShape ==
  /\ \A c \in Conns \cup {None}, hook \in BOOLEAN :
       /\ Filter(c, hook) \in Owners /\ Filter(c, hook).src = None
       /\ Filter(c, hook).conn = c /\ Filter(c, hook).hook = hook /\ Filter(c, hook).target = 0
  /\ \A t \in Nat :
       /\ Target(t) \in Owners /\ Target(t).src = None
       /\ Target(t).conn = None /\ Target(t).hook = FALSE /\ Target(t).target = t
  /\ \A c \in Conns :
       /\ Sender(c) \in Owners /\ Sender(c).src = None
       /\ Sender(c).conn = c /\ Sender(c).hook = FALSE /\ Sender(c).target = 0
<1>1. \A c \in Conns \cup {None}, hook \in BOOLEAN :
       /\ Filter(c, hook) \in Owners /\ Filter(c, hook).src = None
       /\ Filter(c, hook).conn = c /\ Filter(c, hook).hook = hook /\ Filter(c, hook).target = 0
  BY DEF Filter, Owners
<1>2. \A t \in Nat :
       /\ Target(t) \in Owners /\ Target(t).src = None
       /\ Target(t).conn = None /\ Target(t).hook = FALSE /\ Target(t).target = t
  BY DEF Target, Filter, Owners
<1>3. \A c \in Conns :
       /\ Sender(c) \in Owners /\ Sender(c).src = None
       /\ Sender(c).conn = c /\ Sender(c).hook = FALSE /\ Sender(c).target = 0
  BY DEF Sender, Owners
<1> QED
  BY <1>1, <1>2, <1>3

\* A safety action may be queued under any generation.
LEMMA UnscopedQueued ==
  ASSUME NEW g \in Nat, NEW u, NEW type \in Safety, NEW o \in Owners, o.src = None
  PROVE  /\ Unscoped(type, o) \in Queued(g, u)
         /\ Unscoped(type, o).type = type /\ Unscoped(type, o).gen = 0
         /\ Unscoped(type, o).owner = o
<1>1. /\ Unscoped(type, o).type = type /\ Unscoped(type, o).gen = 0
      /\ Unscoped(type, o).owner = o
  BY DEF Unscoped, Action
<1>2. Unscoped(type, o) \in Actions
  BY DEF Unscoped, Action, Actions, Safety, Wipes
<1>3. type \notin Scoped
  BY DEF Safety, Wipes, Scoped
<1> QED
  BY <1>1, <1>2, <1>3 DEF Queued, Current, Scoped

\* One action admitted.
LEMMA AdmitOne ==
  ASSUME TypeOK, NEW a \in Queued(gen, seat), ~Stale(a.gen), Admit(<<a>>)
  PROVE  Admits(a)
<1>1. a \in Plain
  BY QueuedPlain
<1>2. enqueued' = Effect(enqueued, a)
  BY <1>1, ReplayOne DEF Admit
<1>3. queue \in Seq(Queued(gen, seat)) /\ queue' = queue \o <<a>>
  BY DEF TypeOK, Admit
<1>4. queue' = Append(queue, a)
  BY <1>3, SeqFacts
<1> QED
  BY <1>2, <1>4 DEF Admits

\* A batch admitted with its companion release.
LEMMA AdmitTwo ==
  ASSUME TypeOK, NEW a \in Queued(gen, seat), ~Stale(a.gen), a.type = "synth",
         Admit(<<a, Companion(a)>>)
  PROVE  AdmitsTwo(a)
<1>0. PICK b : b = Companion(a)
  OBVIOUS
<1>1. gen \in Nat /\ a.owner.conn \in Conns
  BY DEF TypeOK, Queued
<1>2. b \in Queued(gen, seat)
  <2>1. Filter(a.owner.conn, FALSE) \in Owners /\ Filter(a.owner.conn, FALSE).src = None
    BY <1>1, OwnerShape
  <2>2. PICK o \in Owners : o = Filter(a.owner.conn, FALSE) /\ o.src = None
    BY <2>1
  <2>3. Unscoped("release", o) \in Queued(gen, seat)
    BY <1>1, <2>2, UnscopedQueued DEF Safety
  <2> QED
    BY <1>0, <2>2, <2>3 DEF Companion
<1>3. a \in Plain /\ b \in Plain
  BY <1>2, QueuedPlain
<1>4. enqueued' = Effect(Effect(enqueued, a), b)
  BY <1>0, <1>3, ReplayTwo DEF Admit
<1>5. queue \in Seq(Queued(gen, seat)) /\ queue' = queue \o <<a, b>>
  BY <1>0 DEF TypeOK, Admit
<1>6. PICK S : S = Queued(gen, seat)
  OBVIOUS
<1>7. queue \in Seq(S) /\ a \in S /\ b \in S
  BY <1>2, <1>5, <1>6
<1>8. queue \o <<a, b>> = Append(Append(queue, a), b)
  BY <1>7
<1> QED
  BY <1>0, <1>2, <1>4, <1>5, <1>8 DEF AdmitsTwo

\* What the callers of the queue know about the ledger.
LEMMA PushUnscopedDoes ==
  ASSUME TypeOK, NEW a \in Queued(gen, seat), a.gen = 0, NEW ok \in BOOLEAN, PushUnscoped(a, ok)
  PROVE  (ok /\ Admits(a)) \/ (~ok /\ UNCHANGED ledger)
<1>1. ~Stale(a.gen)
  BY DEF Stale
<1> QED
  BY <1>1, AdmitOne DEF PushUnscoped

\* What output_queue_push_packet may do.
LEMMA PushPacketDoes ==
  ASSUME TypeOK, NEW a \in Queued(gen, seat), NEW ok \in BOOLEAN, PushPacket(a, ok)
  PROVE  \/ ok /\ Stale(a.gen) /\ UNCHANGED ledger
         \/ ok /\ Admits(a)
         \/ ~ok /\ UNCHANGED ledger
BY AdmitOne DEF PushPacket

\* What output_queue_push_owned_synth may do.
LEMMA PushSynthDoes ==
  ASSUME TypeOK, NEW a \in Queued(gen, seat), a.type = "synth", NEW ok \in BOOLEAN,
         NEW fragment \in BOOLEAN, NEW flushed \in BOOLEAN,
         PushSynth(a, fragment, flushed, ok)
  PROVE  \/ UNCHANGED ledger
         \/ /\ Admits(a)
            /\ a.owner.hook => owners[a.owner.conn] = "hooked"
            /\ fragment \/ owners[a.owner.conn] # "gone"
         \/ AdmitsTwo(a)
<1>1. CASE Stale(a.gen)
  BY <1>1 DEF PushSynth
<1>2. CASE ~Stale(a.gen)
  <2>1. PICK closed \in BOOLEAN : closed = ~IsLive(a.owner)
    OBVIOUS
  <2>2. /\ ok => ~(closed /\ a.owner.hook)
        /\ \/ ok /\ closed /\ ~fragment /\ Admit(<<a, Companion(a)>>)
           \/ ok /\ ~(closed /\ ~fragment) /\ Admit(<<a>>)
           \/ UNCHANGED ledger
    BY <1>2, <2>1 DEF PushSynth, Companion
  <2>3. a.owner.hook /\ ~closed => owners[a.owner.conn] = "hooked"
    BY <2>1 DEF IsLive
  <2>4. ~closed => owners[a.owner.conn] # "gone"
    BY <2>1 DEF IsLive
  <2> QED
    BY <1>2, <2>2, <2>3, <2>4, AdmitOne, AdmitTwo
<1> QED
  BY <1>1, <1>2

\* What admission does to the admitted view: a new hold is the admitted
\* transition's, and the target moves with the end of a grab only.
LEMMA AdmitsView ==
  ASSUME TypeOK, NEW a, Admits(a)
  PROVE  /\ queue' \in Seq(Queued(gen, seat)) /\ enqueued' \in View
         /\ a.type # "end" => enqueued'.target = enqueued.target
         /\ \A h \in enqueued'.held :
              \/ h \in enqueued.held
              \/ /\ h = <<a.owner, a.key>> /\ a.type = "synth" /\ a.gen = gen
                 /\ a.owner.target \in {0, enqueued.target}
                 /\ a.owner.conn \in Conns /\ User[a.owner.conn] = seat
         /\ a.type \in Wipes => enqueued' = [held |-> {}, target |-> enqueued.target]
<1>0. a \in Queued(gen, seat) /\ a \in Plain /\ enqueued' = Effect(enqueued, a) /\ enqueued \in View
  BY QueuedPlain DEF Admits, TypeOK
<1>1. queue' \in Seq(Queued(gen, seat))
  BY SeqFacts DEF Admits, TypeOK
<1>2. enqueued' \in View /\ (a.type # "end" => enqueued'.target = enqueued.target)
  BY <1>0, EffectType, EffectTarget
<1>3. /\ a.type = "synth" => enqueued'.held \subseteq enqueued.held \cup {<<a.owner, a.key>>}
      /\ a.type = "synth" /\ a.owner.target \notin {0, enqueued.target} => enqueued'.held \subseteq enqueued.held
      /\ a.type # "synth" => enqueued'.held \subseteq enqueued.held
  BY <1>0, EffectHeld
<1>4. a.type = "synth" => a.gen = gen /\ a.owner.conn \in Conns /\ User[a.owner.conn] = seat
  <2>1. a.type = "synth" => a.gen # 0
    BY <1>0 DEF Queued, Safety, Wipes
  <2> QED
    BY <1>0, <2>1 DEF Queued, Current, Admits, Stale
<1>5. a.type \in Wipes => enqueued' = [held |-> {}, target |-> enqueued.target]
  BY <1>0, EffectTarget
<1> QED
  BY <1>1, <1>2, <1>3, <1>4, <1>5

\* With its companion release a batch leaves no new hold.
LEMMA AdmitsTwoView ==
  ASSUME TypeOK, NEW a, AdmitsTwo(a)
  PROVE  /\ queue' \in Seq(Queued(gen, seat)) /\ enqueued' \in View
         /\ enqueued'.target = enqueued.target
         /\ enqueued'.held \subseteq enqueued.held
<1>0. PICK b : b = Companion(a)
  OBVIOUS
<1>1. /\ a \in Queued(gen, seat) /\ a \in Plain /\ b \in Queued(gen, seat) /\ b \in Plain
      /\ enqueued \in View /\ a.type = "synth" /\ a.owner.conn \in Conns
  BY <1>0, QueuedPlain DEF AdmitsTwo, TypeOK, Queued
<1>2. PICK S : S = Queued(gen, seat)
  OBVIOUS
<1>3. queue' \in Seq(S)
  <2>1. queue \in Seq(S) /\ a \in S /\ b \in S
    BY <1>1, <1>2 DEF TypeOK
  <2>2. Append(queue, a) \in Seq(S)
    BY <2>1
  <2> QED
    BY <1>0, <2>1, <2>2 DEF AdmitsTwo
<1>4. PICK v : v = Effect(enqueued, a)
  OBVIOUS
<1>5. v \in View /\ v.target = enqueued.target /\ v.held \subseteq enqueued.held \cup {<<a.owner, a.key>>}
  BY <1>1, <1>4, EffectType, EffectTarget, EffectHeld
<1>6. b.type = "release" /\ b.owner = Filter(a.owner.conn, FALSE)
  BY <1>0 DEF Companion, Unscoped, Action
<1>7. enqueued' = Effect(v, b)
  BY <1>0, <1>4 DEF AdmitsTwo
<1>8. enqueued' \in View /\ enqueued'.target = v.target
      /\ enqueued'.held = {h \in v.held : ~Matches(h[1], b.owner)}
  BY <1>1, <1>5, <1>6, <1>7, EffectType, EffectTarget, EffectHeld
<1>9. Matches(a.owner, b.owner)
  <2>1. b.owner.conn = a.owner.conn /\ b.owner.hook = FALSE
    BY <1>6 DEF Filter
  <2> QED
    BY <2>1 DEF Matches
<1>10. enqueued'.held \subseteq enqueued.held
  BY <1>5, <1>8, <1>9
<1> QED
  BY <1>2, <1>3, <1>5, <1>8, <1>10

-----------------------------------------------------------------------------
(* What each step does to the ledger                                       *)

\* What main-thread steps and lanes may do to it.
Admitted == UNCHANGED ledger \/ (\E a : Admits(a)) \/ (\E a : AdmitsTwo(a))

\* No hold is new and the target stays.
Shrinks == enqueued'.held \subseteq enqueued.held /\ enqueued'.target = enqueued.target

\* What belongs to connection c's hook, or to all of c, is released, or its
\* release is refused.
Ours(o, c, hook) == c \in {None, o.conn} /\ (hook => o.hook)

Released(c, hook) ==
  /\ Admitted /\ Shrinks
  /\ \/ refused'
     \/ refused' = refused /\ enqueued'.held = {h \in enqueued.held : ~Ours(h[1], c, hook)}

\* A refused action adds nothing.
LEMMA UnchangedShrinks == ASSUME UNCHANGED ledger PROVE Admitted /\ Shrinks
BY DEF Admitted, Shrinks, ledger

\* A queued release ends exactly the holds its filter matches.
LEMMA ReleaseDoes ==
  ASSUME TypeOK, NEW c \in Conns \cup {None}, NEW hook \in BOOLEAN, NEW ok \in BOOLEAN,
         PushUnscoped(Unscoped("release", Filter(c, hook)), ok), refused' = (refused \/ ~ok)
  PROVE  Released(c, hook)
<1>1. PICK o \in Owners : o = Filter(c, hook) /\ o.src = None /\ o.conn = c /\ o.hook = hook
  BY OwnerShape
<1>2. PICK a : a = Unscoped("release", o)
  OBVIOUS
<1>3. a \in Queued(gen, seat) /\ a.type = "release" /\ a.gen = 0 /\ a.owner = o
  <2>1. gen \in Nat /\ "release" \in Safety
    BY DEF TypeOK, Safety
  <2> QED
    BY <1>1, <1>2, <2>1, UnscopedQueued
<1>4. (ok /\ Admits(a)) \/ (~ok /\ UNCHANGED ledger)
  BY <1>1, <1>2, <1>3, PushUnscopedDoes
<1>5. CASE ~ok /\ UNCHANGED ledger
  BY <1>5, UnchangedShrinks DEF Released
<1>6. CASE ok /\ Admits(a)
  <2>1. a \in Plain /\ enqueued \in View /\ enqueued' = Effect(enqueued, a)
    BY <1>3, <1>6, QueuedPlain DEF Admits, TypeOK
  <2>2. enqueued'.held = {h \in enqueued.held : ~Matches(h[1], a.owner)}
    BY <2>1, <1>3, EffectHeld
  <2>3. enqueued'.target = enqueued.target
    BY <2>1, <1>3, EffectTarget
  <2>4. \A h : Matches(h[1], a.owner) <=> Ours(h[1], c, hook)
    BY <1>1, <1>3 DEF Matches, Ours
  <2>5. enqueued'.held = {h \in enqueued.held : ~Ours(h[1], c, hook)}
    BY <2>2, <2>4
  <2>6. refused' = refused
    BY <1>6 DEF TypeOK
  <2> QED
    BY <1>6, <2>3, <2>5, <2>6 DEF Released, Admitted, Shrinks
<1> QED
  BY <1>4, <1>5, <1>6

\* release_connection_output queues a release, or is refused.
LEMMA ReleaseOutputDoes ==
  ASSUME TypeOK, NEW c \in Conns \cup {None}, NEW hook \in BOOLEAN, ReleaseOutput(c, hook)
  PROVE  Released(c, hook)
BY ReleaseDoes DEF ReleaseOutput

\* RELEASE_ALL and its like: nothing stays held.
Wiped(type) ==
  /\ Admitted /\ Shrinks
  /\ \/ UNCHANGED ledger /\ refused'
     \/ refused' = refused /\ enqueued'.held = {} /\ \E a : Admits(a) /\ a.type = type

\* RELEASE_ALL, RELEASE_GENERIC and RECREATE leave no hold.
LEMMA WipeDoes ==
  ASSUME TypeOK, NEW type \in Wipes, NEW ok \in BOOLEAN,
         PushUnscoped(Unscoped(type, Filter(None, FALSE)), ok)
  PROVE  /\ Admitted /\ Shrinks
         /\ \/ ~ok /\ UNCHANGED ledger
            \/ ok /\ enqueued'.held = {} /\ \E a : Admits(a) /\ a.type = type
<1>1. PICK o \in Owners : o = Filter(None, FALSE) /\ o.src = None
  BY OwnerShape
<1>2. PICK a : a = Unscoped(type, o)
  OBVIOUS
<1>3. a \in Queued(gen, seat) /\ a.type = type /\ a.gen = 0
  <2>1. gen \in Nat /\ type \in Safety
    BY DEF TypeOK, Safety
  <2> QED
    BY <1>1, <1>2, <2>1, UnscopedQueued
<1>4. (ok /\ Admits(a)) \/ (~ok /\ UNCHANGED ledger)
  BY <1>1, <1>2, <1>3, PushUnscopedDoes
<1>5. CASE ~ok /\ UNCHANGED ledger
  BY <1>5, UnchangedShrinks
<1>6. CASE ok /\ Admits(a)
  <2>1. enqueued' = [held |-> {}, target |-> enqueued.target]
    BY <1>3, <1>6, AdmitsView
  <2> QED
    BY <1>3, <1>6, <2>1 DEF Admitted, Shrinks
<1> QED
  BY <1>4, <1>5, <1>6

\* Recreate admits one wiping action, or nothing.
LEMMA RecreateDoes ==
  ASSUME TypeOK, Recreate
  PROVE  Admitted /\ Shrinks /\ (UNCHANGED ledger \/ \E a : Admits(a) /\ a.type = "recreate")
BY WipeDoes DEF Recreate, Wipes

\* The last client's release adds no hold.
LEMMA GenericDoes ==
  ASSUME TypeOK, ReleaseGeneric
  PROVE  Admitted /\ Shrinks
BY WipeDoes DEF ReleaseGeneric, Wipes

\* RELEASE_ALL is queued and leaves no hold, or is refused.
LEMMA AllDoes ==
  ASSUME TypeOK, PushReleaseAll
  PROVE  Wiped("all")
<1>1. PICK ok \in BOOLEAN : PushUnscoped(ReleaseAll, ok) /\ refused' = (refused \/ ~ok)
  BY DEF PushReleaseAll
<1>2. PushUnscoped(Unscoped("all", Filter(None, FALSE)), ok)
  BY <1>1 DEF ReleaseAll
<1>3. /\ Admitted /\ Shrinks
      /\ \/ ~ok /\ UNCHANGED ledger
         \/ ok /\ enqueued'.held = {} /\ \E a : Admits(a) /\ a.type = "all"
  BY <1>2, WipeDoes DEF Wipes
<1>4. ok => refused' = refused
  BY <1>1 DEF TypeOK
<1> QED
  BY <1>1, <1>3, <1>4 DEF Wiped

\* A new hold is owner o's, and the target stays.
Adds(o) ==
  /\ Admitted /\ enqueued'.target = enqueued.target
  /\ \A h \in enqueued'.held :
       \/ h \in enqueued.held
       \/ h[1] = o /\ o.target \in {0, enqueued.target} /\ User[o.conn] = seat

\* A synthetic batch adds holds of its own owner only.
LEMMA SynthDoes ==
  ASSUME TypeOK, NEW a \in Queued(gen, seat), a.type = "synth", NEW ok \in BOOLEAN,
         NEW fragment \in BOOLEAN, NEW flushed \in BOOLEAN,
         PushSynth(a, fragment, flushed, ok)
  PROVE  /\ Adds(a.owner)
         /\ a.owner.hook /\ owners[a.owner.conn] # "hooked" => Shrinks
         /\ Stale(a.gen) => Shrinks
<1>0. Stale(a.gen) => UNCHANGED ledger
  BY DEF PushSynth
<1>1. CASE UNCHANGED ledger
  BY <1>1, UnchangedShrinks DEF Adds, Shrinks
<1>2. CASE /\ Admits(a)
           /\ a.owner.hook => owners[a.owner.conn] = "hooked"
           /\ ~Stale(a.gen)
  <2>1. /\ enqueued'.target = enqueued.target
        /\ \A h \in enqueued'.held :
              \/ h \in enqueued.held
              \/ /\ h = <<a.owner, a.key>>
                 /\ a.owner.target \in {0, enqueued.target}
                 /\ User[a.owner.conn] = seat
    BY <1>2, AdmitsView
  <2> QED
    BY <1>2, <2>1 DEF Adds, Admitted
<1>3. CASE AdmitsTwo(a)
  <2>1. Shrinks
    BY <1>3, AdmitsTwoView DEF Shrinks
  <2> QED
    BY <1>3, <2>1 DEF Adds, Admitted, Shrinks
<1> QED
  BY <1>0, <1>1, <1>2, <1>3, PushSynthDoes DEF Admits

\* What the releases of physical keys end.
LEMMA PacketDoes ==
  ASSUME TypeOK, NEW a \in Queued(gen, seat), a.type \in {"replay", "suppressed"},
         NEW ok \in BOOLEAN, PushPacket(a, ok)
  PROVE  /\ Admitted /\ Shrinks
         /\ ok /\ ~Stale(a.gen) /\ ~a.press =>
              \A h \in enqueued'.held : ~(h[1].src = a.key /\ h[1].target = a.owner.target)
<1>1. CASE UNCHANGED ledger /\ (~ok \/ Stale(a.gen))
  BY <1>1, UnchangedShrinks
<1>2. CASE ok /\ Admits(a)
  <2>1. a \in Plain /\ enqueued \in View /\ enqueued' = Effect(enqueued, a)
    BY <1>2, QueuedPlain DEF Admits, TypeOK
  <2>2. Shrinks
    BY <2>1, EffectHeld, EffectTarget DEF Shrinks
  <2>3. ~a.press => enqueued'.held = PhysicalRelease(enqueued.held, a)
    BY <2>1, EffectHeld
  <2> QED
    BY <1>2, <2>2, <2>3 DEF PhysicalRelease, Admitted
<1> QED
  BY <1>1, <1>2, PushPacketDoes

\* Sent batches, packets and their suppressed releases can be queued.
LEMMA SentQueued ==
  ASSUME NEW g \in Nat, NEW u
  PROVE  /\ Sent(g, u) \subseteq Queued(g, u)
         /\ Packets(g) \subseteq Queued(g, u)
         /\ \A a \in Packets(g) : /\ [a EXCEPT !.type = "suppressed"] \in Queued(g, u)
                                  /\ [a EXCEPT !.type = "suppressed"].type = "suppressed"
                                  /\ [a EXCEPT !.type = "suppressed"].gen = a.gen
                                  /\ [a EXCEPT !.type = "suppressed"].key = a.key
                                  /\ [a EXCEPT !.type = "suppressed"].press = a.press
                                  /\ [a EXCEPT !.type = "suppressed"].owner = a.owner
<1>1. ASSUME NEW a \in Sent(g, u) PROVE a \in Queued(g, u)
  <2>1. a.owner.src = None
    <3>1. Sender(a.owner.conn).src = None
      BY DEF Sender
    <3> QED
      BY <3>1 DEF Sent
  <2> QED
    BY <2>1 DEF Sent, Queued, Scoped, Safety, Wipes, Actions
<1>2. ASSUME NEW a \in Packets(g) PROVE a.owner.src = None /\ a.gen # 0 /\ a.gen <= g
  <2>1. Target(a.owner.target).src = None
    BY DEF Target, Filter
  <2> QED
    BY <2>1 DEF Packets
<1>3. ASSUME NEW a \in Packets(g) PROVE a \in Queued(g, u)
  BY <1>2 DEF Packets, Queued, Scoped, Safety, Wipes, Actions, Current
<1>4. ASSUME NEW a \in Packets(g)
      PROVE  /\ [a EXCEPT !.type = "suppressed"] \in Queued(g, u)
             /\ [a EXCEPT !.type = "suppressed"].type = "suppressed"
             /\ [a EXCEPT !.type = "suppressed"].gen = a.gen
             /\ [a EXCEPT !.type = "suppressed"].key = a.key
             /\ [a EXCEPT !.type = "suppressed"].press = a.press
             /\ [a EXCEPT !.type = "suppressed"].owner = a.owner
  <2>1. PICK b : b = [a EXCEPT !.type = "suppressed"]
    OBVIOUS
  <2>2. a \in Actions
    BY DEF Packets
  <2>3. /\ b \in Actions /\ b.type = "suppressed" /\ b.gen = a.gen
        /\ b.owner = a.owner /\ b.key = a.key /\ b.press = a.press
    BY <2>1, <2>2 DEF Actions, Scoped
  <2>4. b \in Queued(g, u)
    BY <1>2, <2>3 DEF Queued, Scoped, Safety, Wipes, Current
  <2> QED
    BY <2>1, <2>3, <2>4
<1> QED
  BY <1>1, <1>3, <1>4

\* A Send adds its sender's holds, or queues a batch of its sender.
LEMMA SendDoes ==
  ASSUME TypeOK, NEW c \in Conns, NEW key \in Keys, NEW press \in BOOLEAN, Send(c, key, press)
  PROVE  /\ Idle /\ c \in clients /\ Adds(Sender(c))
         /\ \E a \in Sent(gen, seat) :
              /\ a.owner = Sender(c)
              /\ UNCHANGED synthq \/ synthq' = Append(synthq, a)
<1>1. PICK a : a = Action("synth", gen, Sender(c), key, press)
  OBVIOUS
<1>2. /\ a.type = "synth" /\ a.gen = gen /\ a.owner = Sender(c)
      /\ Sender(c) \in Owners /\ Sender(c).conn = c
  BY <1>1, OwnerShape DEF Action
<1>3. Idle /\ c \in clients /\ User[c] = seat
  BY DEF Send
<1>4. a \in Actions
  BY <1>1, <1>2 DEF Action, Actions, Scoped, TypeOK
<1>5. a \in Sent(gen, seat)
  BY <1>2, <1>3, <1>4 DEF Sent, Current, TypeOK
<1>6. a \in Queued(gen, seat)
  BY <1>5, SentQueued DEF TypeOK
<1>7. \/ UNCHANGED synthq /\ \E ok \in BOOLEAN : PushSynth(a, FALSE, FALSE, ok)
      \/ synthq' = Append(synthq, a) /\ UNCHANGED ledger
  BY <1>1 DEF Send
<1>8. Adds(Sender(c))
  <2>1. CASE UNCHANGED ledger
    BY <2>1, UnchangedShrinks DEF Adds, Shrinks
  <2>2. CASE \E ok \in BOOLEAN : PushSynth(a, FALSE, FALSE, ok)
    BY <1>2, <1>6, <2>2, SynthDoes
  <2> QED
    BY <1>7, <2>1, <2>2
<1> QED
  BY <1>2, <1>3, <1>5, <1>7, <1>8

\* The fields of a release marker.
LEMMA MarkerShape ==
  ASSUME NEW c
  PROVE  /\ Marker(c).type = "marker" /\ Marker(c).gen = 0
         /\ Marker(c).owner = Filter(c, FALSE) /\ Marker(c).owner.conn = c
BY DEF Marker, Unscoped, Action, Filter

\* Ingress waits for an empty lane.
LEMMA LaneEmpty ==
  ASSUME TypeOK, ~InLane("synthetic"), ~InLane("physical")
  PROVE  lane = <<>>
<1>1. lane \in Seq(Events(gen, seat))
  BY DEF TypeOK
<1>2. \A i \in 1..Len(lane) : lane[i].origin \in {"physical", "synthetic"}
  <2>1. \A e \in Events(gen, seat) : e.origin \in {"physical", "synthetic"}
    BY DEF Events
  <2> QED
    BY <1>1, <2>1
<1>3. DOMAIN lane = 1..Len(lane)
  BY <1>1
<1>4. ~(1 \in 1..Len(lane))
  BY <1>2, <1>3 DEF InLane
<1>5. Len(lane) = 0
  BY <1>1, <1>4
<1>6. PICK S : S = Events(gen, seat)
  OBVIOUS
<1>7. \A x \in Seq(S) : Len(x) = 0 => x = <<>>
  OBVIOUS
<1> QED
  BY <1>1, <1>5, <1>6, <1>7, Zenon

\* Ingress takes a marker and releases, or a batch and admits it or hands it to the lane.
LEMMA IngressDoes ==
  ASSUME TypeOK, Ingress
  PROVE  /\ Idle /\ synthq # <<>> /\ lane = <<>> /\ synthq' = Tail(synthq)
         /\ \/ \E c \in Conns : /\ Head(synthq) = Marker(c) /\ Released(c, FALSE)
                                /\ UNCHANGED lane
            \/ /\ Head(synthq) \in Sent(gen, seat) /\ Adds(Head(synthq).owner)
               /\ refused' = refused /\ todo' = todo
               /\ \/ UNCHANGED lane
                  \/ /\ ~Stale(Head(synthq).gen)
                     /\ lane' = Append(lane, LaneEvent("synthetic", Head(synthq), Active))
<1>1. /\ Idle /\ synthq # <<>> /\ synthq' = Tail(synthq)
      /\ lane = <<>>
  BY LaneEmpty DEF Ingress
<1>2. PICK a : a = Head(synthq)
  OBVIOUS
<1>3. a \in Sent(gen, seat) \cup Markers
  <2>1. PICK S : S = Sent(gen, seat) \cup Markers
    OBVIOUS
  <2>2. synthq \in Seq(S)
    BY <2>1 DEF TypeOK
  <2>3. Head(synthq) \in S
    BY <1>1, <2>2
  <2> QED
    BY <1>2, <2>1, <2>3
<1>4. \/ /\ a.type = "marker"
         /\ ReleaseOutput(a.owner.conn, FALSE)
         /\ UNCHANGED lane
      \/ /\ a.type = "synth"
         /\ UNCHANGED <<ledger, lane, todo, refused>>
      \/ /\ a.type = "synth" /\ ~Stale(a.gen)
         /\ lane' = Append(lane, LaneEvent("synthetic", a, Active))
         /\ UNCHANGED <<ledger, todo, refused>>
      \/ /\ a.type = "synth"
         /\ \E ok \in BOOLEAN : PushSynth(a, TRUE, FALSE, ok)
         /\ UNCHANGED <<lane, todo, refused>>
  BY <1>2 DEF Ingress
<1>5. CASE a.type = "marker"
  <2>1. a \in Markers
    BY <1>3, <1>5 DEF Sent
  <2>2. PICK c \in Conns : a = Marker(c)
    BY <2>1 DEF Markers
  <2>3. a.owner.conn = c
    BY <2>2, MarkerShape
  <2>4. Released(c, FALSE) /\ UNCHANGED lane
    BY <1>4, <1>5, <2>3, ReleaseOutputDoes
  <2> QED
    BY <1>1, <1>2, <2>2, <2>4
<1>6. CASE a.type = "synth"
  <2>1. a \in Sent(gen, seat)
    BY <1>3, <1>6, MarkerShape DEF Markers
  <2>2. a \in Queued(gen, seat)
    BY <2>1, SentQueued DEF TypeOK
  <2>3. UNCHANGED ledger => Adds(a.owner)
    BY UnchangedShrinks DEF Adds, Shrinks
  <2>4. (\E ok \in BOOLEAN : PushSynth(a, TRUE, FALSE, ok)) => Adds(a.owner)
    BY <1>6, <2>2, SynthDoes
  <2> QED
    BY <1>1, <1>2, <1>4, <1>6, <2>1, <2>3, <2>4
<1> QED
  BY <1>4, <1>5, <1>6

\* A physical transition joins the lane, or is forwarded and ends its key's Modify holds.
LEMMA PhysicalDoes ==
  ASSUME TypeOK, TargetsPast, NEW key \in Keys, Physical(key)
  PROVE  /\ Idle /\ Admitted /\ Shrinks
         /\ down' = IF key \in down THEN down \ {key} ELSE down \cup {key}
         /\ \E a \in Packets(gen) :
              /\ a.gen = gen /\ a.key = key /\ a.owner.target = enqueued.target
              /\ a.owner.conn = None /\ a.press = (key \notin down)
              /\ \/ grabbed /\ lane' = Append(lane, LaneEvent("physical", a, Active)) /\ UNCHANGED ledger
                 \/ /\ ~grabbed /\ UNCHANGED lane
                    /\ \A h \in enqueued'.held : ~(h[1].src = key /\ h[1].target = enqueued.target)
<1>1. PICK press \in BOOLEAN : press = (key \notin down)
  OBVIOUS
<1>2. PICK t \in Nat : t = enqueued.target /\ t # 0
  BY DEF TypeOK, View, TargetsPast
<1>3. PICK a : a = Action("replay", gen, Target(t), key, press)
  OBVIOUS
<1>4. /\ a.type = "replay" /\ a.gen = gen /\ a.owner = Target(t) /\ a.key = key /\ a.press = press
  BY <1>3 DEF Action
<1>5. Target(t) \in Owners /\ Target(t).target = t /\ Target(t).conn = None
  BY OwnerShape
<1>6. a \in Actions
  BY <1>3, <1>5 DEF Action, Actions, Scoped, TypeOK
<1>7. a \in Packets(gen)
  BY <1>2, <1>4, <1>5, <1>6 DEF Packets, TypeOK
<1>8. /\ Idle
      /\ down' = IF key \in down THEN down \ {key} ELSE down \cup {key}
      /\ \/ grabbed /\ lane' = Append(lane, LaneEvent("physical", a, Active)) /\ UNCHANGED ledger
         \/ ~grabbed /\ ~press /\ PushPacket(a, TRUE) /\ UNCHANGED lane
  BY <1>1, <1>2, <1>3 DEF Physical
<1>9. a \in Queued(gen, seat)
  BY <1>7, SentQueued DEF TypeOK
<1>10. ~Stale(a.gen)
  BY <1>4 DEF Stale
<1>11. CASE grabbed /\ UNCHANGED ledger /\ lane' = Append(lane, LaneEvent("physical", a, Active))
  BY <1>1, <1>2, <1>4, <1>5, <1>7, <1>8, <1>11, UnchangedShrinks
<1>12. CASE ~grabbed /\ ~press /\ PushPacket(a, TRUE) /\ UNCHANGED lane
  <2>1. /\ Admitted /\ Shrinks
        /\ \A h \in enqueued'.held : ~(h[1].src = a.key /\ h[1].target = a.owner.target)
    BY <1>4, <1>9, <1>10, <1>12, PacketDoes
  <2> QED
    BY <1>1, <1>2, <1>4, <1>5, <1>7, <1>8, <1>12, <2>1
<1> QED
  BY <1>8, <1>11, <1>12

\* The lists of handlers and of lanes that the next steps find.
LEMMA HeadEvent ==
  ASSUME TypeOK, lane # <<>>
  PROVE  /\ Head(lane) \in Events(gen, seat) /\ Head(lane) = lane[1] /\ 1 \in 1..Len(lane)
         /\ Head(lane).action \in Actions /\ Head(lane).action \in Queued(gen, seat)
         /\ Head(lane).origin = "physical" => Head(lane).action \in Packets(gen)
         /\ Head(lane).origin # "physical" => Head(lane).origin = "synthetic" /\ Head(lane).action \in Sent(gen, seat)
<1>1. lane \in Seq(Events(gen, seat)) /\ gen \in Nat
  BY DEF TypeOK
<1>2. Head(lane) \in Events(gen, seat) /\ Head(lane) = lane[1] /\ 1 \in 1..Len(lane)
  BY <1>1
<1>3. /\ Head(lane).action \in Actions
      /\ Head(lane).origin = "physical" => Head(lane).action \in Packets(gen)
      /\ Head(lane).origin # "physical" => Head(lane).origin = "synthetic" /\ Head(lane).action \in Sent(gen, seat)
  BY <1>2 DEF Events
<1>4. Head(lane).action \in Queued(gen, seat)
  BY <1>1, <1>3, SentQueued
<1> QED
  BY <1>2, <1>3, <1>4

\* A Modify decision adds holds of its hook, while the queue still knows the hook.
LEMMA ModifyDoes ==
  ASSUME TypeOK, EmitModify
  PROVE  /\ lane # <<>>
         /\ \E s \in {"block", "pass"} : Restage(s)
         /\ \E o \in Owners :
              /\ o.hook /\ o.conn \in Conns /\ Adds(o)
              /\ owners[o.conn] # "hooked" => Shrinks
              /\ o.src # None =>
                   /\ Head(lane).origin = "physical" /\ o.src = Head(lane).action.key
                   /\ o.target = Head(lane).action.owner.target /\ o.target # 0 /\ o.src \in Keys
                   /\ Head(lane).action.gen # gen => Shrinks
<1>1. lane # <<>> /\ Head(lane).stage = "modify"
  BY DEF EmitModify
<1>2. PICK e \in Events(gen, seat) : e = Head(lane)
  BY <1>1, HeadEvent
<1>3. PICK physical \in BOOLEAN : physical = (e.origin = "physical")
  OBVIOUS
<1>4. /\ e.action \in Actions /\ e.action \in Queued(gen, seat)
      /\ physical => e.action \in Packets(gen)
      /\ ~physical => e.action \in Sent(gen, seat)
  BY <1>1, <1>2, <1>3, HeadEvent
<1>5. PICK o : o = [conn |-> e.mod, hook |-> TRUE,
                    src |-> IF physical THEN e.action.key ELSE None,
                    target |-> IF physical THEN e.action.owner.target ELSE 0]
  OBVIOUS
<1>6. e.mod \in Conns /\ e.press \in BOOLEAN /\ e.flushed \in BOOLEAN
      /\ (e.action.gen = gen => User[e.mod] = seat)
  <2>1. e.stage = "modify"
    BY <1>1, <1>2
  <2>2. /\ e.press \in BOOLEAN /\ e.flushed \in BOOLEAN /\ e.mod \in e.subs /\ e.subs \subseteq Conns
        /\ e.action.gen = gen => \A c \in e.subs : User[c] = seat
    BY <2>1 DEF Events
  <2> QED
    BY <2>2
<1>7. e.action.gen \in 1..gen /\ e.action.gen # 0
  BY <1>3, <1>4 DEF Packets, Sent
<1>8. /\ o \in Owners /\ o.hook /\ o.conn = e.mod
      /\ o.src # None => physical /\ o.src = e.action.key /\ o.target = e.action.owner.target
                         /\ o.target # 0 /\ o.src \in Keys
  <2>1. physical => e.action.key \in Keys /\ e.action.owner.target \in Nat /\ e.action.owner.target # 0
    BY <1>4 DEF Packets, Actions, Owners
  <2> QED
    BY <1>5, <1>6, <2>1 DEF Owners
<1>9. PICK key \in Keys, ok \in BOOLEAN :
         /\ PushSynth(Action("synth", e.action.gen, o, key, e.press), TRUE, e.flushed, ok)
         /\ Restage(IF ok THEN "block" ELSE "pass")
  BY <1>2, <1>3, <1>5 DEF EmitModify
<1>10. PICK a : a = Action("synth", e.action.gen, o, key, e.press)
  OBVIOUS
<1>11. a.type = "synth" /\ a.gen = e.action.gen /\ a.owner = o
  BY <1>10 DEF Action
<1>12. a \in Actions
  <2>1. e.action.gen \in Nat
    BY <1>4 DEF Actions
  <2> QED
    BY <1>6, <1>8, <1>10, <2>1 DEF Action, Actions, Scoped
<1>13. a \in Queued(gen, seat)
  BY <1>6, <1>7, <1>8, <1>11, <1>12 DEF Queued, Current, Scoped, Safety, Wipes, TypeOK
<1>14. /\ Adds(o)
       /\ owners[o.conn] # "hooked" => Shrinks
       /\ Stale(a.gen) => Shrinks
  BY <1>6, <1>8, <1>9, <1>10, <1>11, <1>13, SynthDoes
<1>15. e.action.gen # gen => Stale(a.gen)
  BY <1>7, <1>11 DEF Stale
<1>16. \E s \in {"block", "pass"} : Restage(s)
  BY <1>9
<1> QED
  BY <1>1, <1>2, <1>3, <1>6, <1>8, <1>14, <1>15, <1>16

\* What passes is admitted: a packet ends its key's Modify holds, a batch adds its sender's.
LEMMA EgressDoes ==
  ASSUME TypeOK, EmitEgress
  PROVE  /\ lane # <<>> /\ refused' = refused
         /\ \/ /\ Head(lane).origin = "physical" /\ Admitted /\ Shrinks
               /\ \/ Restage("block")
                  \/ /\ lane' = Tail(lane)
                     /\ ~Head(lane).action.press /\ Head(lane).action.gen = gen =>
                          \A h \in enqueued'.held :
                            ~(/\ h[1].src = Head(lane).action.key
                              /\ h[1].target = Head(lane).action.owner.target)
            \/ /\ Head(lane).origin = "synthetic" /\ lane' = Tail(lane)
               /\ Adds(Head(lane).action.owner) /\ Head(lane).action \in Sent(gen, seat)
<1>1. lane # <<>> /\ refused' = refused
  BY DEF EmitEgress
<1>2. PICK e \in Events(gen, seat) : e = Head(lane)
  BY <1>1, HeadEvent
<1>3. /\ e.action \in Queued(gen, seat)
      /\ e.origin = "physical" => e.action \in Packets(gen)
      /\ e.origin # "physical" => e.action \in Sent(gen, seat)
  BY <1>1, <1>2, HeadEvent
<1>4. PICK ok \in BOOLEAN :
           \/ /\ e.origin = "physical"
              /\ PushPacket(e.action, ok)
              /\ IF ok THEN lane' = Tail(lane) ELSE Restage("block")
           \/ /\ e.origin = "synthetic"
              /\ PushSynth(e.action, TRUE, FALSE, ok)
              /\ lane' = Tail(lane)
  BY <1>2 DEF EmitEgress
<1>5. CASE e.origin = "physical"
  <2>1. e.action.type = "replay"
    BY <1>3, <1>5 DEF Packets
  <2>2. /\ Admitted /\ Shrinks
        /\ ok /\ ~Stale(e.action.gen) /\ ~e.action.press =>
             \A h \in enqueued'.held : ~(h[1].src = e.action.key /\ h[1].target = e.action.owner.target)
    BY <1>3, <1>4, <1>5, <2>1, PacketDoes
  <2>3. e.action.gen = gen => ~Stale(e.action.gen)
    BY DEF Stale
  <2> QED
    BY <1>1, <1>2, <1>4, <1>5, <2>2, <2>3
<1>6. CASE e.origin = "synthetic"
  <2>1. e.action.type = "synth" /\ e.action \in Sent(gen, seat)
    BY <1>3, <1>6 DEF Sent
  <2>2. Adds(e.action.owner)
    BY <1>3, <1>4, <1>6, <2>1, SynthDoes
  <2> QED
    BY <1>1, <1>2, <1>4, <1>6, <2>1, <2>2
<1> QED
  BY <1>4, <1>5, <1>6

\* A suppressed release ends its key's Modify holds.
LEMMA CleanupDoes ==
  ASSUME TypeOK, EmitCleanup
  PROVE  /\ lane # <<>> /\ lane' = Tail(lane) /\ Admitted /\ Shrinks
         /\ refused => refused'
         /\ Head(lane).origin = "physical" /\ ~Head(lane).action.press /\ Head(lane).action.gen = gen
              /\ ~refused' =>
              \A h \in enqueued'.held :
                ~(/\ h[1].src = Head(lane).action.key
                  /\ h[1].target = Head(lane).action.owner.target)
<1>1. lane # <<>> /\ lane' = Tail(lane)
  BY DEF EmitCleanup
<1>2. PICK e \in Events(gen, seat) : e = Head(lane)
  BY <1>1, HeadEvent
<1>3. e.origin = "physical" => e.action \in Packets(gen)
  BY <1>1, <1>2, HeadEvent
<1>4. \/ /\ e.origin = "physical" /\ ~e.action.press
         /\ \E ok \in BOOLEAN :
              /\ PushPacket([e.action EXCEPT !.type = "suppressed"], ok)
              /\ refused' = (refused \/ ~ok)
      \/ /\ e.origin = "synthetic" \/ e.action.press
         /\ UNCHANGED <<ledger, refused>>
  BY <1>2 DEF EmitCleanup
<1>5. CASE /\ e.origin = "physical" /\ ~e.action.press
           /\ \E ok \in BOOLEAN :
              /\ PushPacket([e.action EXCEPT !.type = "suppressed"], ok)
              /\ refused' = (refused \/ ~ok)
  <2>1. PICK b : b = [e.action EXCEPT !.type = "suppressed"]
    OBVIOUS
  <2>2. /\ b \in Queued(gen, seat) /\ b.type = "suppressed" /\ b.gen = e.action.gen
        /\ b.key = e.action.key /\ b.press = e.action.press /\ b.owner = e.action.owner
    BY <1>3, <1>5, <2>1, SentQueued DEF TypeOK
  <2>3. PICK ok \in BOOLEAN : PushPacket(b, ok) /\ refused' = (refused \/ ~ok)
    BY <1>5, <2>1
  <2>4. /\ Admitted /\ Shrinks
        /\ ok /\ ~Stale(b.gen) /\ ~b.press =>
              \A h \in enqueued'.held : ~(h[1].src = b.key /\ h[1].target = b.owner.target)
    BY <2>2, <2>3, PacketDoes
  <2>5. e.action.gen = gen => ~Stale(b.gen)
    BY <2>2 DEF Stale
  <2> QED
    BY <1>1, <1>2, <2>2, <2>3, <2>4, <2>5
<1>6. CASE /\ e.origin = "synthetic" \/ e.action.press
           /\ UNCHANGED <<ledger, refused>>
  BY <1>1, <1>2, <1>6, UnchangedShrinks
<1> QED
  BY <1>4, <1>5, <1>6

\* The fields of a recursive transaction.
LEMMA NestedShape ==
  ASSUME TypeOK, nested.stage \in {"queued", "ran"}
  PROVE  /\ nested \in [conn : Conns, gen : 1..gen, key : Keys, stage : {"queued", "ran"}, orphan : BOOLEAN]
         /\ nested.conn \in Conns /\ nested.gen \in 1..gen /\ nested.key \in Keys
         /\ nested.gen = gen => User[nested.conn] = seat
<1>1. nested # NoNested
  BY DEF NoNested
<1> QED
  BY <1>1 DEF TypeOK, Nestings

\* A recursive transaction adds its sender's holds.
LEMMA RunNestedDoes ==
  ASSUME TypeOK, RunNested
  PROVE  /\ nested.stage = "queued" /\ nested.conn \in Conns /\ Adds(Sender(nested.conn))
         /\ nested' = [nested EXCEPT !.stage = "ran"]
<1>1. nested.stage = "queued" /\ nested' = [nested EXCEPT !.stage = "ran"]
  BY DEF RunNested
<1>2. /\ nested.conn \in Conns /\ nested.gen \in 1..gen /\ nested.key \in Keys
      /\ nested.gen = gen => User[nested.conn] = seat
      /\ nested.orphan \in BOOLEAN
  BY <1>1, NestedShape
<1>3. PICK a : a = Action("synth", nested.gen, Sender(nested.conn), nested.key, TRUE)
  OBVIOUS
<1>4. PICK o \in Owners : o = Sender(nested.conn) /\ o.conn = nested.conn
  BY <1>2, OwnerShape
<1>5. a.type = "synth" /\ a.gen = nested.gen /\ a.owner = o
  BY <1>3, <1>4 DEF Action
<1>6. a \in Actions
  BY <1>2, <1>3, <1>4 DEF Action, Actions, Scoped, TypeOK
<1>7. a \in Sent(gen, seat)
  BY <1>2, <1>4, <1>5, <1>6 DEF Sent, Current
<1>8. a \in Queued(gen, seat)
  BY <1>7, SentQueued DEF TypeOK
<1>9. \/ UNCHANGED ledger
      \/ \E fragment \in BOOLEAN, ok \in BOOLEAN : PushSynth(a, fragment, FALSE, ok)
  BY <1>2, <1>3 DEF RunNested
<1>10. Adds(o)
  <2>1. UNCHANGED ledger => Adds(o)
    BY UnchangedShrinks DEF Adds, Shrinks
  <2>2. ASSUME NEW fragment \in BOOLEAN, NEW ok \in BOOLEAN, PushSynth(a, fragment, FALSE, ok)
        PROVE  Adds(o)
    BY <1>5, <1>8, <2>2, SynthDoes
  <2> QED
    BY <1>9, <2>1, <2>2
<1> QED
  BY <1>1, <1>2, <1>4, <1>10

\* A recursive transaction of a closed connection ends with its release.
LEMMA FinishNestedDoes ==
  ASSUME TypeOK, FinishNested
  PROVE  /\ nested.stage = "ran" /\ nested.conn \in Conns /\ nested' = NoNested
         /\ \/ Released(nested.conn, FALSE)
            \/ owners[nested.conn] # "gone" /\ UNCHANGED <<ledger, refused>>
<1>1. nested.stage = "ran" /\ nested.conn \in Conns /\ nested' = NoNested
  BY NestedShape DEF FinishNested
<1> QED
  BY <1>1, ReleaseOutputDoes DEF FinishNested

\* The marker is queued, or the connection is released at once.
LEMMA MarkerDoes ==
  ASSUME TypeOK, TodoOrder, PushMarker
  PROVE  /\ todo # <<>> /\ Head(todo).op = "marker" /\ Head(todo).conn \in Conns
         /\ \/ /\ synthq' = Append(synthq, Marker(Head(todo).conn))
               /\ UNCHANGED <<ledger, refused, overtaken>>
            \/ /\ UNCHANGED synthq /\ Released(Head(todo).conn, FALSE)
               /\ overtaken' = IF Waiting(Head(todo).conn) THEN overtaken \cup {Head(todo).conn}
                               ELSE overtaken
<1>1. todo # <<>> /\ Head(todo).op = "marker"
  BY DEF PushMarker
<1>2. Head(todo).conn \in Conns
  BY <1>1, Alone DEF TypeOK, LastOps
<1> QED
  BY <1>1, <1>2, ReleaseOutputDoes DEF PushMarker

\* The holds of one hook are released.
LEMMA HookDoes ==
  ASSUME TypeOK, TodoOrder, ReleaseHook
  PROVE  /\ todo # <<>> /\ Head(todo).op = "release" /\ Head(todo).conn \in Conns
         /\ Released(Head(todo).conn, Head(todo).hook)
<1>1. todo # <<>> /\ Head(todo).op = "release" /\ todo \in Seq(StepType)
  BY DEF ReleaseHook, NextStep, TypeOK
<1>2. Head(todo).conn \in Conns
  BY <1>1, Alone DEF LastOps
<1>3. Head(todo) \in StepType
  BY <1>1
<1>4. Head(todo).hook \in BOOLEAN
  BY <1>3 DEF StepType
<1> QED
  BY <1>1, <1>2, <1>4, ReleaseOutputDoes DEF ReleaseHook

\* The class is released when its last hook is gone.
LEMMA ClassDoes ==
  ASSUME TypeOK, ReleaseClass
  PROVE  \/ /\ UNCHANGED <<ledger, refused>>
            /\ ~(Active = {} /\ owned)
         \/ Released(None, TRUE)
<1>1. CASE Active = {} /\ owned
  <2>1. PICK ok \in BOOLEAN : /\ PushUnscoped(Unscoped("release", Filter(None, TRUE)), ok)
                              /\ refused' = (refused \/ ~ok)
    BY <1>1 DEF ReleaseClass
  <2> QED
    BY <2>1, ReleaseDoes
<1>2. CASE ~(Active = {} /\ owned)
  BY <1>2 DEF ReleaseClass
<1> QED
  BY <1>1, <1>2

\* Ending the grab ends the holds of its target, in queue order or in both views at once.
LEMMA GrabDoes ==
  ASSUME TypeOK, UpdateGrab
  PROVE  \/ /\ UNCHANGED <<ledger, applied, refused>>
            /\ grabbed => grabbed'
         \/ /\ enqueued' \in View /\ applied' \in View
            /\ enqueued'.target = enqueued.target + 1
            /\ \A h \in enqueued'.held : h \in enqueued.held /\ h[1].target = 0
            /\ applied'.held \subseteq applied.held
            /\ \/ UNCHANGED queue /\ refused'
               \/ UNCHANGED <<applied, refused>> /\ \E a : Admits(a)
<1>0. PICK t \in Nat : t = enqueued.target
  BY DEF TypeOK, View
<1>1. PICK end : end = Unscoped("end", Target(t + 1))
  OBVIOUS
<1>2. PICK o \in Owners : o = Target(t + 1) /\ o.src = None /\ o.target = t + 1
  BY OwnerShape
<1>3. end \in Queued(gen, seat) /\ end.type = "end" /\ end.gen = 0 /\ end.owner = o
  <2>1. gen \in Nat /\ "end" \in Safety
    BY DEF TypeOK, Safety
  <2> QED
    BY <1>1, <1>2, <2>1, UnscopedQueued
<1>4. end \in Plain /\ enqueued \in View /\ applied \in View
  BY <1>3, QueuedPlain DEF TypeOK
<1>5. PICK v : v = Effect(enqueued, end)
  OBVIOUS
<1>6. v \in View /\ v.target = t + 1 /\ v.held = {h \in enqueued.held : h[1].target = 0}
  BY <1>0, <1>2, <1>3, <1>4, <1>5, EffectType, EffectTarget, EffectHeld
<1>7. PICK w : w = Effect(applied, end)
  OBVIOUS
<1>8. w \in View /\ w.held \subseteq applied.held
  BY <1>3, <1>4, <1>7, EffectType, EffectHeld
<1>9. \/ /\ UNCHANGED <<ledger, applied, refused>>
         /\ grabbed => grabbed'
      \/ /\ Len(queue) < Capacity /\ Admit(<<end>>) /\ UNCHANGED applied
         /\ refused' = (refused \/ Len(queue) >= Capacity)
      \/ /\ ~(Len(queue) < Capacity) /\ enqueued' = v /\ applied' = w /\ UNCHANGED queue
         /\ refused' = (refused \/ Len(queue) >= Capacity)
  BY <1>0, <1>1, <1>5, <1>7 DEF UpdateGrab
<1>10. CASE Len(queue) < Capacity /\ Admit(<<end>>) /\ UNCHANGED applied
            /\ refused' = (refused \/ Len(queue) >= Capacity)
  <2>1. ~Stale(end.gen)
    BY <1>3 DEF Stale
  <2>2. Admits(end)
    BY <1>3, <1>10, <2>1, AdmitOne
  <2>3. enqueued' = v
    BY <2>2, <1>5 DEF Admits
  <2>4. ~(Len(queue) >= Capacity)
    BY <1>10, SizeAssumption DEF TypeOK
  <2>5. refused' = refused
    BY <1>10, <2>4 DEF TypeOK
  <2> QED
    BY <1>0, <1>4, <1>6, <1>10, <2>2, <2>3, <2>5
<1>11. CASE ~(Len(queue) < Capacity) /\ enqueued' = v /\ applied' = w /\ UNCHANGED queue
            /\ refused' = (refused \/ Len(queue) >= Capacity)
  <2>1. Len(queue) >= Capacity
    BY <1>11, SizeAssumption DEF TypeOK
  <2> QED
    BY <1>0, <1>6, <1>8, <1>11, <2>1
<1> QED
  BY <1>9, <1>10, <1>11

\* The steps by what they do to the queue, the views and the sequencer.
Admitting ==
  /\ UNCHANGED <<gen, seat, seq, applied, device>> /\ Admitted /\ (refused => refused')
  /\ Has("all") => Has("all")' \/ Wiped("all")

Fences ==
  /\ gen' = gen + 1 /\ seat' \in {seat, None} /\ Has("all")'
  /\ UNCHANGED <<ledger, seq, applied, device, refused>>

Seating ==
  /\ seat = None /\ seat' \in Users \cup {None} /\ ~Has("all") /\ ~Has("wait")
  /\ UNCHANGED <<gen, ledger, seq, applied, device, refused>>

EndsNow ==
  /\ UNCHANGED <<gen, seat, seq, device, queue>> /\ refused'
  /\ enqueued' \in View /\ applied' \in View
  /\ applied'.held \subseteq applied.held
  /\ \A h \in enqueued'.held : h \in enqueued.held

\* Between handlers no RELEASE_ALL is owed.
LEMMA IdleAdmitting ==
  ASSUME Idle, UNCHANGED <<gen, seat, seq, applied, device>>, Admitted, refused => refused'
  PROVE  Admitting
BY IdleHas DEF Admitting

\* What a step can do to the ledger: admit, fence, seat an owner, end a grab at once, discard, or write.
LEMMA Kinds ==
  ASSUME TypeOK, TodoOrder, TargetsPast, Next
  PROVE  Admitting \/ Fences \/ Seating \/ EndsNow \/ DiscardStale \/ SequencerStep
<1>0. todo \in Seq(StepType)
  BY DEF TypeOK
<1>1. ASSUME Request PROVE Admitting \/ Fences
  <2>1. ASSUME NEW c \in Conns, Connect(c) \/ Subscribe(c) \/ Unsubscribe(c) \/ Quarantine(c) \/ Disconnect(c)
        PROVE  Admitting
    <3>1. Idle /\ UNCHANGED <<gen, seat, seq, applied, device, ledger, refused>>
      BY <2>1 DEF Connect, Subscribe, Unsubscribe, Quarantine, Disconnect, ledger
    <3>2. Admitted
      BY <3>1, UnchangedShrinks
    <3> QED
      BY <3>1, <3>2, IdleAdmitting
  <2>2. ASSUME NEW u \in Users \cup {None}, ChangeSeat(u) PROVE Fences
    <3>1. /\ seat' = None /\ gen' = gen + 1 /\ todo' = SeatSteps(u)
          /\ UNCHANGED <<ledger, seq, applied, device, refused>>
      BY <2>2 DEF ChangeSeat
    <3>2. Has("all")'
      BY <3>1, SeatList, Started DEF Ops
    <3> QED
      BY <3>1, <3>2 DEF Fences
  <2>3. ASSUME FencePermissions PROVE Fences
    <3>1. /\ seat' = seat /\ gen' = gen + 1
          /\ todo' = <<Step("flush"), Step("discard"), Step("all")>> \o UpdateGrabs
          /\ UNCHANGED <<ledger, seq, applied, device, refused>>
      BY <2>3 DEF FencePermissions
    <3>2. Has("all")'
      <4>1. PICK I : I = {"flush", "discard", "all", "sync", "grab", "class"}
        OBVIOUS
      <4>2. Listed(todo', I) /\ "all" \in I
        BY <3>1, <4>1, FenceList
      <4> QED
        BY <4>2, Started DEF Ops
    <3> QED
      BY <3>1, <3>2 DEF Fences
  <2>4. ASSUME Panic \/ Grab PROVE Admitting
    <3>1. Idle /\ UNCHANGED <<gen, seat, seq, applied, device, ledger, refused>>
      BY <2>4 DEF Panic, Grab, ledger
    <3>2. Admitted
      BY <3>1, UnchangedShrinks
    <3> QED
      BY <3>1, <3>2, IdleAdmitting
  <2>5. ASSUME Recreate PROVE Admitting
    <3>1. Idle /\ UNCHANGED <<gen, seat, seq, applied, device, refused>>
      BY <2>5 DEF Recreate, main
    <3> QED
      BY <2>5, <3>1, RecreateDoes, IdleAdmitting
  <2>6. ASSUME NEW c \in Conns, NEW key \in Keys, SendNested(c, key) PROVE Admitting
    <3>1. Idle /\ UNCHANGED <<gen, seat, seq, applied, device, ledger, refused>>
      BY <2>6 DEF SendNested, main
    <3>2. Admitted
      BY <3>1, UnchangedShrinks
    <3> QED
      BY <3>1, <3>2, IdleAdmitting
  <2>7. ASSUME NEW c \in Conns, NEW key \in Keys, NEW press \in BOOLEAN, Send(c, key, press)
        PROVE Admitting
    <3>1. Idle /\ UNCHANGED <<gen, seat, seq, applied, device, refused>>
      BY <2>7 DEF Send, main
    <3>2. Admitted
      BY <2>7, SendDoes DEF Adds
    <3> QED
      BY <3>1, <3>2, IdleAdmitting
  <2>8. ASSUME NEW key \in Keys, Physical(key) PROVE Admitting
    <3>1. Idle /\ UNCHANGED <<gen, seat, seq, applied, device, refused>>
      BY <2>8 DEF Physical, main
    <3>2. Admitted
      BY <2>8, PhysicalDoes
    <3> QED
      BY <3>1, <3>2, IdleAdmitting
  <2> QED
    BY <1>1, <2>1, <2>2, <2>3, <2>4, <2>5, <2>6, <2>7, <2>8 DEF Request
<1>2. ASSUME NEW op \in Ops \ {"all"}, NextStep(op), UNCHANGED <<gen, seat, seq, applied, device>>,
             Admitted, refused => refused'
      PROVE  Admitting
  BY <1>0, <1>2, Advance DEF Admitting
<1>3. ASSUME SyncOwners \/ Flush \/ WaitForInflight PROVE Admitting
  <2>1. PICK op \in Ops \ {"all"} : NextStep(op)
    BY <1>3 DEF SyncOwners, Flush, WaitForInflight, Ops
  <2>2. UNCHANGED <<gen, seat, seq, applied, device, ledger, refused>>
    BY <1>3 DEF SyncOwners, Flush, WaitForInflight
  <2> QED
    BY <2>1, <2>2, <1>2, UnchangedShrinks
<1>4. ASSUME UpdateGrab PROVE Admitting \/ EndsNow
  <2>1. UNCHANGED <<gen, seat, seq, device>> /\ NextStep("grab")
    BY <1>4 DEF UpdateGrab
  <2>2. CASE UNCHANGED <<ledger, applied, refused>>
    BY <2>1, <2>2, <1>2, UnchangedShrinks DEF Ops
  <2>3. CASE UNCHANGED <<applied, refused>> /\ \E a : Admits(a)
    BY <2>1, <2>3, <1>2 DEF Ops, Admitted
  <2>4. CASE /\ UNCHANGED queue /\ refused'
             /\ enqueued' \in View /\ applied' \in View
             /\ applied'.held \subseteq applied.held
             /\ \A h \in enqueued'.held : h \in enqueued.held
    BY <2>1, <2>4 DEF EndsNow
  <2> QED
    BY <1>4, <2>2, <2>3, <2>4, GrabDoes
<1>5. ASSUME NEW c, NEW hook, Released(c, hook) PROVE Admitted /\ (refused => refused')
  BY <1>5 DEF Released
<1>15. ASSUME UNCHANGED <<ledger, refused>> PROVE Admitted /\ (refused => refused')
  <2>1. UNCHANGED ledger /\ refused' = refused
    BY <1>15
  <2> QED
    BY <2>1, UnchangedShrinks
<1>6. ASSUME ReleaseClass PROVE Admitting
  <2>1. UNCHANGED <<gen, seat, seq, device, applied>> /\ NextStep("class")
    BY <1>6 DEF ReleaseClass
  <2>2. Admitted /\ (refused => refused')
    BY <1>5, <1>6, <1>15, ClassDoes
  <2> QED
    BY <1>2, <2>1, <2>2 DEF Ops
<1>7. ASSUME ReleaseHook PROVE Admitting
  <2>1. UNCHANGED <<gen, seat, seq, device, applied>> /\ NextStep("release")
    BY <1>7 DEF ReleaseHook
  <2>2. Admitted /\ (refused => refused')
    BY <1>5, <1>7, HookDoes
  <2> QED
    BY <1>2, <2>1, <2>2 DEF Ops
<1>8. ASSUME PushMarker PROVE Admitting
  <2>1. UNCHANGED <<gen, seat, seq, device, applied>>
    BY <1>8 DEF PushMarker
  <2>2. Admitted /\ (refused => refused')
    <3>1. UNCHANGED <<ledger, refused, overtaken>> => UNCHANGED <<ledger, refused>>
      OBVIOUS
    <3> QED
      BY <1>5, <1>8, <1>15, <3>1, MarkerDoes
  <2>3. ~Has("all")
    BY <1>0, <1>8, Alone, MarkerDoes DEF LastOps
  <2> QED
    BY <2>1, <2>2, <2>3 DEF Admitting
<1>9. ASSUME ReleaseGeneric PROVE Admitting
  <2>1. UNCHANGED <<gen, seat, seq, device, applied>> /\ NextStep("generic") /\ (refused => refused')
    BY <1>9 DEF ReleaseGeneric
  <2> QED
    BY <1>2, <1>9, <2>1, GenericDoes DEF Ops
<1>10. ASSUME PushReleaseAll PROVE Admitting
  <2>1. UNCHANGED <<gen, seat, seq, device, applied>> /\ (refused => refused')
    BY <1>10 DEF PushReleaseAll
  <2>2. Wiped("all")
    BY <1>10, AllDoes
  <2> QED
    BY <2>1, <2>2 DEF Admitting, Wiped
<1>11. ASSUME TakeSeat PROVE Seating
  <2>1. /\ todo # <<>> /\ Head(todo).op = "seat" /\ seat' = Head(todo).user
        /\ UNCHANGED <<gen, ledger, seq, applied, device, refused>>
    BY <1>11 DEF TakeSeat
  <2>2. Has("seat") /\ ~Has("all") /\ ~Has("wait")
    BY <1>0, <2>1, Alone DEF LastOps
  <2>3. seat = None
    BY <2>2 DEF TodoOrder
  <2>4. Head(todo) \in StepType
    BY <1>0, <2>1
  <2>5. Head(todo).user \in Users \cup {None}
    BY <2>4 DEF StepType
  <2> QED
    BY <2>1, <2>2, <2>3, <2>5 DEF Seating
<1>12. ASSUME FailOpen PROVE Admitting
  <2>1. Idle /\ UNCHANGED <<gen, seat, seq, applied, device, ledger, refused>>
    BY <1>12 DEF FailOpen
  <2>2. Admitted
    BY <2>1, UnchangedShrinks
  <2> QED
    BY <2>1, <2>2, IdleAdmitting
<1>13. ASSUME Ingress PROVE Admitting
  <2>1. Idle /\ UNCHANGED <<gen, seat, seq, applied, device>>
    BY <1>13 DEF Ingress
  <2>2. Admitted /\ (refused => refused')
    <3>1. CASE \E c \in Conns : Released(c, FALSE)
      BY <1>5, <3>1
    <3>2. CASE Adds(Head(synthq).owner) /\ refused' = refused
      BY <3>2 DEF Adds
    <3> QED
      BY <1>13, <3>1, <3>2, IngressDoes
  <2> QED
    BY <2>1, <2>2, IdleAdmitting
<1>14. ASSUME LaneStep PROVE Admitting
  <2>1. UNCHANGED <<gen, seat, seq, applied, device, todo>>
    BY <1>14 DEF LaneStep, Decide, EmitModify, EmitEgress, EmitCleanup, RunNested, FinishNested, main
  <2>2. Has("all") => Has("all")'
    BY <2>1 DEF Has
  <2>3. ASSUME Decide PROVE Admitted /\ (refused => refused')
    BY <2>3, UnchangedShrinks DEF Decide
  <2>4. ASSUME EmitModify PROVE Admitted /\ (refused => refused')
    <3>1. refused' = refused
      BY <2>4 DEF EmitModify
    <3> QED
      BY <3>1, <2>4, ModifyDoes DEF Adds
  <2>5. ASSUME EmitEgress PROVE Admitted /\ (refused => refused')
    BY <2>5, EgressDoes DEF Adds
  <2>6. ASSUME EmitCleanup PROVE Admitted /\ (refused => refused')
    BY <2>6, CleanupDoes
  <2>7. ASSUME RunNested PROVE Admitted /\ (refused => refused')
    <3>1. refused' = refused
      BY <2>7 DEF RunNested
    <3> QED
      BY <3>1, <2>7, RunNestedDoes DEF Adds
  <2>8. ASSUME FinishNested PROVE Admitted /\ (refused => refused')
    BY <1>5, <2>8, <1>15, FinishNestedDoes
  <2>9. Admitted /\ (refused => refused')
    BY <1>14, <2>3, <2>4, <2>5, <2>6, <2>7, <2>8 DEF LaneStep
  <2> QED
    BY <2>1, <2>2, <2>9 DEF Admitting
<1> QED
  BY <1>1, <1>3, <1>4, <1>6, <1>7, <1>8, <1>9, <1>10, <1>11, <1>12, <1>13, <1>14 DEF Next, MainStep

-----------------------------------------------------------------------------
(* Types of the ledger                                                     *)

\* What may be queued is an action.
LEMMA QueuedActions == ASSUME NEW g, NEW u PROVE Queued(g, u) \subseteq Actions
BY DEF Queued

\* Admission keeps the types of the ledger.
LEMMA AdmittedType ==
  ASSUME TypeOK, Admitted
  PROVE  queue' \in Seq(Queued(gen, seat)) /\ enqueued' \in View
<1>1. CASE UNCHANGED ledger
  BY <1>1 DEF ledger, TypeOK
<1>2. CASE \E a : Admits(a)
  BY <1>2, AdmitsView
<1>3. CASE \E a : AdmitsTwo(a)
  BY <1>3, AdmitsTwoView
<1> QED
  BY <1>1, <1>2, <1>3 DEF Admitted

\* What output_queue_discard_stale leaves.
LEMMA DiscardDoes ==
  ASSUME TypeOK, DiscardStale
  PROVE  /\ queue' = Filtered(queue, FreshActs(gen))
         /\ queue' \in Seq(Queued(gen, seat))
         /\ Items(queue') = Items(queue) \cap FreshActs(gen)
         /\ UNCHANGED <<enqueued, seq, applied, gen, seat, device, refused>>
<1>1. queue \in Seq(Queued(gen, seat)) /\ queue \in Seq(Plain)
  BY QueuedPlain DEF TypeOK
<1>2. queue' = FreshFor(queue, gen)
  BY DEF DiscardStale, Fresh, FreshFor, Stale
<1>3. queue' = Filtered(queue, FreshActs(gen))
  BY <1>1, <1>2, FreshIs
<1>4. PICK S : S = Queued(gen, seat)
  OBVIOUS
<1>5. queue' \in Seq(S) /\ Items(queue') = Items(queue) \cap FreshActs(gen)
  BY <1>1, <1>3, <1>4, FilterType
<1> QED
  BY <1>3, <1>4, <1>5 DEF DiscardStale

SeqType == [stage : {"idle", "popped", "writing"}, action : Actions]

\* An idle sequencer's action is an action.
LEMMA NothingType == Nothing \in Actions
<1>1. PICK o \in Owners : o = Filter(None, FALSE)
  BY OwnerShape
<1> QED
  BY <1>1 DEF Nothing, Unscoped, Action, Actions

\* The sequencer takes the head of the queue.
LEMMA PopDoes ==
  ASSUME TypeOK, Pop
  PROVE  /\ queue = <<Head(queue)>> \o queue' /\ Head(queue) \in Queued(gen, seat)
         /\ queue' \in Seq(Queued(gen, seat))
         /\ seq' = [stage |-> "popped", action |-> Head(queue)] /\ seq.stage = "idle"
         /\ seq' \in SeqType
         /\ UNCHANGED <<enqueued, applied, gen, seat, device, refused>>
<1>1. /\ queue # <<>> /\ queue' = Tail(queue) /\ seq.stage = "idle"
      /\ seq' = [stage |-> "popped", action |-> Head(queue)]
      /\ UNCHANGED <<enqueued, applied, gen, seat, device, refused>>
  BY DEF Pop, main
<1>2. PICK S : S = Queued(gen, seat)
  OBVIOUS
<1>3. queue \in Seq(S)
  BY <1>2 DEF TypeOK
<1>4. Head(queue) \in S /\ Tail(queue) \in Seq(S) /\ queue = <<Head(queue)>> \o Tail(queue)
  BY <1>1, <1>3
<1>5. seq' \in SeqType
  BY <1>1, <1>2, <1>4, QueuedActions DEF SeqType
<1> QED
  BY <1>1, <1>2, <1>4, <1>5

\* Every step keeps the types of the ledger.
LEMMA LedgerTypes ==
  ASSUME TypeOK, PoppedOK, TodoOrder, TargetsPast, Next
  PROVE  /\ queue' \in Seq(Queued(gen', seat')) /\ enqueued' \in View /\ applied' \in View
         /\ seq' \in SeqType /\ device' \in {"up", "gone"} /\ PoppedOK'
<1>0. /\ gen \in Nat /\ queue \in Seq(Queued(gen, seat)) /\ seq \in SeqType
      /\ enqueued \in View /\ applied \in View /\ device \in {"up", "gone"}
  BY DEF TypeOK, SeqType
<1>1. CASE Admitting
  BY <1>0, <1>1, AdmittedType DEF Admitting, PoppedOK
<1>2. CASE Fences
  <2>1. PICK S : S = Queued(gen, seat)
    OBVIOUS
  <2>2. PICK T : T = Queued(gen', seat')
    OBVIOUS
  <2>3. S \subseteq T
    BY <1>0, <1>2, <2>1, <2>2, Ended DEF Fences
  <2>4. Seq(S) \subseteq Seq(T)
    BY <2>3
  <2>5. UNCHANGED <<queue, enqueued, seq, applied, device>>
    BY <1>2 DEF Fences, ledger
  <2> QED
    BY <1>0, <2>1, <2>2, <2>3, <2>4, <2>5 DEF PoppedOK
<1>3. CASE Seating
  <2>1. PICK S : S = Queued(gen, seat)
    OBVIOUS
  <2>2. PICK T : T = Queued(gen', seat')
    OBVIOUS
  <2>3. S \subseteq T
    BY <1>0, <1>3, <2>1, <2>2, Unowned DEF Seating
  <2>4. Seq(S) \subseteq Seq(T)
    BY <2>3
  <2>5. UNCHANGED <<queue, enqueued, seq, applied, device>>
    BY <1>3 DEF Seating, ledger
  <2> QED
    BY <1>0, <2>1, <2>2, <2>3, <2>4, <2>5 DEF PoppedOK
<1>4. CASE EndsNow
  BY <1>0, <1>4 DEF EndsNow, PoppedOK
<1>5. CASE DiscardStale
  BY <1>0, <1>5, DiscardDoes DEF PoppedOK
<1>6. CASE Pop
  BY <1>0, <1>6, PopDoes DEF PoppedOK
<1>7. CASE BeginWrite
  BY <1>0, <1>7, NothingType DEF BeginWrite, PoppedOK, main, ledger, SeqType
<1>8. CASE EndWrite
  <2>1. /\ seq.stage = "writing" /\ seq' = [stage |-> "idle", action |-> Nothing]
        /\ device' \in {device, "up", "gone"}
        /\ applied' \in {applied, Effect(applied, seq.action)}
        /\ UNCHANGED <<queue, enqueued, gen, seat>>
    BY <1>8 DEF EndWrite, main, ledger
  <2>2. seq.action \in Plain
    BY <2>1, QueuedPlain DEF PoppedOK
  <2>3. applied' \in View
    BY <1>0, <2>1, <2>2, EffectType
  <2> QED
    BY <1>0, <2>1, <2>3, NothingType DEF PoppedOK, SeqType
<1> QED
  BY <1>1, <1>2, <1>3, <1>4, <1>5, <1>6, <1>7, <1>8, Kinds DEF SequencerStep

-----------------------------------------------------------------------------
(* The two views agree                                                     *)

\* What the sequencer has to write, as a function of what it is made of; the
\* view it leads to; and whether it holds an action of a type.
LineOf(stage, a, q) == (IF stage = "idle" THEN <<>> ELSE <<a>>) \o q

After(v, l, g) == Replayed(v, Filtered(l, FreshActs(g)))

HasType(s, type) == \E x \in Items(s) : x.type = type

\* What is unwritten is the queue, behind what has been popped.
LEMMA LineShape ==
  ASSUME NEW stage, NEW a, NEW q \in Seq(Plain), stage # "idle" => a \in Plain
  PROVE  /\ LineOf(stage, a, q) \in Seq(Plain)
         /\ stage = "idle" => LineOf(stage, a, q) = q
         /\ stage # "idle" => LineOf(stage, a, q) = <<a>> \o q
<1>1. CASE stage = "idle"
  <2>1. <<>> \o q = q
    OBVIOUS
  <2>2. LineOf(stage, a, q) = <<>> \o q
    BY <1>1 DEF LineOf
  <2> QED
    BY <1>1, <2>1, <2>2
<1>2. CASE stage # "idle"
  <2>1. LineOf(stage, a, q) = <<a>> \o q
    BY <1>2 DEF LineOf
  <2>2. <<a>> \o q \in Seq(Plain)
    BY <1>2, SeqFacts
  <2> QED
    BY <1>2, <2>1, <2>2
<1> QED
  BY <1>1, <1>2

\* The items of a sequence with one put first.
LEMMA ItemsHead ==
  ASSUME NEW S, NEW q \in Seq(S), NEW a \in S
  PROVE  Items(<<a>> \o q) = {a} \cup Items(q)
<1>1. PICK s : s = <<a>> \o q
  OBVIOUS
<1>2. /\ Len(s) = Len(q) + 1 /\ s[1] = a /\ Len(q) \in Nat
      /\ \A i \in 1..Len(q) : s[i + 1] = q[i]
  BY <1>1, SeqFacts
<1>3. ASSUME NEW x \in Items(s) PROVE x \in {a} \cup Items(q)
  <2>1. PICK i \in 1..Len(s) : x = s[i]
    BY DEF Items
  <2>2. CASE i = 1
    BY <1>2, <2>1, <2>2
  <2>3. CASE i # 1
    <3>1. i - 1 \in 1..Len(q) /\ (i - 1) + 1 = i
      BY <1>2, <2>3
    <3>2. x = q[i - 1]
      BY <1>2, <2>1, <3>1
    <3> QED
      BY <3>1, <3>2 DEF Items
  <2> QED
    BY <2>2, <2>3
<1>4. ASSUME NEW x \in {a} \cup Items(q) PROVE x \in Items(s)
  <2>1. CASE x = a
    <3>1. 1 \in 1..Len(s)
      BY <1>2
    <3> QED
      BY <1>2, <2>1, <3>1 DEF Items
  <2>2. CASE x \in Items(q)
    <3>1. PICK i \in 1..Len(q) : x = q[i]
      BY <2>2 DEF Items
    <3>2. i + 1 \in 1..Len(s) /\ s[i + 1] = x
      BY <1>2, <3>1
    <3> QED
      BY <3>2 DEF Items
  <2> QED
    BY <2>1, <2>2
<1> QED
  BY <1>1, <1>3, <1>4

\* What is admitted is written last.
LEMMA LineAppend ==
  ASSUME NEW stage, NEW a, NEW q \in Seq(Plain), stage # "idle" => a \in Plain, NEW b \in Plain
  PROVE  LineOf(stage, a, Append(q, b)) = Append(LineOf(stage, a, q), b)
<1>0. PICK r \in Seq(Plain) : r = Append(q, b)
  BY SeqFacts
<1>3. /\ stage = "idle" => LineOf(stage, a, q) = q /\ LineOf(stage, a, r) = r
      /\ stage # "idle" => LineOf(stage, a, q) = <<a>> \o q /\ LineOf(stage, a, r) = <<a>> \o r
  BY LineShape
<1>1. CASE stage = "idle"
  BY <1>0, <1>1, <1>3, Zenon
<1>2. CASE stage # "idle"
  <2>1. <<a>> \o Append(q, b) = Append(<<a>> \o q, b)
    BY <1>2
  <2> QED
    BY <1>0, <1>2, <1>3, <2>1, Zenon
<1> QED
  BY <1>1, <1>2

\* Admission, in both views.
LEMMA AfterAppend ==
  ASSUME NEW v \in View, NEW l \in Seq(Plain), NEW g, NEW a \in FreshActs(g), NEW e \in View
  PROVE  /\ After(v, l, g) = e => After(v, Append(l, a), g) = Effect(e, a)
         /\ Replayed(v, l).target = e.target => Replayed(v, Append(l, a)).target = Effect(e, a).target
         /\ a.type \in Wipes /\ Replayed(v, l).target = e.target => After(v, Append(l, a), g) = Effect(e, a)
<1>0. a \in Plain
  BY DEF FreshActs
<1>1. PICK f \in Seq(Plain) : f = Filtered(l, FreshActs(g))
  BY FilterType
<1>2. Filtered(Append(l, a), FreshActs(g)) = Append(f, a)
  BY <1>0, <1>1, FilterAppend
<1>3. Replayed(v, Append(f, a)) = Effect(Replayed(v, f), a)
  BY <1>0, ReplayAppend
<1>4. After(v, Append(l, a), g) = Effect(After(v, l, g), a)
  BY <1>1, <1>2, <1>3 DEF After
<1>5. Replayed(v, Append(l, a)) = Effect(Replayed(v, l), a)
  BY <1>0, ReplayAppend
<1>6. Replayed(v, l) \in View /\ After(v, l, g) \in View
  BY <1>1, ReplayType DEF After
<1>7. Replayed(v, l).target = e.target => Replayed(v, Append(l, a)).target = Effect(e, a).target
  BY <1>0, <1>5, <1>6, EffectTarget
<1>8. After(v, l, g).target = Replayed(v, l).target
  BY ReplayFresh DEF After
<1>9. PICK w : w = After(v, l, g)
  OBVIOUS
<1>10. a.type \in Wipes => /\ Effect(w, a) = [held |-> {}, target |-> w.target]
                           /\ Effect(e, a) = [held |-> {}, target |-> e.target]
  BY <1>0, <1>6, <1>9, EffectTarget
<1> QED
  BY <1>4, <1>7, <1>8, <1>9, <1>10

\* The sequencer drops its action, or writes it.
LEMMA AfterHead ==
  ASSUME NEW v \in View, NEW q \in Seq(Plain), NEW g, NEW a \in Plain
  PROVE  /\ a \notin FreshActs(g) => After(v, <<a>> \o q, g) = After(v, q, g)
         /\ a \in FreshActs(g) => After(v, <<a>> \o q, g) = After(Effect(v, a), q, g)
         /\ Replayed(v, <<a>> \o q) = Replayed(Effect(v, a), q)
<1>1. PICK f \in Seq(Plain) : f = Filtered(q, FreshActs(g))
  BY FilterType
<1>2. /\ a \in FreshActs(g) => Filtered(<<a>> \o q, FreshActs(g)) = <<a>> \o f
      /\ a \notin FreshActs(g) => Filtered(<<a>> \o q, FreshActs(g)) = f
  BY <1>1, FilterHead
<1>3. Replayed(v, <<a>> \o f) = Replayed(Effect(v, a), f) /\ Replayed(v, <<a>> \o q) = Replayed(Effect(v, a), q)
  BY ReplayHead
<1>4. CASE a \in FreshActs(g)
  <2>1. Filtered(<<a>> \o q, FreshActs(g)) = <<a>> \o f
    BY <1>2, <1>4
  <2> QED
    BY <1>1, <1>3, <1>4, <2>1 DEF After
<1>5. CASE a \notin FreshActs(g)
  <2>1. Filtered(<<a>> \o q, FreshActs(g)) = f
    BY <1>2, <1>5
  <2> QED
    BY <1>1, <1>3, <1>5, <2>1 DEF After
<1> QED
  BY <1>4, <1>5

\* With a wiping action to come, the holds before it do not matter.
LEMMA AfterWiped ==
  ASSUME NEW v \in View, NEW w \in View, v.target = w.target, NEW q \in Seq(Plain), NEW g,
         NEW type \in Wipes, HasType(q, type)
  PROVE  After(v, q, g) = After(w, q, g)
<1>1. PICK f \in Seq(Plain) : f = Filtered(q, FreshActs(g)) /\ Items(f) = Items(q) \cap FreshActs(g)
  BY FilterType
<1>2. PICK x \in Items(q) : x.type = type
  BY DEF HasType
<1>3. x \in Plain
  BY DEF Items
<1>4. x \in FreshActs(g)
  BY <1>2, <1>3 DEF FreshActs, Plain, Safety
<1>5. x \in Items(f)
  BY <1>1, <1>4
<1>6. \E i \in 1..Len(f) : f[i].type \in Wipes
  BY <1>2, <1>5 DEF Items
<1> QED
  BY <1>1, <1>6, ReplayWiped DEF After

\* Unwritten, in these terms.
LEMMA UnwrittenShape ==
  ASSUME NEW l \in Seq(Plain), NEW g
  PROVE  /\ FreshFor(l, g) = Filtered(l, FreshActs(g))
         /\ \A t \in Safety : (\E i \in DOMAIN FreshFor(l, g) : FreshFor(l, g)[i].type = t) <=> HasType(l, t)
<1>1. PICK f \in Seq(Plain) : f = FreshFor(l, g)
  BY FreshIs, FilterType
<1>2. f = Filtered(l, FreshActs(g)) /\ Items(f) = Items(l) \cap FreshActs(g)
  BY <1>1, FreshIs, FilterType
<1>3. \A x \in Items(l) : x \in Plain
  BY DEF Items
<1>4. ASSUME NEW t \in Safety PROVE (\E i \in DOMAIN f : f[i].type = t) <=> HasType(l, t)
  <2>1. (\E i \in DOMAIN f : f[i].type = t) <=> HasType(f, t)
    <3>1. DOMAIN f = 1..Len(f)
      OBVIOUS
    <3> QED
      BY <3>1 DEF HasType, Items
  <2>2. \A x \in Items(l) : x.type = t => x \in FreshActs(g)
    BY <1>3 DEF FreshActs, Plain
  <2> QED
    BY <1>2, <2>1, <2>2 DEF HasType
<1> QED
  BY <1>1, <1>2, <1>4

Line == LineOf(seq.stage, seq.action, queue)

\* The three parts of the invariant about the views, restated.
LEMMA ViewsAre ==
  ASSUME TypeOK, PoppedOK, queue' \in Seq(Queued(gen', seat')), PoppedOK'
  PROVE  /\ Line \in Seq(Plain) /\ Line' \in Seq(Plain)
         /\ ViewsAgree <=> (~Fencing /\ ~refused /\ (device = "up" \/ HasType(Line, "recreate"))
                              => After(applied, Line, gen) = enqueued)
         /\ ViewsAgree' <=> (~Fencing' /\ ~refused' /\ (device' = "up" \/ HasType(Line', "recreate"))
                              => After(applied', Line', gen') = enqueued')
         /\ TargetsAgree <=> (~refused => Replayed(applied, Line).target = enqueued.target)
         /\ TargetsAgree' <=> (~refused' => Replayed(applied', Line').target = enqueued'.target)
         /\ StaleWriteEnds <=>
              (seq.stage = "writing" /\ Stale(seq.action.gen) /\ ~refused => Fencing \/ HasType(queue, "all"))
         /\ StaleWriteEnds' <=>
              (seq'.stage = "writing" /\ (Stale(seq.action.gen))' /\ ~refused' => Fencing' \/ HasType(queue', "all"))
         /\ Pending("all") <=> HasType(Line, "all")
         /\ seq.stage = "idle" => Line = queue
         /\ seq.stage # "idle" => Line = <<seq.action>> \o queue /\ seq.action \in Plain
         /\ seq'.stage = "idle" => Line' = queue'
         /\ seq'.stage # "idle" => Line' = <<seq'.action>> \o queue' /\ seq'.action \in Plain
<1>1. queue \in Seq(Plain) /\ queue' \in Seq(Plain)
  BY QueuedPlain DEF TypeOK
<1>2. (seq.stage # "idle" => seq.action \in Plain) /\ (seq'.stage # "idle" => seq'.action \in Plain)
  BY QueuedPlain DEF PoppedOK
<1>3. Line \in Seq(Plain) /\ Line' \in Seq(Plain)
  BY <1>1, <1>2, LineShape DEF Line
<1>4. Unwritten = FreshFor(Line, gen) /\ Unwritten' = FreshFor(Line', gen')
  BY DEF Unwritten, Fresh, FreshFor, Stale, Line, LineOf
<1>5. PICK l \in Seq(Plain) : l = Line
  BY <1>3
<1>6. PICK m \in Seq(Plain) : m = Line'
  BY <1>3
<1>7. /\ Unwritten = Filtered(l, FreshActs(gen))
      /\ \A t \in Safety : (\E i \in DOMAIN Unwritten : Unwritten[i].type = t) <=> HasType(l, t)
  BY <1>4, <1>5, UnwrittenShape
<1>8. /\ Unwritten' = Filtered(m, FreshActs(gen'))
      /\ \A t \in Safety : (\E i \in DOMAIN Unwritten' : Unwritten'[i].type = t) <=> HasType(m, t)
  BY <1>4, <1>6, UnwrittenShape
<1>9. "recreate" \in Safety /\ "all" \in Safety
  BY DEF Safety, Wipes
<1>10. (Pending("recreate") <=> HasType(l, "recreate")) /\ (Pending("all") <=> HasType(l, "all"))
  BY <1>7, <1>9 DEF Pending
<1>11. Pending("recreate")' <=> HasType(m, "recreate")
  BY <1>8, <1>9 DEF Pending
<1>12. ViewsAgree <=> (~Fencing /\ ~refused /\ (device = "up" \/ HasType(l, "recreate"))
                              => After(applied, l, gen) = enqueued)
  BY <1>7, <1>10 DEF ViewsAgree, After
<1>13. ViewsAgree' <=> (~Fencing' /\ ~refused' /\ (device' = "up" \/ HasType(m, "recreate"))
                              => After(applied', m, gen') = enqueued')
  BY <1>8, <1>11 DEF ViewsAgree, After
<1>14. Line = Popped \o queue /\ Line' = Popped' \o queue'
  BY DEF Line, LineOf, Popped
<1>15. /\ TargetsAgree <=> (~refused => Replayed(applied, Line).target = enqueued.target)
       /\ TargetsAgree' <=> (~refused' => Replayed(applied', Line').target = enqueued'.target)
  BY <1>14 DEF TargetsAgree
<1>16. /\ StaleWriteEnds <=>
            (seq.stage = "writing" /\ Stale(seq.action.gen) /\ ~refused => Fencing \/ HasType(queue, "all"))
       /\ StaleWriteEnds' <=>
            (seq'.stage = "writing" /\ (Stale(seq.action.gen))' /\ ~refused' => Fencing' \/ HasType(queue', "all"))
  <2>1. (\E i \in 1..Len(queue) : queue[i].type = "all") <=> HasType(queue, "all")
    BY DEF HasType, Items
  <2>2. (\E i \in 1..Len(queue') : queue'[i].type = "all") <=> HasType(queue', "all")
    BY DEF HasType, Items
  <2> QED
    BY <2>1, <2>2 DEF StaleWriteEnds
<1>17. /\ seq.stage = "idle" => Line = queue
       /\ seq.stage # "idle" => Line = <<seq.action>> \o queue
       /\ seq'.stage = "idle" => Line' = queue'
       /\ seq'.stage # "idle" => Line' = <<seq'.action>> \o queue'
  BY <1>1, <1>2, LineShape DEF Line
<1> QED
  BY <1>2, <1>3, <1>5, <1>6, <1>10, <1>12, <1>13, <1>15, <1>16, <1>17

\* Discarding what is stale changes nothing that will be written.
LEMMA FilterLine ==
  ASSUME NEW stage, NEW a, NEW q \in Seq(Plain), stage # "idle" => a \in Plain, NEW g
  PROVE  /\ Filtered(LineOf(stage, a, Filtered(q, FreshActs(g))), FreshActs(g))
              = Filtered(LineOf(stage, a, q), FreshActs(g))
         /\ \A t : HasType(LineOf(stage, a, Filtered(q, FreshActs(g))), t) => HasType(LineOf(stage, a, q), t)
<1>1. PICK K : K = FreshActs(g)
  OBVIOUS
<1>2. PICK f \in Seq(Plain) : f = Filtered(q, K) /\ f \in Seq(Plain \cap K) /\ Items(f) = Items(q) \cap K
  BY FilterType
<1>3. Filtered(f, K) = f
  BY <1>2, FilterAll
<1>4. /\ stage = "idle" => LineOf(stage, a, q) = q /\ LineOf(stage, a, f) = f
      /\ stage # "idle" => LineOf(stage, a, q) = <<a>> \o q /\ LineOf(stage, a, f) = <<a>> \o f
  BY LineShape
<1>5. CASE stage = "idle"
  BY <1>1, <1>2, <1>3, <1>4, <1>5 DEF HasType
<1>6. CASE stage # "idle"
  <2>1. /\ a \in K => Filtered(<<a>> \o q, K) = <<a>> \o Filtered(q, K)
        /\ a \notin K => Filtered(<<a>> \o q, K) = Filtered(q, K)
    BY <1>6, FilterHead
  <2>2. /\ a \in K => Filtered(<<a>> \o f, K) = <<a>> \o Filtered(f, K)
        /\ a \notin K => Filtered(<<a>> \o f, K) = Filtered(f, K)
    BY <1>6, FilterHead
  <2>3. Filtered(<<a>> \o f, K) = Filtered(<<a>> \o q, K)
    BY <1>2, <1>3, <2>1, <2>2
  <2>4. Items(<<a>> \o q) = {a} \cup Items(q) /\ Items(<<a>> \o f) = {a} \cup Items(f)
    BY <1>6, ItemsHead
  <2>5. \A t : HasType(<<a>> \o f, t) => HasType(<<a>> \o q, t)
    BY <1>2, <2>4 DEF HasType
  <2>6. LineOf(stage, a, q) = <<a>> \o q /\ LineOf(stage, a, f) = <<a>> \o f
    BY <1>4, <1>6
  <2> QED
    BY <1>1, <1>2, <2>3, <2>5, <2>6
<1> QED
  BY <1>5, <1>6

\* An admitted action is fresh, and the last to be written.
LEMMA AdmitsFresh ==
  ASSUME TypeOK, PoppedOK, NEW a, Admits(a), UNCHANGED seq
  PROVE  /\ a \in FreshActs(gen) /\ Line' = Append(Line, a)
         /\ Items(queue') = Items(queue) \cup {a}
         /\ Items(Line') = Items(Line) \cup {a}
         /\ enqueued' = Effect(enqueued, a)
<1>1. a \in Plain /\ a \in Queued(gen, seat) /\ queue \in Seq(Plain) /\ queue' = Append(queue, a)
  BY QueuedPlain DEF Admits, TypeOK
<1>2. a \in FreshActs(gen)
  BY <1>1 DEF Admits, Stale, FreshActs
<1>3. seq.stage # "idle" => seq.action \in Plain
  BY QueuedPlain DEF PoppedOK
<1>4. Line' = Append(Line, a)
  BY <1>1, <1>3, LineAppend DEF Line
<1>5. Line \in Seq(Plain)
  BY <1>1, <1>3, LineShape DEF Line
<1> QED
  BY <1>1, <1>2, <1>4, <1>5, ItemsAppend DEF Admits

\* So are a batch and its companion release.
LEMMA AdmitsTwoFresh ==
  ASSUME TypeOK, PoppedOK, NEW a, AdmitsTwo(a), UNCHANGED seq
  PROVE  /\ a \in FreshActs(gen) /\ Companion(a) \in FreshActs(gen)
         /\ Line \in Seq(Plain) /\ Append(Line, a) \in Seq(Plain)
         /\ Line' = Append(Append(Line, a), Companion(a))
         /\ Items(queue') = Items(queue) \cup {a, Companion(a)}
         /\ Items(Line') = Items(Line) \cup {a, Companion(a)}
         /\ a.type = "synth" /\ Companion(a).type = "release"
         /\ enqueued' = Effect(Effect(enqueued, a), Companion(a))
<1>0. PICK b : b = Companion(a)
  OBVIOUS
<1>1. /\ a \in Plain /\ b \in Plain /\ queue \in Seq(Plain)
      /\ queue' = Append(Append(queue, a), b)
  BY <1>0, QueuedPlain DEF AdmitsTwo, TypeOK
<1>2. b.type = "release" /\ b.gen = 0
  BY <1>0 DEF Companion, Unscoped, Action
<1>3. a \in FreshActs(gen) /\ b \in FreshActs(gen)
  BY <1>1, <1>2 DEF AdmitsTwo, Stale, FreshActs
<1>4. seq.stage # "idle" => seq.action \in Plain
  BY QueuedPlain DEF PoppedOK
<1>5. PICK r \in Seq(Plain) : r = Append(queue, a)
  BY <1>1, SeqFacts
<1>6. Line \in Seq(Plain) /\ Append(Line, a) \in Seq(Plain)
  BY <1>1, <1>4, LineShape, SeqFacts DEF Line
<1>7. LineOf(seq.stage, seq.action, r) = Append(Line, a)
  BY <1>1, <1>4, <1>5, LineAppend DEF Line
<1>8. queue' = Append(r, b)
  BY <1>1, <1>5
<1>9. LineOf(seq.stage, seq.action, Append(r, b)) = Append(LineOf(seq.stage, seq.action, r), b)
  BY <1>1, <1>4, LineAppend
<1>10. PICK m \in Seq(Plain) : m = Append(Line, a)
  BY <1>6
<1>11. Line' = Append(m, b) /\ Line' = Append(Append(Line, a), b)
  BY <1>7, <1>8, <1>9, <1>10 DEF Line
<1>13. Items(r) = Items(queue) \cup {a}
  BY <1>1, <1>5, ItemsAppend
<1>14. Items(Append(r, b)) = Items(r) \cup {b}
  BY <1>1, ItemsAppend
<1>15. Items(m) = Items(Line) \cup {a}
  BY <1>1, <1>6, <1>10, ItemsAppend
<1>16. Items(Append(m, b)) = Items(m) \cup {b}
  BY <1>1, ItemsAppend
<1>12. Items(queue') = Items(queue) \cup {a, b} /\ Items(Line') = Items(Line) \cup {a, b}
  BY <1>8, <1>11, <1>13, <1>14, <1>15, <1>16
<1> QED
  BY <1>0, <1>2, <1>3, <1>6, <1>11, <1>12 DEF AdmitsTwo

\* Nothing leaves the queue by admission.
LEMMA AdmittedItems ==
  ASSUME TypeOK, PoppedOK, Admitted, UNCHANGED seq
  PROVE  \A t : (HasType(queue, t) => HasType(queue', t)) /\ (HasType(Line, t) => HasType(Line', t))
<1>1. CASE UNCHANGED ledger
  BY <1>1 DEF ledger, Line
<1>2. CASE \E a : Admits(a)
  BY <1>2, AdmitsFresh DEF HasType
<1>3. CASE \E a : AdmitsTwo(a)
  BY <1>3, AdmitsTwoFresh DEF HasType
<1> QED
  BY <1>1, <1>2, <1>3 DEF Admitted

-----------------------------------------------------------------------------
(* The two views, kind of step by kind of step                             *)

ViewInv == TargetsAgree /\ StaleWriteEnds /\ ViewsAgree

\* Where the ledger's types hold before and after the step.
Typed ==
  /\ TypeOK /\ PoppedOK /\ PoppedOK'
  /\ queue' \in Seq(Queued(gen', seat')) /\ enqueued' \in View /\ applied' \in View
  /\ todo' \in Seq(StepType)

\* One admitted action moves both views alike; a wiping one even repairs them.
LEMMA OneAdmitted ==
  ASSUME Typed, UNCHANGED <<applied, seq, gen, device>>, TargetsAgree, ~refused, NEW a, Admits(a)
  PROVE  /\ Replayed(applied', Line').target = enqueued'.target
         /\ a.type \in Wipes => After(applied', Line', gen') = enqueued'
         /\ After(applied, Line, gen) = enqueued => After(applied', Line', gen') = enqueued'
<1>1. a \in FreshActs(gen) /\ Line' = Append(Line, a) /\ enqueued' = Effect(enqueued, a)
  BY AdmitsFresh DEF Typed
<1>2. Line \in Seq(Plain) /\ Replayed(applied, Line).target = enqueued.target
  BY ViewsAre DEF Typed
<1>3. applied \in View /\ enqueued \in View
  BY DEF Typed, TypeOK
<1>4. PICK l \in Seq(Plain) : l = Line
  BY <1>2
<1>5. /\ After(applied, l, gen) = enqueued => After(applied, Append(l, a), gen) = Effect(enqueued, a)
      /\ Replayed(applied, l).target = enqueued.target
           => Replayed(applied, Append(l, a)).target = Effect(enqueued, a).target
      /\ a.type \in Wipes /\ Replayed(applied, l).target = enqueued.target
           => After(applied, Append(l, a), gen) = Effect(enqueued, a)
  BY <1>1, <1>3, AfterAppend
<1> QED
  BY <1>1, <1>2, <1>4, <1>5

\* So do a batch and its companion release.
LEMMA TwoAdmitted ==
  ASSUME Typed, UNCHANGED <<applied, seq, gen, device>>, TargetsAgree, ~refused, NEW a, AdmitsTwo(a)
  PROVE  /\ Replayed(applied', Line').target = enqueued'.target
         /\ After(applied, Line, gen) = enqueued => After(applied', Line', gen') = enqueued'
<1>0. PICK b : b = Companion(a)
  OBVIOUS
<1>1. /\ a \in FreshActs(gen) /\ b \in FreshActs(gen) /\ Append(Line, a) \in Seq(Plain)
      /\ Line' = Append(Append(Line, a), b) /\ enqueued' = Effect(Effect(enqueued, a), b)
  BY <1>0, AdmitsTwoFresh DEF Typed
<1>2. Line \in Seq(Plain) /\ Replayed(applied, Line).target = enqueued.target
  BY ViewsAre DEF Typed
<1>3. applied \in View /\ enqueued \in View /\ a \in Plain
  BY <1>1 DEF Typed, TypeOK, FreshActs
<1>4. PICK l \in Seq(Plain) : l = Line
  BY <1>2
<1>5. PICK m \in Seq(Plain) : m = Append(l, a)
  BY <1>1, <1>4
<1>6. PICK e \in View : e = Effect(enqueued, a)
  BY <1>3, EffectType
<1>7. /\ After(applied, l, gen) = enqueued => After(applied, Append(l, a), gen) = Effect(enqueued, a)
      /\ Replayed(applied, l).target = enqueued.target
           => Replayed(applied, Append(l, a)).target = Effect(enqueued, a).target
  BY <1>1, <1>3, AfterAppend
<1>8. /\ After(applied, m, gen) = e => After(applied, Append(m, b), gen) = Effect(e, b)
      /\ Replayed(applied, m).target = e.target
           => Replayed(applied, Append(m, b)).target = Effect(e, b).target
  BY <1>1, <1>3, AfterAppend
<1> QED
  BY <1>1, <1>2, <1>4, <1>5, <1>6, <1>7, <1>8

\* An admission keeps the views together.
LEMMA AdmittingViews ==
  ASSUME Typed, ViewInv, Admitting
  PROVE  ViewInv'
<1>1. /\ UNCHANGED <<applied, seq, gen, device>> /\ Admitted /\ (refused => refused')
      /\ Has("all") => Has("all")' \/ Wiped("all")
  BY DEF Admitting
<1>2. TypeOK /\ PoppedOK /\ TargetsAgree /\ StaleWriteEnds /\ ViewsAgree
  BY DEF Typed, ViewInv
<1>3. (Fencing <=> Has("all")) /\ (Fencing' <=> Has("all")')
  BY FencingHas DEF Typed, TypeOK
<1>4. TargetsAgree'
  <2> SUFFICES ASSUME ~refused' PROVE Replayed(applied', Line').target = enqueued'.target
    BY ViewsAre DEF Typed
  <2>1. CASE UNCHANGED ledger
    <3>1. Replayed(applied, Line).target = enqueued.target
      BY <1>1, ViewsAre DEF Typed, ViewInv
    <3> QED
      BY <3>1, <2>1, <1>1 DEF ledger, Line
  <2>2. CASE \E a : Admits(a)
    BY <2>2, <1>1, <1>2, OneAdmitted
  <2>3. CASE \E a : AdmitsTwo(a)
    BY <2>3, <1>1, <1>2, TwoAdmitted
  <2> QED
    BY <2>1, <2>2, <2>3, <1>1 DEF Admitted
<1>5. \A t : (HasType(queue, t) => HasType(queue', t)) /\ (HasType(Line, t) => HasType(Line', t))
  BY <1>1, <1>2, AdmittedItems
<1>6. ASSUME Fencing, ~Fencing', ~refused'
      PROVE  HasType(queue', "all") /\ After(applied', Line', gen') = enqueued'
  <2>1. PICK a : Admits(a) /\ a.type = "all"
    BY <1>1, <1>3, <1>6 DEF Wiped
  <2>2. Items(queue') = Items(queue) \cup {a}
    BY <2>1, <1>1, <1>2, AdmitsFresh
  <2>3. a.type \in Wipes
    BY <2>1 DEF Wipes
  <2> QED
    BY <2>1, <2>2, <2>3, <1>1, <1>2, <1>6, OneAdmitted DEF HasType
<1>7. StaleWriteEnds'
  <2> SUFFICES ASSUME seq'.stage = "writing", (Stale(seq.action.gen))', ~refused', ~Fencing'
               PROVE  HasType(queue', "all")
    BY ViewsAre DEF Typed
  <2>1. seq.stage = "writing" /\ Stale(seq.action.gen) /\ ~refused
    BY <1>1 DEF Stale
  <2>2. Fencing \/ HasType(queue, "all")
    BY <2>1, <1>2, ViewsAre DEF Typed
  <2> QED
    BY <2>2, <1>5, <1>6
<1>8. ViewsAgree'
  <2> SUFFICES ASSUME ~Fencing', ~refused', device' = "up" \/ HasType(Line', "recreate")
               PROVE  After(applied', Line', gen') = enqueued'
    BY ViewsAre DEF Typed
  <2>0. ~refused
    BY <1>1
  <2>1. ASSUME ~Fencing, device = "up" \/ HasType(Line, "recreate") PROVE After(applied, Line, gen) = enqueued
    BY <2>1, <2>0, <1>2, ViewsAre DEF Typed
  <2>2. CASE Fencing
    BY <2>2, <1>6
  <2>3. CASE ~Fencing /\ UNCHANGED ledger
    <3>1. Line' = Line /\ enqueued' = enqueued
      BY <1>1, <2>3 DEF ledger, Line
    <3> QED
      BY <3>1, <1>1, <2>1, <2>3
  <2>4. CASE ~Fencing /\ \E a : Admits(a)
    <3>1. PICK a : Admits(a)
      BY <2>4
    <3>2. CASE a.type \in Wipes
      BY <3>1, <3>2, <1>1, <1>2, <2>0, OneAdmitted
    <3>3. CASE a.type \notin Wipes
      <4>1. Items(Line') = Items(Line) \cup {a} /\ a.type # "recreate"
        BY <3>1, <3>3, <1>1, <1>2, AdmitsFresh DEF Wipes
      <4>2. HasType(Line', "recreate") => HasType(Line, "recreate")
        BY <4>1 DEF HasType
      <4>3. After(applied, Line, gen) = enqueued
        BY <4>2, <2>1, <2>4, <1>1
      <4> QED
        BY <4>3, <3>1, <1>1, <1>2, <2>0, OneAdmitted
    <3> QED
      BY <3>2, <3>3
  <2>5. CASE ~Fencing /\ \E a : AdmitsTwo(a)
    <3>1. PICK a : AdmitsTwo(a)
      BY <2>5
    <3>2. /\ Items(Line') = Items(Line) \cup {a, Companion(a)}
          /\ a.type = "synth" /\ Companion(a).type = "release"
      BY <3>1, <1>1, <1>2, AdmitsTwoFresh
    <3>3. HasType(Line', "recreate") => HasType(Line, "recreate")
      BY <3>2 DEF HasType
    <3>4. After(applied, Line, gen) = enqueued
      BY <3>3, <2>1, <2>5, <1>1
    <3> QED
      BY <3>4, <3>1, <1>1, <1>2, <2>0, TwoAdmitted
  <2> QED
    BY <2>2, <2>3, <2>4, <2>5, <1>1 DEF Admitted
<1> QED
  BY <1>4, <1>7, <1>8 DEF ViewInv

\* Steps that leave the line of unwritten output alone.
LEMMA QuietViews ==
  ASSUME Typed, ViewInv, UNCHANGED <<ledger, seq, applied, device, refused>>,
         Fencing' \/ (~Fencing /\ gen' = gen)
  PROVE  ViewInv'
<1>1. TypeOK /\ PoppedOK /\ TargetsAgree /\ StaleWriteEnds /\ ViewsAgree
  BY DEF Typed, ViewInv
<1>2. Line' = Line /\ queue' = queue /\ enqueued' = enqueued
  BY DEF ledger, Line
<1>3. TargetsAgree'
  BY <1>1, <1>2, ViewsAre DEF Typed
<1>4. StaleWriteEnds'
  <2> SUFFICES ASSUME seq'.stage = "writing", (Stale(seq.action.gen))', ~refused', ~Fencing'
               PROVE  HasType(queue', "all")
    BY ViewsAre DEF Typed
  <2>1. seq.stage = "writing" /\ Stale(seq.action.gen) /\ ~refused /\ ~Fencing
    BY DEF Stale
  <2> QED
    BY <2>1, <1>1, <1>2, ViewsAre DEF Typed
<1>5. ViewsAgree'
  <2> SUFFICES ASSUME ~Fencing', ~refused', device' = "up" \/ HasType(Line', "recreate")
               PROVE  After(applied', Line', gen') = enqueued'
    BY ViewsAre DEF Typed
  <2>1. ~Fencing /\ gen' = gen /\ (device = "up" \/ HasType(Line, "recreate")) /\ ~refused
    BY <1>2
  <2>2. After(applied, Line, gen) = enqueued
    BY <2>1, <1>1, ViewsAre DEF Typed
  <2> QED
    BY <2>1, <2>2, <1>2
<1> QED
  BY <1>3, <1>4, <1>5 DEF ViewInv

\* Dropping what a former generation left changes neither view's future.
LEMMA DiscardViews ==
  ASSUME Typed, ViewInv, TodoOrder, DiscardStale
  PROVE  ViewInv'
<1>1. TypeOK /\ PoppedOK /\ TargetsAgree /\ StaleWriteEnds /\ ViewsAgree
  BY DEF Typed, ViewInv
<1>2. /\ queue' = Filtered(queue, FreshActs(gen))
      /\ Items(queue') = Items(queue) \cap FreshActs(gen)
      /\ UNCHANGED <<enqueued, seq, applied, gen, seat, device, refused>>
  BY <1>1, DiscardDoes
<1>3. Fencing' <=> Fencing
  <2>1. NextStep("discard") /\ todo \in Seq(StepType)
    BY <1>1 DEF DiscardStale, TypeOK
  <2>2. Has("all")' <=> Has("all")
    BY <2>1, Advance
  <2> QED
    BY <2>1, <2>2, FencingHas DEF Typed
<1>4. queue \in Seq(Plain) /\ (seq.stage # "idle" => seq.action \in Plain) /\ applied \in View
  BY <1>1, QueuedPlain DEF TypeOK, PoppedOK
<1>5. Line \in Seq(Plain) /\ Line' \in Seq(Plain)
  BY ViewsAre DEF Typed
<1>6. Line' = LineOf(seq.stage, seq.action, Filtered(queue, FreshActs(gen)))
  BY <1>2 DEF Line
<1>7. /\ Filtered(Line', FreshActs(gen)) = Filtered(Line, FreshActs(gen))
      /\ \A t : HasType(Line', t) => HasType(Line, t)
  BY <1>4, <1>6, FilterLine DEF Line
<1>8. TargetsAgree'
  <2>1. /\ Replayed(applied, Filtered(Line, FreshActs(gen))).target = Replayed(applied, Line).target
        /\ Replayed(applied, Filtered(Line', FreshActs(gen))).target = Replayed(applied, Line').target
    BY <1>4, <1>5, ReplayFresh
  <2>2. Replayed(applied, Line').target = Replayed(applied, Line).target
    BY <2>1, <1>7
  <2> QED
    BY <2>2, <1>1, <1>2, ViewsAre DEF Typed
<1>9. StaleWriteEnds'
  <2> SUFFICES ASSUME seq'.stage = "writing", (Stale(seq.action.gen))', ~refused', ~Fencing'
               PROVE  HasType(queue', "all")
    BY ViewsAre DEF Typed
  <2>1. seq.stage = "writing" /\ Stale(seq.action.gen) /\ ~refused /\ ~Fencing
    BY <1>2, <1>3 DEF Stale
  <2>2. HasType(queue, "all")
    BY <2>1, <1>1, ViewsAre DEF Typed
  <2>3. PICK x \in Items(queue) : x.type = "all"
    BY <2>2 DEF HasType
  <2>4. x \in Plain
    BY <2>3, <1>4 DEF Items
  <2>5. x \in FreshActs(gen)
    BY <2>3, <2>4 DEF Plain, FreshActs, Safety, Wipes
  <2> QED
    BY <2>3, <2>5, <1>2 DEF HasType
<1>10. ViewsAgree'
  <2> SUFFICES ASSUME ~Fencing', ~refused', device' = "up" \/ HasType(Line', "recreate")
               PROVE  After(applied', Line', gen') = enqueued'
    BY ViewsAre DEF Typed
  <2>1. ~Fencing /\ (device = "up" \/ HasType(Line, "recreate")) /\ ~refused
    BY <1>2, <1>3, <1>7
  <2>2. After(applied, Line, gen) = enqueued
    BY <2>1, <1>1, ViewsAre DEF Typed
  <2>3. After(applied, Line', gen) = After(applied, Line, gen)
    BY <1>7 DEF After
  <2> QED
    BY <2>2, <2>3, <1>2
<1> QED
  BY <1>8, <1>9, <1>10 DEF ViewInv

\* Popping an action leaves it the first of the line.
LEMMA PopViews ==
  ASSUME Typed, ViewInv, Pop
  PROVE  ViewInv'
<1>1. TypeOK /\ PoppedOK /\ TargetsAgree /\ StaleWriteEnds /\ ViewsAgree
  BY DEF Typed, ViewInv
<1>2. /\ queue = <<Head(queue)>> \o queue'
      /\ seq' = [stage |-> "popped", action |-> Head(queue)] /\ seq.stage = "idle"
      /\ UNCHANGED <<enqueued, applied, gen, seat, device, refused>>
  BY <1>1, PopDoes
<1>3. seq'.stage = "popped" /\ seq'.action = Head(queue)
  BY <1>2
<1>4. Line' = <<Head(queue)>> \o queue' /\ Line = queue
  BY <1>2, <1>3, ViewsAre DEF Typed
<1>5. Line' = Line
  BY <1>2, <1>4
<1>6. Fencing' <=> Fencing
  <2>1. todo' = todo
    BY DEF Pop, main
  <2> QED
    BY <2>1 DEF Fencing
<1>7. TargetsAgree'
  BY <1>1, <1>2, <1>5, ViewsAre DEF Typed
<1>8. StaleWriteEnds'
  BY <1>3, ViewsAre DEF Typed
<1>9. ViewsAgree'
  <2> SUFFICES ASSUME ~Fencing', ~refused', device' = "up" \/ HasType(Line', "recreate")
               PROVE  After(applied', Line', gen') = enqueued'
    BY ViewsAre DEF Typed
  <2>1. ~Fencing /\ (device = "up" \/ HasType(Line, "recreate")) /\ ~refused
    BY <1>2, <1>5, <1>6
  <2>2. After(applied, Line, gen) = enqueued
    BY <2>1, <1>1, ViewsAre DEF Typed
  <2> QED
    BY <2>2, <1>2, <1>5
<1> QED
  BY <1>7, <1>8, <1>9 DEF ViewInv

\* An action of a former generation is dropped: it would not have moved the target.
LEMMA BeginViews ==
  ASSUME Typed, ViewInv, BeginWrite
  PROVE  ViewInv'
<1>1. TypeOK /\ PoppedOK /\ TargetsAgree /\ StaleWriteEnds /\ ViewsAgree
  BY DEF Typed, ViewInv
<1>2. /\ seq.stage = "popped" /\ UNCHANGED <<queue, enqueued, applied, gen, device, refused, todo>>
      /\ Stale(seq.action.gen) => seq' = [stage |-> "idle", action |-> Nothing]
      /\ ~Stale(seq.action.gen) => seq' = [seq EXCEPT !.stage = "writing"]
  BY DEF BeginWrite, ledger, main
<1>3. Fencing' <=> Fencing
  BY <1>2 DEF Fencing
<1>4. PICK a : a = seq.action
  OBVIOUS
<1>5. Line = <<a>> \o queue /\ a \in Plain /\ queue \in Seq(Plain) /\ applied \in View
  BY <1>1, <1>2, <1>4, ViewsAre, QueuedPlain DEF Typed, TypeOK
<1>6. CASE Stale(seq.action.gen)
  <2>1. seq'.stage = "idle"
    BY <1>2, <1>6
  <2>2. Line' = queue
    BY <2>1, <1>2, ViewsAre DEF Typed
  <2>3. a \notin FreshActs(gen) /\ a.type # "end"
    BY <1>4, <1>5, <1>6 DEF Stale, FreshActs, Plain, Safety
  <2>4. After(applied, <<a>> \o queue, gen) = After(applied, queue, gen)
    BY <1>5, <2>3, AfterHead
  <2>5. Effect(applied, a) \in View /\ Effect(applied, a).target = applied.target
    BY <1>5, <2>3, EffectTarget, EffectType
  <2>6. Replayed(applied, <<a>> \o queue) = Replayed(Effect(applied, a), queue)
    BY <1>5, AfterHead
  <2>7. Replayed(Effect(applied, a), queue).target = Replayed(applied, queue).target
    BY <1>5, <2>5, ReplayTarget
  <2>8. \A t : HasType(queue, t) => HasType(<<a>> \o queue, t)
    <3>1. Items(<<a>> \o queue) = {a} \cup Items(queue)
      BY <1>5, ItemsHead
    <3> QED
      BY <3>1 DEF HasType
  <2>9. TargetsAgree'
    BY <1>1, <1>2, <1>5, <2>2, <2>6, <2>7, ViewsAre DEF Typed
  <2>10. StaleWriteEnds'
    BY <2>1, ViewsAre DEF Typed
  <2>11. ViewsAgree'
    <3> SUFFICES ASSUME ~Fencing', ~refused', device' = "up" \/ HasType(Line', "recreate")
                 PROVE  After(applied', Line', gen') = enqueued'
      BY ViewsAre DEF Typed
    <3>1. ~Fencing /\ (device = "up" \/ HasType(Line, "recreate")) /\ ~refused
      BY <1>2, <1>3, <1>5, <2>2, <2>8
    <3>2. After(applied, Line, gen) = enqueued
      BY <3>1, <1>1, ViewsAre DEF Typed
    <3> QED
      BY <3>2, <1>2, <1>5, <2>2, <2>4
  <2> QED
    BY <2>9, <2>10, <2>11 DEF ViewInv
<1>7. CASE ~Stale(seq.action.gen)
  <2>1. seq'.stage = "writing" /\ seq'.action = a
    <3>1. seq \in SeqType
      BY <1>1 DEF TypeOK, SeqType
    <3> QED
      BY <1>2, <1>4, <1>7, <3>1 DEF SeqType
  <2>2. Line' = Line
    BY <2>1, <1>2, <1>5, ViewsAre DEF Typed
  <2>3. TargetsAgree'
    BY <1>1, <1>2, <2>2, ViewsAre DEF Typed
  <2>4. StaleWriteEnds'
    <3>1. ~(Stale(seq.action.gen))'
      BY <1>2, <1>4, <1>7, <2>1 DEF Stale
    <3> QED
      BY <3>1, ViewsAre DEF Typed
  <2>5. ViewsAgree'
    <3> SUFFICES ASSUME ~Fencing', ~refused', device' = "up" \/ HasType(Line', "recreate")
                 PROVE  After(applied', Line', gen') = enqueued'
      BY ViewsAre DEF Typed
    <3>1. ~Fencing /\ (device = "up" \/ HasType(Line, "recreate")) /\ ~refused
      BY <1>2, <1>3, <2>2
    <3>2. After(applied, Line, gen) = enqueued
      BY <3>1, <1>1, ViewsAre DEF Typed
    <3> QED
      BY <3>2, <1>2, <2>2
  <2> QED
    BY <2>3, <2>4, <2>5 DEF ViewInv
<1> QED
  BY <1>6, <1>7

\* A write moves the written view to where the line's head leads; a batch that
\* its generation did not outlive, or that found no device, has a wipe behind it.
LEMMA EndViews ==
  ASSUME Typed, ViewInv, EndWrite
  PROVE  ViewInv'
<1>1. TypeOK /\ PoppedOK /\ TargetsAgree /\ StaleWriteEnds /\ ViewsAgree
  BY DEF Typed, ViewInv
<1>2. /\ seq.stage = "writing" /\ UNCHANGED <<queue, enqueued, gen, refused, todo>>
      /\ seq' = [stage |-> "idle", action |-> Nothing]
      /\ seq.action.type # "recreate" => device' = device
      /\ applied' = IF seq.action.type = "synth" /\ device = "gone" THEN applied
                    ELSE Effect(applied, seq.action)
  BY DEF EndWrite, ledger, main
<1>3. Fencing' <=> Fencing
  BY <1>2 DEF Fencing
<1>4. PICK a : a = seq.action
  OBVIOUS
<1>5. /\ Line = <<a>> \o queue /\ a \in Plain /\ queue \in Seq(Plain)
      /\ applied \in View /\ applied' \in View
  BY <1>1, <1>2, <1>4, ViewsAre, QueuedPlain DEF Typed, TypeOK
<1>6. seq'.stage = "idle"
  BY <1>2
<1>7. Line' = queue
  BY <1>2, <1>6, ViewsAre DEF Typed
<1>8. PICK w \in View : w = Effect(applied, a)
  BY <1>5, EffectType
<1>9. /\ Replayed(applied, <<a>> \o queue) = Replayed(w, queue)
      /\ a \in FreshActs(gen) => After(applied, <<a>> \o queue, gen) = After(w, queue, gen)
      /\ a \notin FreshActs(gen) => After(applied, <<a>> \o queue, gen) = After(applied, queue, gen)
  BY <1>5, <1>8, AfterHead
<1>10. a.type # "end" => w.target = applied.target
  BY <1>5, <1>8, EffectTarget
<1>11. applied' = w \/ (applied' = applied /\ a.type = "synth" /\ device = "gone" /\ device' = "gone")
  <2>1. "synth" # "recreate"
    OBVIOUS
  <2> QED
    BY <1>2, <1>4, <1>8
<1>12. applied'.target = w.target
  BY <1>10, <1>11
<1>13. TargetsAgree'
  <2>1. Replayed(applied', queue).target = Replayed(w, queue).target
    BY <1>5, <1>8, <1>12, ReplayTarget
  <2> QED
    BY <2>1, <1>1, <1>2, <1>5, <1>7, <1>9, ViewsAre DEF Typed
<1>14. StaleWriteEnds'
  BY <1>6, ViewsAre DEF Typed
<1>15. ViewsAgree'
  <2> SUFFICES ASSUME ~Fencing', ~refused', device' = "up" \/ HasType(Line', "recreate")
               PROVE  After(applied', Line', gen') = enqueued'
    BY ViewsAre DEF Typed
  <2>1. Items(Line) = {a} \cup Items(queue)
    BY <1>5, ItemsHead
  <2>2. ~Fencing /\ ~refused /\ (device = "up" \/ HasType(Line, "recreate"))
    BY <1>2, <1>3, <1>4, <1>7, <2>1 DEF HasType
  <2>3. After(applied, Line, gen) = enqueued
    BY <2>2, <1>1, ViewsAre DEF Typed
  <2>4. CASE a \notin FreshActs(gen)
    <3>1. Stale(seq.action.gen) /\ a.type # "end"
      BY <2>4, <1>4, <1>5 DEF Stale, FreshActs, Plain, Safety
    <3>2. HasType(queue, "all")
      BY <3>1, <1>1, <1>2, <2>2, ViewsAre DEF Typed
    <3>3. applied'.target = applied.target /\ "all" \in Wipes
      BY <3>1, <1>10, <1>12 DEF Wipes
    <3>4. After(applied', queue, gen) = After(applied, queue, gen)
      BY <3>2, <3>3, <1>5, AfterWiped
    <3> QED
      BY <3>4, <2>3, <2>4, <1>2, <1>5, <1>7, <1>9
  <2>5. CASE a \in FreshActs(gen)
    <3>1. CASE applied' = w
      BY <3>1, <2>3, <2>5, <1>2, <1>5, <1>7, <1>9
    <3>2. CASE applied' # w
      <4>1. HasType(queue, "recreate") /\ "recreate" \in Wipes
        BY <3>2, <1>7, <1>11 DEF Wipes
      <4>2. After(applied', queue, gen) = After(w, queue, gen)
        BY <4>1, <1>5, <1>8, <1>12, AfterWiped
      <4> QED
        BY <4>2, <2>3, <2>5, <1>2, <1>5, <1>7, <1>9
    <3> QED
      BY <3>1, <3>2
  <2> QED
    BY <2>4, <2>5
<1> QED
  BY <1>13, <1>14, <1>15 DEF ViewInv

\* Every step keeps the two views together.
LEMMA ViewsKeep ==
  ASSUME TypeOK, PoppedOK, TodoOrder, TargetsPast, ViewInv, Next, todo' \in Seq(StepType)
  PROVE  ViewInv'
<1>1. Typed
  BY LedgerTypes DEF Typed
<1>2. (Fencing <=> Has("all")) /\ (Fencing' <=> Has("all")')
  BY FencingHas DEF TypeOK
<1>3. CASE Admitting
  BY <1>1, <1>3, AdmittingViews
<1>4. CASE Fences
  BY <1>1, <1>2, <1>4, QuietViews DEF Fences
<1>5. CASE Seating
  BY <1>1, <1>2, <1>5, QuietViews DEF Seating
<1>6. CASE EndsNow
  <2>1. refused'
    BY <1>6 DEF EndsNow
  <2> QED
    BY <2>1, ViewsAre, <1>1 DEF ViewInv, Typed
<1>7. CASE DiscardStale
  BY <1>1, <1>7, DiscardViews
<1>8. CASE SequencerStep
  BY <1>1, <1>8, PopViews, BeginViews, EndViews DEF SequencerStep
<1> QED
  BY <1>3, <1>4, <1>5, <1>6, <1>7, <1>8, Kinds

-----------------------------------------------------------------------------
(* Nothing foreign                                                         *)

\* What admission adds is held by a connection of the seat's owner.
LEMMA AdmittedHolds ==
  ASSUME TypeOK, Admitted
  PROVE  \A h \in enqueued'.held :
           h \in enqueued.held \/ (h[1].conn \in Conns /\ User[h[1].conn] = seat)
<1>1. CASE UNCHANGED ledger
  BY <1>1 DEF ledger
<1>2. ASSUME NEW a, Admits(a), NEW h \in enqueued'.held
      PROVE  h \in enqueued.held \/ (h[1].conn \in Conns /\ User[h[1].conn] = seat)
  <2>1. \/ h \in enqueued.held
        \/ h = <<a.owner, a.key>> /\ a.owner.conn \in Conns /\ User[a.owner.conn] = seat
    BY <1>2, AdmitsView
  <2> QED
    BY <2>1
<1>3. CASE \E a : AdmitsTwo(a)
  BY <1>3, AdmitsTwoView
<1> QED
  BY <1>1, <1>2, <1>3 DEF Admitted

\* What a write adds is held by the batch's owner; RELEASE_ALL leaves nothing.
LEMMA WrittenHolds ==
  ASSUME TypeOK, PoppedOK, EndWrite
  PROVE  /\ \A h \in applied'.held :
              \/ h \in applied.held
              \/ seq.action.type = "synth" /\ h[1] = seq.action.owner /\ h[1].conn \in Conns
         /\ seq.action.type = "all" => applied'.held = {}
<1>1. PICK a : a = seq.action
  OBVIOUS
<1>2. a \in Queued(gen, seat) /\ applied \in View
  BY <1>1 DEF PoppedOK, EndWrite, TypeOK
<1>3. a \in Plain /\ (a.type = "synth" => a.owner.conn \in Conns)
  BY <1>2, QueuedPlain DEF Queued
<1>4. \/ applied' = applied /\ a.type = "synth"
      \/ applied' = Effect(applied, a)
  BY <1>1 DEF EndWrite
<1>5. /\ a.type = "synth" => Effect(applied, a).held \subseteq applied.held \cup {<<a.owner, a.key>>}
      /\ a.type # "synth" => Effect(applied, a).held \subseteq applied.held
  BY <1>2, <1>3, EffectHeld
<1>6. a.type = "all" => Effect(applied, a).held = {}
  <2>1. a.type \in Wipes => Effect(applied, a) = [held |-> {}, target |-> applied.target]
    BY <1>2, <1>3, EffectTarget
  <2> QED
    BY <2>1 DEF Wipes
<1>7. ASSUME NEW h \in applied'.held, h \notin applied.held
      PROVE  a.type = "synth" /\ h[1] = a.owner /\ h[1].conn \in Conns
  <2>1. a.type = "synth" /\ h = <<a.owner, a.key>>
    BY <1>4, <1>5, <1>7
  <2> QED
    BY <2>1, <1>3
<1>8. a.type = "all" => applied'.held = {}
  BY <1>4, <1>6
<1> QED
  BY <1>1, <1>7, <1>8

\* AllPending, by what is in the queue.
LEMMA AllPendingIs ==
  /\ AllPending <=> HasType(queue, "all") \/ (seq.stage # "idle" /\ seq.action.type = "all")
  /\ AllPending' <=> HasType(queue', "all") \/ (seq'.stage # "idle" /\ seq'.action.type = "all")
  BY DEF AllPending, HasType, Items

\* Nobody is seated while a former owner's batch is being written.
LEMMA SeatWaits ==
  ASSUME TypeOK, TodoOrder, Next, seq.stage = "writing", seat' = None, seat = None => Has("wait")
  PROVE  Has("wait")'
<1>0. todo \in Seq(StepType)
  BY DEF TypeOK
<1>1. ASSUME Idle, seat' = seat PROVE FALSE
  BY <1>1, IdleHas
<1>2. ASSUME UNCHANGED <<todo, seat>> PROVE Has("wait")'
  BY <1>2 DEF Has
<1>3. ASSUME NEW op, op # "wait", NextStep(op), seat' = seat PROVE Has("wait")'
  BY <1>0, <1>3, Advance
<1>4. ASSUME NEW u \in Users \cup {None}, ChangeSeat(u) PROVE Has("wait")'
  <2>1. todo' = SeatSteps(u)
    BY <1>4 DEF ChangeSeat
  <2> QED
    BY <2>1, SeatList, Started DEF Ops
<1>5. ASSUME Request PROVE Has("wait")'
  <2>1. \A c \in Conns : (Connect(c) \/ Subscribe(c) \/ Unsubscribe(c) \/ Quarantine(c) \/ Disconnect(c))
          => Idle /\ seat' = seat
    BY DEF Connect, Subscribe, Unsubscribe, Quarantine, Disconnect
  <2>2. FencePermissions \/ Panic \/ Recreate \/ Grab => Idle /\ seat' = seat
    BY DEF FencePermissions, Panic, Recreate, Grab, main
  <2>3. \A c \in Conns, key \in Keys : SendNested(c, key) => Idle /\ seat' = seat
    BY DEF SendNested, main
  <2>4. \A c \in Conns, key \in Keys, press \in BOOLEAN : Send(c, key, press) => Idle /\ seat' = seat
    BY DEF Send, main
  <2>5. \A key \in Keys : Physical(key) => Idle /\ seat' = seat
    BY DEF Physical, main
  <2> QED
    BY <1>1, <1>4, <1>5, <2>1, <2>2, <2>3, <2>4, <2>5 DEF Request
<1>6. ASSUME MainStep PROVE Has("wait")'
  <2>1. SyncOwners \/ UpdateGrab \/ ReleaseClass \/ ReleaseHook \/ ReleaseGeneric \/ Flush \/ DiscardStale
          \/ PushReleaseAll
          => seat' = seat /\ \E op : op # "wait" /\ NextStep(op)
    BY DEF SyncOwners, UpdateGrab, ReleaseClass, ReleaseHook, ReleaseGeneric, Flush, DiscardStale,
           PushReleaseAll
  <2>2. ~WaitForInflight
    BY DEF WaitForInflight
  <2>3. PushMarker => FALSE
    <3> SUFFICES ASSUME PushMarker PROVE FALSE
      OBVIOUS
    <3>1. todo # <<>> /\ Head(todo).op = "marker" /\ seat' = seat
      BY DEF PushMarker
    <3> QED
      BY <1>0, <3>1, Alone DEF LastOps
  <2>4. TakeSeat => FALSE
    <3> SUFFICES ASSUME TakeSeat PROVE FALSE
      OBVIOUS
    <3>1. todo # <<>> /\ Head(todo).op = "seat"
      BY DEF TakeSeat
    <3>2. Has("seat") /\ ~Has("wait")
      BY <1>0, <3>1, Alone DEF LastOps
    <3> QED
      BY <3>2 DEF TodoOrder
  <2> QED
    BY <1>3, <1>6, <2>1, <2>2, <2>3, <2>4 DEF MainStep
<1>7. FailOpen \/ Ingress => Idle /\ seat' = seat
  BY DEF FailOpen, Ingress
<1>8. LaneStep => UNCHANGED <<todo, seat>>
  BY DEF LaneStep, Decide, EmitModify, EmitEgress, EmitCleanup, RunNested, FinishNested, main
<1>9. SequencerStep => UNCHANGED <<todo, seat>>
  BY DEF SequencerStep, Pop, BeginWrite, EndWrite, main
<1> QED
  BY <1>1, <1>2, <1>5, <1>6, <1>7, <1>8, <1>9 DEF Next

\* What is being written is the seat's.
LEMMA WritesKeep ==
  ASSUME TypeOK, PoppedOK, TodoOrder, TargetsPast, WritesOwn, Next
  PROVE  WritesOwn'
<1> SUFFICES ASSUME seq'.stage = "writing", seq'.action.type = "synth"
             PROVE  IF seat' = None THEN Has("wait")' ELSE User[seq'.action.owner.conn] = seat'
  BY DEF WritesOwn
<1>1. CASE seq' = seq
  <2>1. IF seat = None THEN Has("wait") ELSE User[seq.action.owner.conn] = seat
    BY <1>1 DEF WritesOwn
  <2>2. CASE seat' = None
    BY <1>1, <2>1, <2>2, SeatWaits
  <2>3. CASE seat' # None
    <3>1. seat' = seat \/ Seating
      BY <2>3, Kinds DEF Admitting, Fences, EndsNow, DiscardStale, SequencerStep, Pop, BeginWrite,
                         EndWrite, main
    <3>2. ~Seating \/ FALSE
      BY <2>1 DEF Seating
    <3> QED
      BY <1>1, <2>1, <2>3, <3>1, <3>2
  <2> QED
    BY <2>2, <2>3
<1>2. CASE seq' # seq
  <2>1. SequencerStep
    BY <1>2, Kinds DEF Admitting, Fences, Seating, EndsNow, DiscardStale
  <2>2. BeginWrite
    BY <2>1 DEF SequencerStep, Pop, EndWrite
  <2>3. seq \in SeqType /\ seat' = seat /\ ~Stale(seq.action.gen)
    BY <2>2 DEF BeginWrite, TypeOK, SeqType, main
  <2>4. seq'.action = seq.action
    BY <2>2, <2>3 DEF BeginWrite, SeqType
  <2>5. seq.action \in Queued(gen, seat)
    BY <2>2 DEF BeginWrite, PoppedOK
  <2>6. seq.action.gen = gen /\ seq.action.owner.conn \in Conns
    BY <2>3, <2>4, <2>5 DEF Queued, Stale, Safety, Wipes
  <2>7. User[seq.action.owner.conn] = seat
    BY <2>4, <2>5, <2>6 DEF Queued, Current
  <2>8. User[seq.action.owner.conn] # None
    BY <2>6, IdAssumption
  <2> QED
    BY <2>3, <2>4, <2>7, <2>8
<1> QED
  BY <1>1, <1>2

\* Nobody else holds a key, as admitted, or RELEASE_ALL is behind it.
LEMMA HoldsKeep ==
  ASSUME TypeOK, PoppedOK, TodoOrder, TargetsPast, WritesOwn, HeldConns, HoldsOwn, Next,
         todo' \in Seq(StepType)
  PROVE  HoldsOwn' /\ HeldConns'
<1>1. (Fencing <=> Has("all")) /\ (Fencing' <=> Has("all")')
  BY FencingHas DEF TypeOK
<1>2. CASE Admitting
  <2>1. /\ UNCHANGED <<gen, seat, seq, applied>> /\ Admitted /\ (refused => refused')
        /\ Has("all") => Has("all")' \/ Wiped("all")
    BY <1>2 DEF Admitting
  <2>2. \A h \in enqueued'.held : h \in enqueued.held \/ (h[1].conn \in Conns /\ User[h[1].conn] = seat)
    BY <2>1, AdmittedHolds
  <2>3. HeldConns'
    BY <2>1, <2>2 DEF HeldConns
  <2>4. ASSUME ~refused', ~Between'
        PROVE  /\ \A h \in enqueued'.held : User[h[1].conn] = seat'
               /\ \A h \in applied'.held : User[h[1].conn] = seat' \/ AllPending'
    <3>1. AllPending => AllPending'
      BY <2>1, AdmittedItems, AllPendingIs
    <3>2. CASE ~Between
      BY <2>1, <2>2, <2>4, <3>1, <3>2 DEF HoldsOwn
    <3>3. CASE Between
      <4>1. Wiped("all")
        BY <1>1, <2>1, <2>4, <3>3 DEF Between
      <4>2. PICK a : Admits(a) /\ a.type = "all" /\ enqueued'.held = {}
        BY <2>4, <4>1 DEF Wiped
      <4>3. HasType(queue', "all")
        BY <2>1, <4>2, AdmitsFresh DEF HasType
      <4> QED
        BY <4>2, <4>3, AllPendingIs
    <3> QED
      BY <3>2, <3>3
  <2> QED
    BY <2>3, <2>4 DEF HoldsOwn
<1>3. CASE Fences
  <2>1. UNCHANGED <<queue, enqueued, seq, applied, refused>> /\ seat' \in {seat, None} /\ Fencing'
    BY <1>1, <1>3 DEF Fences, ledger
  <2>2. AllPending' <=> AllPending
    BY <2>1 DEF AllPending
  <2>3. ASSUME ~refused', ~Between' PROVE seat' = seat /\ ~Between
    BY <2>1, <2>3 DEF Between
  <2> QED
    BY <2>1, <2>2, <2>3 DEF HoldsOwn, HeldConns
<1>4. CASE Seating
  <2>1. UNCHANGED <<queue, enqueued, seq, applied, refused>> /\ seat = None /\ ~Between
    BY <1>1, <1>4 DEF Seating, ledger, Between
  <2>2. AllPending' <=> AllPending
    BY <2>1 DEF AllPending
  <2>3. \A c \in Conns : User[c] # None
    BY IdAssumption
  <2>4. ~refused => /\ enqueued.held = {}
                    /\ \A h \in applied.held : AllPending
    BY <2>1, <2>3 DEF HoldsOwn, HeldConns
  <2> QED
    BY <2>1, <2>2, <2>4 DEF HoldsOwn, HeldConns
<1>5. CASE EndsNow
  BY <1>5 DEF EndsNow, HoldsOwn, HeldConns
<1>6. CASE DiscardStale
  <2>1. /\ UNCHANGED <<enqueued, seq, applied, gen, seat, refused>>
        /\ Items(queue') = Items(queue) \cap FreshActs(gen)
    BY <1>6, DiscardDoes
  <2>2. Has("all")' <=> Has("all")
    <3>1. NextStep("discard") /\ todo \in Seq(StepType)
      BY <1>6 DEF DiscardStale, TypeOK
    <3> QED
      BY <3>1, Advance
  <2>3. HasType(queue, "all") => HasType(queue', "all")
    <3> SUFFICES ASSUME NEW x \in Items(queue), x.type = "all" PROVE x \in Items(queue')
      BY DEF HasType
    <3>1. x \in Plain
      BY QueuedPlain DEF Items, TypeOK
    <3>2. x \in FreshActs(gen)
      BY <3>1 DEF Plain, FreshActs, Safety, Wipes
    <3> QED
      BY <2>1, <3>2
  <2>4. AllPending => AllPending'
    BY <2>1, <2>3, AllPendingIs
  <2>5. Between' <=> Between
    BY <1>1, <2>1, <2>2 DEF Between
  <2> QED
    BY <2>1, <2>4, <2>5 DEF HoldsOwn, HeldConns
<1>7. CASE Pop
  <2>1. /\ queue = <<Head(queue)>> \o queue' /\ Head(queue) \in Queued(gen, seat)
        /\ queue' \in Seq(Queued(gen, seat))
        /\ seq' = [stage |-> "popped", action |-> Head(queue)] /\ seq.stage = "idle"
        /\ UNCHANGED <<enqueued, applied, gen, seat, refused>>
    BY <1>7, PopDoes
  <2>2. seq'.stage = "popped" /\ seq'.action = Head(queue)
    BY <2>1
  <2>3. Items(queue) = {Head(queue)} \cup Items(queue')
    BY <2>1, ItemsHead
  <2>4. AllPending => AllPending'
    BY <2>1, <2>2, <2>3, AllPendingIs DEF HasType
  <2>5. Between' <=> Between
    BY <1>7 DEF Between, Fencing, Pop, main
  <2> QED
    BY <2>1, <2>4, <2>5 DEF HoldsOwn, HeldConns
<1>8. CASE BeginWrite
  <2>1. UNCHANGED <<queue, enqueued, applied, gen, seat, refused, todo>> /\ seq.stage = "popped"
    BY <1>8 DEF BeginWrite, ledger, main
  <2>2. AllPending => AllPending'
    <3>1. CASE Stale(seq.action.gen)
      <4>1. seq.action \in Queued(gen, seat)
        BY <2>1 DEF PoppedOK
      <4>2. seq.action.type # "all"
        BY <3>1, <4>1 DEF Queued, Safety, Wipes, Stale
      <4> QED
        BY <2>1, <4>2, AllPendingIs
    <3>2. CASE ~Stale(seq.action.gen)
      <4>1. seq' = [seq EXCEPT !.stage = "writing"] /\ seq \in SeqType
        BY <1>8, <3>2 DEF BeginWrite, TypeOK, SeqType
      <4>2. seq'.stage = "writing" /\ seq'.action = seq.action
        BY <4>1 DEF SeqType
      <4> QED
        BY <2>1, <4>2, AllPendingIs
    <3> QED
      BY <3>1, <3>2
  <2>3. Between' <=> Between
    BY <2>1 DEF Between, Fencing
  <2> QED
    BY <2>1, <2>2, <2>3 DEF HoldsOwn, HeldConns
<1>9. CASE EndWrite
  <2>1. UNCHANGED <<queue, enqueued, gen, seat, refused, todo>> /\ seq.stage = "writing"
    BY <1>9 DEF EndWrite, ledger, main
  <2>2. /\ \A h \in applied'.held :
              \/ h \in applied.held
              \/ seq.action.type = "synth" /\ h[1] = seq.action.owner /\ h[1].conn \in Conns
        /\ seq.action.type = "all" => applied'.held = {}
    BY <1>9, WrittenHolds
  <2>3. HeldConns'
    BY <2>1, <2>2 DEF HeldConns
  <2>4. ASSUME ~refused', ~Between'
        PROVE  /\ \A h \in enqueued'.held : User[h[1].conn] = seat'
               /\ \A h \in applied'.held : User[h[1].conn] = seat' \/ AllPending'
    <3>1. ~refused /\ ~Between
      BY <2>1, <2>4 DEF Between, Fencing
    <3>2. seq.action.type = "synth" => User[seq.action.owner.conn] = seat
      <4>1. seq.action.type = "synth" /\ seat = None => Has("wait")
        BY <2>1 DEF WritesOwn
      <4>2. Has("wait") => Fencing
        BY <1>1 DEF TodoOrder
      <4> QED
        BY <2>1, <3>1, <4>1, <4>2 DEF WritesOwn, Between
    <3>3. AllPending /\ seq.action.type # "all" => AllPending'
      BY <2>1, AllPendingIs
    <3> QED
      BY <2>1, <2>2, <3>1, <3>2, <3>3 DEF HoldsOwn
  <2> QED
    BY <2>3, <2>4 DEF HoldsOwn
<1> QED
  BY <1>2, <1>3, <1>4, <1>5, <1>6, <1>7, <1>8, <1>9, Kinds DEF SequencerStep

-----------------------------------------------------------------------------
(* Types of the rest of the state                                          *)

\* The main thread's own state.
LEMMA MainTypes ==
  ASSUME TypeOK, TodoOrder, Next
  PROVE  /\ clients' \subseteq Conns /\ unused' \subseteq Conns /\ hooks' \subseteq clients'
         /\ clients' \cap unused' = {} /\ overtaken' \subseteq Conns
         /\ owned' \in BOOLEAN /\ grabbed' \in BOOLEAN /\ failOpen' \in BOOLEAN /\ refused' \in BOOLEAN
         /\ owners' \in [Conns -> {"gone", "open", "hooked"}] /\ down' \subseteq Keys
<1> DEFINE P == /\ clients' \subseteq Conns /\ unused' \subseteq Conns /\ hooks' \subseteq clients'
                /\ clients' \cap unused' = {}
                /\ owners' \in [Conns -> {"gone", "open", "hooked"}]
           Q == /\ owned' \in BOOLEAN /\ grabbed' \in BOOLEAN /\ failOpen' \in BOOLEAN
                /\ refused' \in BOOLEAN
           R == overtaken' \subseteq Conns /\ down' \subseteq Keys
<1>0. /\ clients \subseteq Conns /\ unused \subseteq Conns /\ hooks \subseteq clients
      /\ clients \cap unused = {} /\ overtaken \subseteq Conns
      /\ owned \in BOOLEAN /\ grabbed \in BOOLEAN /\ failOpen \in BOOLEAN /\ refused \in BOOLEAN
      /\ owners \in [Conns -> {"gone", "open", "hooked"}] /\ down \subseteq Keys
      /\ todo \in Seq(StepType)
  BY DEF TypeOK
<1>1. P
  <2>1. UNCHANGED <<clients, unused, hooks, owners>> => P
    BY <1>0
  <2>2. ASSUME NEW c \in Conns, Connect(c) \/ Subscribe(c) \/ Unsubscribe(c) \/ Quarantine(c) \/ Disconnect(c)
        PROVE  P
    BY <1>0, <2>2 DEF Connect, Subscribe, Unsubscribe, Quarantine, Disconnect
  <2>3. FailOpen => P
    BY <1>0 DEF FailOpen
  <2>4. SyncOwners => P
    BY <1>0 DEF SyncOwners
  <2>5. \A u \in Users \cup {None} : ChangeSeat(u) => UNCHANGED <<clients, unused, hooks, owners>>
    BY DEF ChangeSeat
  <2>6. FencePermissions \/ Panic \/ Recreate \/ Grab => UNCHANGED <<clients, unused, hooks, owners>>
    BY DEF FencePermissions, Panic, Recreate, Grab, main
  <2>7. /\ \A c \in Conns, key \in Keys : SendNested(c, key) => UNCHANGED <<clients, unused, hooks, owners>>
        /\ \A key \in Keys : Physical(key) => UNCHANGED <<clients, unused, hooks, owners>>
        /\ \A c \in Conns, key \in Keys, press \in BOOLEAN :
             Send(c, key, press) => UNCHANGED <<clients, unused, hooks, owners>>
    BY DEF SendNested, Physical, Send, main
  <2>8. UpdateGrab \/ ReleaseClass \/ ReleaseHook \/ PushMarker \/ ReleaseGeneric \/ Flush \/ WaitForInflight
          \/ DiscardStale \/ PushReleaseAll \/ TakeSeat => UNCHANGED <<clients, unused, hooks, owners>>
    BY DEF UpdateGrab, ReleaseClass, ReleaseHook, PushMarker, ReleaseGeneric, Flush, WaitForInflight,
           DiscardStale, PushReleaseAll, TakeSeat
  <2>9. Ingress \/ LaneStep => UNCHANGED <<clients, unused, hooks, owners>>
    BY DEF Ingress, LaneStep, Decide, EmitModify, EmitEgress, EmitCleanup, RunNested, FinishNested, main
  <2>10. SequencerStep => UNCHANGED <<clients, unused, hooks, owners>>
    BY DEF SequencerStep, Pop, BeginWrite, EndWrite, main
  <2> HIDE DEF P
  <2>11. Request => P
    BY <2>1, <2>2, <2>5, <2>6, <2>7 DEF Request
  <2>12. MainStep => P
    BY <2>1, <2>4, <2>8 DEF MainStep
  <2> QED
    BY <2>1, <2>3, <2>9, <2>10, <2>11, <2>12 DEF Next
<1>2. Q
  <2>1. UNCHANGED <<owned, grabbed, failOpen, refused>> => Q
    BY <1>0
  <2>2. ASSUME NEW c \in Conns, Connect(c) \/ Subscribe(c) \/ Unsubscribe(c) \/ Quarantine(c) \/ Disconnect(c)
        PROVE  UNCHANGED <<owned, grabbed, failOpen, refused>>
    BY <2>2 DEF Connect, Subscribe, Unsubscribe, Quarantine, Disconnect
  <2>3. FailOpen \/ Panic \/ Grab => Q
    BY <1>0 DEF FailOpen, Panic, Grab
  <2>4. UpdateGrab \/ ReleaseClass \/ ReleaseGeneric \/ PushReleaseAll => Q
    BY <1>0 DEF UpdateGrab, ReleaseClass, ReleaseGeneric, PushReleaseAll
  <2>5. \A u \in Users \cup {None} : ChangeSeat(u) => UNCHANGED <<owned, grabbed, failOpen, refused>>
    BY DEF ChangeSeat
  <2>6. FencePermissions \/ Recreate => UNCHANGED <<owned, grabbed, failOpen, refused>>
    BY DEF FencePermissions, Recreate, main
  <2>7. /\ \A c \in Conns, key \in Keys : SendNested(c, key) => UNCHANGED <<owned, grabbed, failOpen, refused>>
        /\ \A key \in Keys : Physical(key) => UNCHANGED <<owned, grabbed, failOpen, refused>>
        /\ \A c \in Conns, key \in Keys, press \in BOOLEAN :
             Send(c, key, press) => UNCHANGED <<owned, grabbed, failOpen, refused>>
    BY DEF SendNested, Physical, Send, main
  <2>8. SyncOwners \/ Flush \/ WaitForInflight \/ DiscardStale \/ TakeSeat
          => UNCHANGED <<owned, grabbed, failOpen, refused>>
    BY DEF SyncOwners, Flush, WaitForInflight, DiscardStale, TakeSeat
  <2>9. \A c, hook : ReleaseOutput(c, hook) => failOpen' \in BOOLEAN /\ refused' \in BOOLEAN
    BY <1>0 DEF ReleaseOutput
  <2>10. ReleaseHook \/ PushMarker \/ Ingress \/ FinishNested => Q
    BY <1>0, <2>9 DEF ReleaseHook, PushMarker, Ingress, FinishNested
  <2>11. Decide \/ EmitModify \/ RunNested => UNCHANGED <<owned, grabbed, failOpen, refused>>
    BY DEF Decide, EmitModify, RunNested, main
  <2>12. EmitEgress \/ EmitCleanup => Q
    BY <1>0 DEF EmitEgress, EmitCleanup
  <2>13. SequencerStep => UNCHANGED <<owned, grabbed, failOpen, refused>>
    BY DEF SequencerStep, Pop, BeginWrite, EndWrite, main
  <2> HIDE DEF Q
  <2>14. Request => Q
    BY <2>1, <2>2, <2>3, <2>5, <2>6, <2>7 DEF Request
  <2>15. MainStep => Q
    BY <2>1, <2>4, <2>8, <2>10 DEF MainStep
  <2>16. LaneStep => Q
    BY <2>1, <2>10, <2>11, <2>12 DEF LaneStep
  <2> QED
    BY <2>1, <2>3, <2>10, <2>13, <2>14, <2>15, <2>16 DEF Next
<1>3. R
  <2>1. UNCHANGED <<overtaken, down>> => R
    BY <1>0
  <2>2. ASSUME NEW c \in Conns, Connect(c) \/ Subscribe(c) \/ Unsubscribe(c) \/ Quarantine(c) \/ Disconnect(c)
        PROVE  UNCHANGED <<overtaken, down>>
    BY <2>2 DEF Connect, Subscribe, Unsubscribe, Quarantine, Disconnect
  <2>3. \A u \in Users \cup {None} : ChangeSeat(u) => UNCHANGED <<overtaken, down>>
    BY DEF ChangeSeat
  <2>4. FencePermissions \/ Panic \/ Recreate \/ Grab => UNCHANGED <<overtaken, down>>
    BY DEF FencePermissions, Panic, Recreate, Grab
  <2>5. /\ \A c \in Conns, key \in Keys : SendNested(c, key) => UNCHANGED <<overtaken, down>>
        /\ \A c \in Conns, key \in Keys, press \in BOOLEAN :
             Send(c, key, press) => UNCHANGED <<overtaken, down>>
    BY DEF SendNested, Send
  <2>6. ASSUME NEW key \in Keys, Physical(key) PROVE R
    BY <1>0, <2>6 DEF Physical
  <2>7. PushMarker => R
    <3> SUFFICES ASSUME PushMarker PROVE R
      OBVIOUS
    <3>1. Head(todo).conn \in Conns
      BY MarkerDoes
    <3>2. overtaken' \in {overtaken, overtaken \cup {Head(todo).conn}} /\ down' = down
      BY DEF PushMarker
    <3> QED
      BY <1>0, <3>1, <3>2
  <2>8. SyncOwners \/ UpdateGrab \/ ReleaseClass \/ ReleaseHook \/ ReleaseGeneric \/ Flush \/ WaitForInflight
          \/ DiscardStale \/ PushReleaseAll \/ TakeSeat => UNCHANGED <<overtaken, down>>
    BY DEF SyncOwners, UpdateGrab, ReleaseClass, ReleaseHook, ReleaseGeneric, Flush, WaitForInflight,
           DiscardStale, PushReleaseAll, TakeSeat
  <2>9. FailOpen \/ Ingress \/ LaneStep => UNCHANGED <<overtaken, down>>
    BY DEF FailOpen, Ingress, LaneStep, Decide, EmitModify, EmitEgress, EmitCleanup, RunNested, FinishNested
  <2>10. SequencerStep => UNCHANGED <<overtaken, down>>
    BY DEF SequencerStep, Pop, BeginWrite, EndWrite
  <2> HIDE DEF R
  <2>11. Request => R
    BY <2>1, <2>2, <2>3, <2>4, <2>5, <2>6 DEF Request
  <2>12. MainStep => R
    BY <2>1, <2>7, <2>8 DEF MainStep
  <2> QED
    BY <2>1, <2>9, <2>10, <2>11, <2>12 DEF Next
<1> QED
  BY <1>1, <1>2, <1>3

\* The seat and the generation.
LEMMA SeatTypes ==
  ASSUME TypeOK, TodoOrder, TargetsPast, Next
  PROVE  /\ seat' \in Users \cup {None} /\ gen' \in Nat \ {0}
         /\ \/ UNCHANGED <<seat, gen>>
            \/ gen' = gen + 1
            \/ gen' = gen /\ seat = None
<1>1. seat \in Users \cup {None} /\ gen \in Nat \ {0}
  BY DEF TypeOK
<1>2. SequencerStep => UNCHANGED <<seat, gen>>
  BY DEF SequencerStep, Pop, BeginWrite, EndWrite, main
<1> QED
  BY <1>1, <1>2, Kinds DEF Admitting, Fences, Seating, EndsNow, DiscardStale

\* A sequence of one set is a sequence of a larger one.
LEMMA SeqMono ==
  ASSUME NEW S, NEW T, S \subseteq T
  PROVE  Seq(S) \subseteq Seq(T)
  OBVIOUS

\* What waits keeps its type when the seat or the generation changes.
LEMMA Carried ==
  ASSUME TypeOK, gen' = gen + 1 \/ (gen' = gen /\ (seat' = seat \/ seat = None))
  PROVE  /\ Sent(gen, seat) \subseteq Sent(gen', seat')
         /\ Events(gen, seat) \subseteq Events(gen', seat')
         /\ Nestings(gen, seat) \subseteq Nestings(gen', seat')
         /\ synthq \in Seq(Sent(gen', seat') \cup Markers)
         /\ lane \in Seq(Events(gen', seat'))
         /\ nested \in Nestings(gen', seat')
<1>1. gen \in Nat
  BY DEF TypeOK
<1>2. PICK w : w = seat'
  OBVIOUS
<1>3. /\ Sent(gen, seat) \subseteq Sent(gen', w) /\ Events(gen, seat) \subseteq Events(gen', w)
      /\ Nestings(gen, seat) \subseteq Nestings(gen', w)
  <2>1. CASE gen' = gen + 1
    BY <1>1, <2>1, Ended
  <2>2. CASE gen' = gen /\ seat' = seat
    BY <1>2, <2>2
  <2>3. CASE gen' = gen /\ seat = None
    BY <1>1, <2>3, Unowned
  <2> QED
    BY <2>1, <2>2, <2>3
<1>4. Sent(gen, seat) \cup Markers \subseteq Sent(gen', w) \cup Markers
  BY <1>3
<1>5. /\ Seq(Sent(gen, seat) \cup Markers) \subseteq Seq(Sent(gen', w) \cup Markers)
      /\ Seq(Events(gen, seat)) \subseteq Seq(Events(gen', w))
  BY <1>3, <1>4, SeqMono
<1>6. /\ synthq \in Seq(Sent(gen, seat) \cup Markers) /\ lane \in Seq(Events(gen, seat))
      /\ nested \in Nestings(gen, seat)
  BY DEF TypeOK
<1> QED
  BY <1>2, <1>3, <1>5, <1>6

\* The lane's events change their outcome, not what they are about.
Relabelled ==
  /\ lane' \in Seq(Events(gen, seat)) /\ Len(lane') = Len(lane)
  /\ \A i \in 1..Len(lane) : lane'[i].origin = lane[i].origin /\ lane'[i].action = lane[i].action

Staged(e, s) == [e EXCEPT !.stage = s]
Flushed(e) == [e EXCEPT !.flushed = TRUE]
Modified(e, c, p) == [e EXCEPT !.stage = "modify", !.mod = c, !.press = p]

\* Event f is about what e is about.
Alike(e, f, g, u) == f \in Events(g, u) /\ f.origin = e.origin /\ f.action = e.action

\* An event restaged, flushed or modified is about the same action.
LEMMA EventShape ==
  ASSUME NEW g, NEW u, NEW e \in Events(g, u)
  PROVE  /\ \A s \in {"call", "pass", "block"} : Alike(e, Staged(e, s), g, u)
         /\ Alike(e, Flushed(e), g, u)
         /\ \A c \in e.subs, p \in BOOLEAN : Alike(e, Modified(e, c, p), g, u)
<1> DEFINE E == [origin : {"physical", "synthetic"}, action : Actions, subs : SUBSET Conns,
                 stage : {"call", "pass", "block", "modify"}, flushed : BOOLEAN,
                 mod : Conns \cup {None}, press : BOOLEAN]
<1>1. /\ e \in E
      /\ e.action \in (IF e.origin = "physical" THEN Packets(g) ELSE Sent(g, u))
      /\ e.stage = "modify" => e.mod \in e.subs
      /\ e.action.gen = g => \A c \in e.subs : User[c] = u
  BY DEF Events
<1>2. ASSUME NEW f \in E, f.origin = e.origin, f.action = e.action, f.subs = e.subs,
             f.stage = "modify" => f.mod \in f.subs
      PROVE  f \in Events(g, u)
  BY <1>1, <1>2 DEF Events
<1>3. ASSUME NEW s \in {"call", "pass", "block"} PROVE Alike(e, Staged(e, s), g, u)
  <2>1. PICK f : f = [e EXCEPT !.stage = s]
    OBVIOUS
  <2>2. f \in E /\ f.origin = e.origin /\ f.action = e.action /\ f.subs = e.subs /\ f.stage # "modify"
    BY <1>1, <2>1
  <2> QED
    BY <1>2, <2>1, <2>2 DEF Alike, Staged
<1>4. Alike(e, Flushed(e), g, u)
  <2>1. PICK f : f = [e EXCEPT !.flushed = TRUE]
    OBVIOUS
  <2>2. /\ f \in E /\ f.origin = e.origin /\ f.action = e.action /\ f.subs = e.subs /\ f.stage = e.stage
        /\ f.mod = e.mod
    BY <1>1, <2>1
  <2> QED
    BY <1>1, <1>2, <2>1, <2>2 DEF Alike, Flushed
<1>5. ASSUME NEW c \in e.subs, NEW p \in BOOLEAN PROVE Alike(e, Modified(e, c, p), g, u)
  <2>1. PICK f : f = [e EXCEPT !.stage = "modify", !.mod = c, !.press = p]
    OBVIOUS
  <2>2. f \in E /\ f.origin = e.origin /\ f.action = e.action /\ f.subs = e.subs /\ f.mod = c
    BY <1>1, <2>1
  <2> QED
    BY <1>2, <2>1, <2>2 DEF Alike, Modified
<1> QED
  BY <1>3, <1>4, <1>5

\* The lane's head may change what is decided about it, not what it is.
LEMMA HeadRelabelled ==
  ASSUME TypeOK, lane # <<>>, NEW f \in Events(gen, seat),
         f.origin = lane[1].origin, f.action = lane[1].action, lane' = [lane EXCEPT ![1] = f]
  PROVE  Relabelled
<1>1. lane \in Seq(Events(gen, seat))
  BY DEF TypeOK
<1>2. /\ lane' \in Seq(Events(gen, seat)) /\ Len(lane') = Len(lane)
      /\ \A i \in 1..Len(lane) : lane'[i] = IF i = 1 THEN f ELSE lane[i]
  BY <1>1
<1> QED
  BY <1>2 DEF Relabelled

\* Restaging the head keeps the lane's events.
LEMMA RestageDoes ==
  ASSUME TypeOK, lane # <<>>, NEW s \in {"call", "pass", "block"}, Restage(s)
  PROVE  Relabelled
<1>1. lane[1] \in Events(gen, seat)
  BY HeadEvent
<1>2. PICK f : f = [lane[1] EXCEPT !.stage = s]
  OBVIOUS
<1>3. f \in Events(gen, seat) /\ f.origin = lane[1].origin /\ f.action = lane[1].action
  <2>1. Alike(lane[1], Staged(lane[1], s), gen, seat)
    BY <1>1, EventShape, Zenon
  <2> QED
    BY <1>2, <2>1 DEF Alike, Staged
<1>4. lane' = [lane EXCEPT ![1] = f]
  BY <1>2 DEF Restage
<1> QED
  BY <1>3, <1>4, HeadRelabelled

\* A decision keeps the lane's events and orphans the recursive transaction.
LEMMA DecideDoes ==
  ASSUME TypeOK, Decide
  PROVE  Relabelled /\ nested' = Orphaned(nested)
<1>1. lane # <<>> /\ lane[1] \in Events(gen, seat) /\ Head(lane) = lane[1] /\ nested' = Orphaned(nested)
  BY HeadEvent DEF Decide
<1>2. \/ \E s \in {"call", "pass", "block"} : Restage(s)
      \/ \E c \in lane[1].subs, p \in BOOLEAN :
           lane' = [lane EXCEPT ![1].stage = "modify", ![1].mod = c, ![1].press = p]
  BY <1>1 DEF Decide
<1>3. CASE \E s \in {"call", "pass", "block"} : Restage(s)
  BY <1>1, <1>3, RestageDoes
<1>4. ASSUME NEW c \in lane[1].subs, NEW p \in BOOLEAN,
             lane' = [lane EXCEPT ![1].stage = "modify", ![1].mod = c, ![1].press = p]
      PROVE  Relabelled
  <2>1. PICK f : f = [lane[1] EXCEPT !.stage = "modify", !.mod = c, !.press = p]
    OBVIOUS
  <2>2. f \in Events(gen, seat) /\ f.origin = lane[1].origin /\ f.action = lane[1].action
    <3>1. Alike(lane[1], Modified(lane[1], c, p), gen, seat)
      BY <1>1, EventShape, Zenon
    <3> QED
      BY <2>1, <3>1 DEF Alike, Modified
  <2>3. lane' = [lane EXCEPT ![1] = f]
    <3>1. lane \in Seq(Events(gen, seat)) /\ 1 \in DOMAIN lane
      BY <1>1 DEF TypeOK
    <3> QED
      BY <1>4, <2>1, <3>1
  <2> QED
    BY <1>1, <2>2, <2>3, HeadRelabelled
<1> QED
  BY <1>1, <1>2, <1>3, <1>4

\* Of the synthetic queue, a flush keeps the markers.
LEMMA KeptIs ==
  ASSUME NEW g, NEW u, NEW s \in Seq(Sent(g, u) \cup Markers)
  PROVE  Kept(s) = Filtered(s, Markers)
<1>1. \A x \in Sent(g, u) \cup Markers : x.type = "marker" <=> x \in Markers
  <2>1. ASSUME NEW x \in Markers PROVE x.type = "marker"
    <3>1. PICK c \in Conns : x = Marker(c)
      BY DEF Markers
    <3> QED
      BY <3>1, MarkerShape
  <2>2. \A x \in Sent(g, u) : x.type = "synth"
    BY DEF Sent
  <2> QED
    BY <2>1, <2>2
<1>2. {i \in DOMAIN s : s[i].type = "marker"} = {i \in DOMAIN s : s[i] \in Markers}
  BY <1>1
<1> QED
  BY <1>2 DEF Kept, Filtered

\* A flush keeps the lane's events and the markers.
LEMMA FlushDoes ==
  ASSUME TypeOK, Flush
  PROVE  /\ Relabelled /\ nested' = Orphaned(nested)
         /\ synthq' \in Seq(Markers) /\ Items(synthq') = Items(synthq) \cap Markers
<1>1. /\ lane' = [i \in DOMAIN lane |-> [lane[i] EXCEPT !.flushed = TRUE]]
      /\ nested' = Orphaned(nested) /\ synthq' = Kept(synthq)
  BY DEF Flush
<1>2. lane \in Seq(Events(gen, seat)) /\ synthq \in Seq(Sent(gen, seat) \cup Markers)
  BY DEF TypeOK
<1>3. \A i \in 1..Len(lane) : lane[i] \in Events(gen, seat)
  BY <1>2
<1>4. \A i \in 1..Len(lane) :
        /\ [lane[i] EXCEPT !.flushed = TRUE] \in Events(gen, seat)
        /\ [lane[i] EXCEPT !.flushed = TRUE].origin = lane[i].origin
        /\ [lane[i] EXCEPT !.flushed = TRUE].action = lane[i].action
  <2> SUFFICES ASSUME NEW i \in 1..Len(lane)
               PROVE  /\ [lane[i] EXCEPT !.flushed = TRUE] \in Events(gen, seat)
                      /\ [lane[i] EXCEPT !.flushed = TRUE].origin = lane[i].origin
                      /\ [lane[i] EXCEPT !.flushed = TRUE].action = lane[i].action
    OBVIOUS
  <2>1. Alike(lane[i], Flushed(lane[i]), gen, seat)
    BY <1>3, EventShape, Zenon
  <2> QED
    BY <2>1 DEF Alike, Flushed
<1>5. PICK n \in Nat : n = Len(lane) /\ DOMAIN lane = 1..n
  BY <1>2
<1>6. lane' \in [1..n -> Events(gen, seat)]
  BY <1>1, <1>4, <1>5
<1>7. lane' \in Seq(Events(gen, seat)) /\ Len(lane') = n
  BY <1>6
<1>8. \A i \in 1..n : lane'[i] = [lane[i] EXCEPT !.flushed = TRUE]
  BY <1>1, <1>5
<1>9. Relabelled
  BY <1>4, <1>5, <1>7, <1>8 DEF Relabelled
<1>10. synthq' = Filtered(synthq, Markers)
  BY <1>1, <1>2, KeptIs
<1>11. PICK S : S = Sent(gen, seat) \cup Markers
  OBVIOUS
<1>12. synthq' \in Seq(S \cap Markers) /\ Items(synthq') = Items(synthq) \cap Markers
  BY <1>2, <1>10, <1>11, FilterType
<1>13. S \cap Markers = Markers
  BY <1>11
<1> QED
  BY <1>1, <1>9, <1>12, <1>13

\* An orphaned transaction is the same connection's, at the same stage.
LEMMA OrphanShape ==
  ASSUME NEW g, NEW u, NEW t \in Nestings(g, u)
  PROVE  /\ Orphaned(t) \in Nestings(g, u)
         /\ Orphaned(t).conn = t.conn /\ Orphaned(t).stage = t.stage
  BY DEF Nestings, Orphaned, NoNested

\* What reaches the lane.
LEMMA EventsIn ==
  ASSUME TypeOK, NEW a, NEW origin,
         \/ origin = "physical" /\ a \in Packets(gen)
         \/ origin = "synthetic" /\ a \in Sent(gen, seat)
  PROVE  /\ LaneEvent(origin, a, Active) \in Events(gen, seat)
         /\ LaneEvent(origin, a, Active).origin = origin /\ LaneEvent(origin, a, Active).action = a
<1>1. Active \subseteq Conns /\ \A c \in Active : User[c] = seat
  BY DEF Active, TypeOK
<1>2. a \in Actions
  BY DEF Packets, Sent
<1>3. PICK e : e = LaneEvent(origin, a, Active)
  OBVIOUS
<1>4. /\ e.origin = origin /\ e.action = a /\ e.subs = Active /\ e.stage = "call"
      /\ e \in [origin : {"physical", "synthetic"}, action : Actions, subs : SUBSET Conns,
                stage : {"call", "pass", "block", "modify"}, flushed : BOOLEAN,
                mod : Conns \cup {None}, press : BOOLEAN]
  BY <1>1, <1>2, <1>3 DEF LaneEvent
<1>5. e \in Events(gen, seat)
  BY <1>1, <1>4 DEF Events
<1> QED
  BY <1>3, <1>4, <1>5

\* The event queues.
LEMMA LaneTypes ==
  ASSUME TypeOK, TodoOrder, TargetsPast, Next
  PROVE  /\ lane' \in Seq(Events(gen', seat'))
         /\ synthq' \in Seq(Sent(gen', seat') \cup Markers)
         /\ nested' \in Nestings(gen', seat')
<1> DEFINE P == /\ lane' \in Seq(Events(gen', seat'))
                /\ synthq' \in Seq(Sent(gen', seat') \cup Markers)
                /\ nested' \in Nestings(gen', seat')
<1>1. /\ lane \in Seq(Events(gen', seat'))
      /\ synthq \in Seq(Sent(gen', seat') \cup Markers)
      /\ nested \in Nestings(gen', seat')
  BY SeatTypes, Carried
<1>2. UNCHANGED <<lane, synthq, nested>> => P
  BY <1>1
<1>3. ASSUME Request PROVE P
  <2>1. ASSUME NEW c \in Conns, Connect(c) \/ Subscribe(c) \/ Unsubscribe(c) \/ Quarantine(c) \/ Disconnect(c)
        PROVE  UNCHANGED <<lane, synthq, nested>>
    BY <2>1 DEF Connect, Subscribe, Unsubscribe, Quarantine, Disconnect
  <2>2. \A u \in Users \cup {None} : ChangeSeat(u) => UNCHANGED <<lane, synthq, nested>>
    BY DEF ChangeSeat
  <2>3. FencePermissions \/ Panic \/ Recreate \/ Grab => UNCHANGED <<lane, synthq, nested>>
    BY DEF FencePermissions, Panic, Recreate, Grab
  <2>4. ASSUME NEW c \in Conns, NEW key \in Keys, SendNested(c, key) PROVE P
    <3>1. /\ UNCHANGED <<lane, synthq, gen, seat>> /\ User[c] = seat
          /\ nested' = [conn |-> c, gen |-> gen, key |-> key, stage |-> "queued", orphan |-> FALSE]
      BY <2>4 DEF SendNested, main
    <3>2. gen \in 1..gen
      BY DEF TypeOK
    <3>3. nested' \in Nestings(gen, seat)
      BY <3>1, <3>2 DEF Nestings
    <3> QED
      BY <1>1, <3>1, <3>3
  <2>5. ASSUME NEW c \in Conns, NEW key \in Keys, NEW press \in BOOLEAN, Send(c, key, press) PROVE P
    <3>1. UNCHANGED <<lane, nested, gen, seat>>
      BY <2>5 DEF Send, main
    <3>2. PICK a \in Sent(gen, seat) : UNCHANGED synthq \/ synthq' = Append(synthq, a)
      BY <2>5, SendDoes
    <3> QED
      BY <1>1, <3>1, <3>2
  <2>6. ASSUME NEW key \in Keys, Physical(key) PROVE P
    <3>1. UNCHANGED <<synthq, nested, gen, seat>>
      BY <2>6 DEF Physical, main
    <3>2. PICK a \in Packets(gen) : lane' = Append(lane, LaneEvent("physical", a, Active)) \/ UNCHANGED lane
      BY <2>6, PhysicalDoes
    <3>3. LaneEvent("physical", a, Active) \in Events(gen, seat)
      BY EventsIn
    <3> QED
      BY <1>1, <3>1, <3>2, <3>3
  <2> HIDE DEF P
  <2> QED
    BY <1>2, <1>3, <2>1, <2>2, <2>3, <2>4, <2>5, <2>6 DEF Request
<1>4. ASSUME MainStep PROVE P
  <2>1. SyncOwners \/ UpdateGrab \/ ReleaseClass \/ ReleaseHook \/ ReleaseGeneric \/ WaitForInflight
          \/ DiscardStale \/ PushReleaseAll \/ TakeSeat => UNCHANGED <<lane, synthq, nested>>
    BY DEF SyncOwners, UpdateGrab, ReleaseClass, ReleaseHook, ReleaseGeneric, WaitForInflight, DiscardStale,
           PushReleaseAll, TakeSeat
  <2>2. ASSUME PushMarker PROVE P
    <3>1. UNCHANGED <<lane, nested, gen, seat>>
      BY <2>2 DEF PushMarker
    <3>2. Head(todo).conn \in Conns /\ (UNCHANGED synthq \/ synthq' = Append(synthq, Marker(Head(todo).conn)))
      BY <2>2, MarkerDoes
    <3>3. Marker(Head(todo).conn) \in Markers
      BY <3>2 DEF Markers
    <3> QED
      BY <1>1, <3>1, <3>2, <3>3
  <2>3. ASSUME Flush PROVE P
    <3>1. UNCHANGED <<gen, seat>>
      BY <2>3 DEF Flush
    <3>2. /\ lane' \in Seq(Events(gen, seat)) /\ nested' = Orphaned(nested) /\ synthq' \in Seq(Markers)
      BY <2>3, FlushDoes DEF Relabelled
    <3>3. Orphaned(nested) \in Nestings(gen, seat)
      BY OrphanShape DEF TypeOK
    <3>4. synthq' \in Seq(Sent(gen, seat) \cup Markers)
      BY <3>2, SeqMono
    <3> QED
      BY <3>1, <3>2, <3>3, <3>4
  <2> HIDE DEF P
  <2> QED
    BY <1>2, <1>4, <2>1, <2>2, <2>3 DEF MainStep
<1>5. ASSUME Ingress PROVE P
  <2>1. UNCHANGED <<nested, gen, seat>> /\ synthq # <<>> /\ synthq' = Tail(synthq)
    BY <1>5 DEF Ingress
  <2>2. synthq' \in Seq(Sent(gen, seat) \cup Markers)
    BY <1>1, <2>1
  <2>3. lane' \in Seq(Events(gen, seat))
    <3>1. CASE UNCHANGED lane
      BY <1>1, <2>1, <3>1
    <3>2. CASE Head(synthq) \in Sent(gen, seat) /\ lane' = Append(lane, LaneEvent("synthetic", Head(synthq), Active))
      <4>1. LaneEvent("synthetic", Head(synthq), Active) \in Events(gen, seat)
        BY <3>2, EventsIn
      <4> QED
        BY <1>1, <2>1, <3>2, <4>1
    <3> QED
      BY <1>5, <3>1, <3>2, IngressDoes
  <2> QED
    BY <1>1, <2>1, <2>2, <2>3
<1>6. ASSUME LaneStep PROVE P
  <2>0. UNCHANGED <<synthq, gen, seat>>
    BY <1>6 DEF LaneStep, Decide, EmitModify, EmitEgress, EmitCleanup, RunNested, FinishNested, main
  <2>1. ASSUME Decide PROVE P
    <3>1. lane' \in Seq(Events(gen, seat)) /\ nested' = Orphaned(nested)
      BY <2>1, DecideDoes DEF Relabelled
    <3>2. Orphaned(nested) \in Nestings(gen, seat)
      BY OrphanShape DEF TypeOK
    <3> QED
      BY <1>1, <2>0, <3>1, <3>2
  <2>2. ASSUME EmitModify \/ EmitEgress \/ EmitCleanup PROVE P
    <3>1. lane # <<>> /\ nested' = nested
      BY <2>2 DEF EmitModify, EmitEgress, EmitCleanup
    <3>2. lane' = Tail(lane) \/ (\E s \in {"call", "pass", "block"} : Restage(s))
      BY <2>2, ModifyDoes, EgressDoes, CleanupDoes
    <3>3. lane' \in Seq(Events(gen, seat))
      BY <1>1, <2>0, <3>1, <3>2, RestageDoes DEF Relabelled
    <3> QED
      BY <1>1, <2>0, <3>1, <3>3
  <2>3. ASSUME RunNested PROVE P
    <3>1. lane' = lane /\ nested' = [nested EXCEPT !.stage = "ran"] /\ nested.stage = "queued"
      BY <2>3 DEF RunNested
    <3>2. /\ nested \in [conn : Conns, gen : 1..gen, key : Keys, stage : {"queued", "ran"}, orphan : BOOLEAN]
          /\ nested.gen = gen => User[nested.conn] = seat
      BY <3>1, NestedShape
    <3>3. nested' \in Nestings(gen, seat)
      BY <3>1, <3>2 DEF Nestings
    <3> QED
      BY <1>1, <2>0, <3>1, <3>3
  <2>4. ASSUME FinishNested PROVE P
    <3>1. lane' = lane /\ nested' = NoNested
      BY <2>4 DEF FinishNested
    <3>2. nested' \in Nestings(gen, seat)
      BY <3>1 DEF Nestings
    <3> QED
      BY <1>1, <2>0, <3>1, <3>2
  <2> HIDE DEF P
  <2> QED
    BY <1>6, <2>1, <2>2, <2>3, <2>4 DEF LaneStep
<1>7. FailOpen \/ SequencerStep => UNCHANGED <<lane, synthq, nested>>
  BY DEF FailOpen, SequencerStep, Pop, BeginWrite, EndWrite
<1> HIDE DEF P
<1>8. P
  BY <1>2, <1>3, <1>4, <1>5, <1>6, <1>7 DEF Next
<1> QED
  BY <1>8 DEF P

\* Every step keeps the types.
LEMMA TypesKeep ==
  ASSUME TypeOK, PoppedOK, TodoOrder, TargetsPast, Next, todo' \in Seq(StepType)
  PROVE  TypeOK' /\ PoppedOK'
  BY MainTypes, SeatTypes, LedgerTypes, LaneTypes DEF TypeOK, SeqType

-----------------------------------------------------------------------------
(* Source keys                                                             *)

SourceInv == EventsEnd /\ TargetsPast /\ SourcesHold

\* The lane's events stay about what they were.
SameLane ==
  /\ Len(lane') = Len(lane)
  /\ \A i \in 1..Len(lane) : lane'[i].origin = lane[i].origin /\ lane'[i].action = lane[i].action

\* A fence ends with RELEASE_ALL, or is refused.
FenceKept == (refused => refused') /\ (Fencing /\ ~refused' => Fencing' \/ enqueued'.held = {})

\* A refusal is never forgotten, and a fence ends with nothing held.
LEMMA FenceKeeps ==
  ASSUME TypeOK, TodoOrder, TargetsPast, Next, todo' \in Seq(StepType)
  PROVE  FenceKept
<1>1. (Fencing <=> Has("all")) /\ (Fencing' <=> Has("all")')
  BY FencingHas DEF TypeOK
<1>2. CASE Admitting
  BY <1>1, <1>2 DEF Admitting, Wiped, FenceKept
<1>3. CASE Fences \/ Seating \/ EndsNow
  BY <1>1, <1>3 DEF Fences, Seating, EndsNow, FenceKept
<1>4. CASE DiscardStale
  <2>1. NextStep("discard") /\ todo \in Seq(StepType) /\ refused' = refused
    BY <1>4 DEF DiscardStale, TypeOK
  <2>2. Has("all")' <=> Has("all")
    BY <2>1, Advance
  <2> QED
    BY <1>1, <2>1, <2>2 DEF FenceKept
<1>5. CASE SequencerStep
  <2>1. todo' = todo /\ refused' = refused
    BY <1>5 DEF SequencerStep, Pop, BeginWrite, EndWrite, main
  <2> QED
    BY <2>1 DEF FenceKept, Fencing
<1> QED
  BY <1>2, <1>3, <1>4, <1>5, Kinds

\* Only what a physical event in the lane stands for adds a hold with a source.
SourceAdds ==
  /\ enqueued'.target = enqueued.target
  /\ \A h \in enqueued'.held : h[1].src # None =>
       \/ h \in enqueued.held
       \/ /\ h[1].target = enqueued.target /\ h[1].src \in Keys
          /\ \E i \in 1..Len(lane) : CurrentEvent(lane[i], h[1].src)

\* A step that keeps the lane and the keys down keeps the source keys' part.
LEMMA QuietSources ==
  ASSUME TypeOK, SourceInv, FenceKept, SameLane, UNCHANGED <<down, gen>>, grabbed => grabbed', SourceAdds
  PROVE  SourceInv'
<1>1. /\ EventsEnd /\ TargetsPast /\ SourcesHold /\ enqueued'.target = enqueued.target
      /\ Len(lane') = Len(lane) /\ gen' = gen /\ down' = down
  BY DEF SourceInv, SameLane, SourceAdds
<1>2. \A i \in 1..Len(lane) : lane'[i].origin = lane[i].origin /\ lane'[i].action = lane[i].action
  BY DEF SameLane
<1>3. \A i \in 1..Len(lane) : \A k : CurrentEvent(lane[i], k)' <=> CurrentEvent(lane[i], k)
  BY <1>1, <1>2 DEF CurrentEvent
<1>4. \A i, k : ReleaseFrom(k, i) => ReleaseFrom(k, i)'
  BY <1>1, <1>2 DEF ReleaseFrom, CurrentEvent
<1>5. EventsEnd'
  <2> SUFFICES ASSUME NEW i \in 1..Len(lane'), NEW k \in Keys, CurrentEvent(lane[i], k)'
               PROVE  grabbed' /\ (k \in down' \/ ReleaseFrom(k, i)')
    BY DEF EventsEnd
  <2>1. i \in 1..Len(lane) /\ CurrentEvent(lane[i], k)
    BY <1>1, <1>3
  <2> QED
    BY <1>1, <1>4, <2>1 DEF EventsEnd
<1>6. TargetsPast'
  BY <1>1, <1>2 DEF TargetsPast
<1>7. SourcesHold'
  <2> SUFFICES ASSUME NEW h \in enqueued'.held, h[1].src # None
               PROVE  /\ h[1].target = enqueued'.target
                      /\ ~refused' /\ ~Fencing' => h[1].src \in down' \/ ReleaseFrom(h[1].src, 1)'
    BY DEF SourcesHold
  <2>1. CASE h \in enqueued.held
    BY <1>1, <1>4, <2>1 DEF SourcesHold, FenceKept
  <2>2. CASE /\ h[1].target = enqueued.target /\ h[1].src \in Keys
             /\ \E i \in 1..Len(lane) : CurrentEvent(lane[i], h[1].src)
    <3>1. PICK i \in 1..Len(lane) : CurrentEvent(lane[i], h[1].src)
      BY <2>2
    <3>2. h[1].src \in down \/ ReleaseFrom(h[1].src, i)
      BY <1>1, <2>2, <3>1 DEF EventsEnd
    <3>3. ReleaseFrom(h[1].src, i) => ReleaseFrom(h[1].src, 1)
      <4>1. \A j \in 1..Len(lane) : j >= 1
        BY DEF TypeOK
      <4> QED
        BY <4>1 DEF ReleaseFrom
    <3> QED
      BY <1>1, <1>4, <2>2, <3>2, <3>3
  <2> QED
    BY <2>1, <2>2 DEF SourceAdds
<1> QED
  BY <1>5, <1>6, <1>7 DEF SourceInv

\* The items of a tail.
LEMMA TailFacts ==
  ASSUME NEW S, NEW s \in Seq(S), s # <<>>
  PROVE  /\ Tail(s) \in Seq(S) /\ Len(Tail(s)) = Len(s) - 1 /\ Len(s) \in Nat /\ Head(s) = s[1]
         /\ \A i \in 1..Len(Tail(s)) : i + 1 \in 1..Len(s) /\ Tail(s)[i] = s[i + 1]
         /\ \A i \in 1..Len(s) : i # 1 => i - 1 \in 1..Len(Tail(s)) /\ Tail(s)[i - 1] = s[i]
<1>1. Tail(s) \in Seq(S) /\ Len(Tail(s)) = Len(s) - 1 /\ Len(s) \in Nat /\ Head(s) = s[1]
  OBVIOUS
<1>2. \A i \in 1..Len(Tail(s)) : i + 1 \in 1..Len(s) /\ Tail(s)[i] = s[i + 1]
  BY <1>1
<1>3. \A i \in 1..Len(s) : i # 1 => i - 1 \in 1..Len(Tail(s)) /\ Tail(s)[i - 1] = s[i]
  BY <1>1, <1>2
<1> QED
  BY <1>1, <1>2, <1>3

\* An event leaves the lane: if it is a key's release, no hold has the key as
\* its source any more.
LEMMA TailSources ==
  ASSUME TypeOK, SourceInv, FenceKept, lane # <<>>, lane' = Tail(lane), UNCHANGED <<down, gen, grabbed>>,
         enqueued'.target = enqueued.target,
         \A h \in enqueued'.held : h[1].src # None => h \in enqueued.held,
         /\ Head(lane).origin = "physical" /\ ~Head(lane).action.press /\ Head(lane).action.gen = gen
         /\ ~refused'
         => \A h \in enqueued'.held :
              ~(h[1].src = Head(lane).action.key /\ h[1].target = Head(lane).action.owner.target)
  PROVE  SourceInv'
<1>1. /\ EventsEnd /\ TargetsPast /\ SourcesHold
      /\ gen' = gen /\ down' = down
  BY DEF SourceInv
<1>2. lane \in Seq(Events(gen, seat))
  BY DEF TypeOK
<1>3. /\ Len(lane) \in Nat /\ Len(lane') = Len(lane) - 1 /\ Head(lane) = lane[1]
      /\ \A i \in 1..Len(lane') : i + 1 \in 1..Len(lane) /\ lane'[i] = lane[i + 1]
      /\ \A i \in 1..Len(lane) : i # 1 => i - 1 \in 1..Len(lane') /\ lane'[i - 1] = lane[i]
  BY <1>2, TailFacts
<1>4. \A i \in 1..Len(lane') : \A k : CurrentEvent(lane[i], k)' <=> CurrentEvent(lane[i + 1], k)
  BY <1>1, <1>3 DEF CurrentEvent
<1>5. ASSUME NEW k, NEW i \in 1..Len(lane), NEW n \in Nat, i >= n + 1, i # 1, CurrentEvent(lane[i], k),
             ~lane[i].action.press
      PROVE  ReleaseFrom(k, n)'
  <2>1. PICK j \in 1..Len(lane') : j = i - 1 /\ lane'[j] = lane[i] /\ j >= n
    BY <1>3, <1>5
  <2>2. CurrentEvent(lane[j], k)' /\ ~lane'[j].action.press
    BY <1>1, <1>5, <2>1 DEF CurrentEvent
  <2> QED
    BY <2>1, <2>2 DEF ReleaseFrom
<1>6. EventsEnd'
  <2> SUFFICES ASSUME NEW i \in 1..Len(lane'), NEW k \in Keys, CurrentEvent(lane[i], k)'
               PROVE  grabbed' /\ (k \in down' \/ ReleaseFrom(k, i)')
    BY DEF EventsEnd
  <2>1. i + 1 \in 1..Len(lane) /\ CurrentEvent(lane[i + 1], k) /\ i \in Nat /\ i >= 1
    BY <1>3, <1>4
  <2>2. grabbed /\ (k \in down \/ ReleaseFrom(k, i + 1))
    BY <1>1, <2>1 DEF EventsEnd
  <2>3. ASSUME ReleaseFrom(k, i + 1) PROVE ReleaseFrom(k, i)'
    <3>1. PICK j \in 1..Len(lane) : j >= i + 1 /\ CurrentEvent(lane[j], k) /\ ~lane[j].action.press
      BY <2>3 DEF ReleaseFrom
    <3>2. j # 1
      BY <2>1, <3>1
    <3> QED
      BY <1>5, <2>1, <3>1, <3>2
  <2> QED
    BY <1>1, <2>2, <2>3
<1>7. TargetsPast'
  <2>1. \A i \in 1..Len(lane') : lane'[i].origin = "physical" => lane'[i].action.owner.target <= enqueued.target
    BY <1>1, <1>3 DEF TargetsPast
  <2> QED
    BY <1>1, <2>1 DEF TargetsPast
<1>8. SourcesHold'
  <2> SUFFICES ASSUME NEW h \in enqueued'.held, h[1].src # None
               PROVE  /\ h[1].target = enqueued'.target
                      /\ ~refused' /\ ~Fencing' => h[1].src \in down' \/ ReleaseFrom(h[1].src, 1)'
    BY DEF SourcesHold
  <2>1. h \in enqueued.held /\ h[1].target = enqueued.target
    BY <1>1 DEF SourcesHold
  <2>2. ASSUME ~refused', ~Fencing', h[1].src \notin down PROVE ReleaseFrom(h[1].src, 1)'
    <3>1. ReleaseFrom(h[1].src, 1)
      BY <1>1, <2>1, <2>2 DEF SourcesHold, FenceKept
    <3>2. PICK j \in 1..Len(lane) : CurrentEvent(lane[j], h[1].src) /\ ~lane[j].action.press
      BY <3>1 DEF ReleaseFrom
    <3>3. CASE j # 1
      <4>1. j >= 1 + 1
        BY <1>3, <3>3
      <4> QED
        BY <1>5, <3>2, <3>3, <4>1
    <3>4. CASE j = 1
      BY <1>3, <2>1, <2>2, <3>2, <3>4 DEF CurrentEvent
    <3> QED
      BY <3>3, <3>4
  <2> QED
    BY <1>1, <2>1, <2>2
<1> QED
  BY <1>6, <1>7, <1>8 DEF SourceInv

\* A new generation leaves no event current, and RELEASE_ALL follows.
LEMMA FenceSources ==
  ASSUME TypeOK, SourceInv, gen' = gen + 1, Fencing', UNCHANGED <<lane, down, enqueued>>
  PROVE  SourceInv'
<1>1. EventsEnd /\ TargetsPast /\ SourcesHold
  BY DEF SourceInv
<1>2. \A i \in 1..Len(lane) : \A k : ~CurrentEvent(lane[i], k)'
  <2> SUFFICES ASSUME NEW i \in 1..Len(lane), NEW k, CurrentEvent(lane[i], k)' PROVE FALSE
    OBVIOUS
  <2>1. lane[i] \in Events(gen, seat) /\ gen \in Nat
    BY DEF TypeOK
  <2>2. lane[i].origin = "physical" /\ lane[i].action.gen = gen + 1
    BY DEF CurrentEvent
  <2>3. lane[i].action \in Packets(gen)
    BY <2>1, <2>2 DEF Events
  <2> QED
    BY <2>1, <2>2, <2>3 DEF Packets
<1>3. EventsEnd'
  BY <1>2 DEF EventsEnd
<1>4. TargetsPast' /\ SourcesHold'
  BY <1>1 DEF TargetsPast, SourcesHold
<1> QED
  BY <1>3, <1>4 DEF SourceInv

\* The end of a grab leaves no event current and no hold with a source.
LEMMA GrabSources ==
  ASSUME TypeOK, SourceInv, FenceKept, UpdateGrab
  PROVE  SourceInv'
<1>1. EventsEnd /\ TargetsPast /\ SourcesHold /\ UNCHANGED <<lane, down, gen>>
  BY DEF SourceInv, UpdateGrab
<1>2. CASE UNCHANGED <<ledger, applied, refused>> /\ (grabbed => grabbed')
  <2>1. SourceAdds /\ SameLane
    BY <1>1, <1>2 DEF ledger, SourceAdds, SameLane
  <2> QED
    BY <1>1, <1>2, <2>1, QuietSources
<1>3. CASE /\ enqueued'.target = enqueued.target + 1
           /\ \A h \in enqueued'.held : h \in enqueued.held /\ h[1].target = 0
  <2>1. enqueued.target \in Nat /\ enqueued.target # 0
    BY <1>1 DEF TypeOK, View, TargetsPast
  <2>2. \A i \in 1..Len(lane) : lane[i].origin = "physical" =>
          lane[i].action.owner.target \in Nat /\ lane[i].action.owner.target <= enqueued.target
    <3> SUFFICES ASSUME NEW i \in 1..Len(lane), lane[i].origin = "physical"
                 PROVE  lane[i].action.owner.target \in Nat
      BY <1>1 DEF TargetsPast
    <3>1. lane[i] \in Events(gen, seat)
      BY DEF TypeOK
    <3>2. lane[i].action \in Actions
      BY <3>1 DEF Events
    <3> QED
      BY <3>2 DEF Actions, Owners
  <2>3. \A i \in 1..Len(lane) : \A k : ~CurrentEvent(lane[i], k)'
    BY <1>1, <1>3, <2>1, <2>2 DEF CurrentEvent
  <2>4. EventsEnd'
    BY <1>1, <2>3 DEF EventsEnd
  <2>5. TargetsPast'
    BY <1>1, <1>3, <2>1, <2>2 DEF TargetsPast
  <2>6. SourcesHold'
    BY <1>1, <1>3, <2>1 DEF SourcesHold
  <2> QED
    BY <2>4, <2>5, <2>6 DEF SourceInv
<1> QED
  BY <1>2, <1>3, GrabDoes

\* The items of an appended sequence.
LEMMA AppendFacts ==
  ASSUME NEW S, NEW s \in Seq(S), NEW a \in S
  PROVE  /\ Len(s) \in Nat /\ Len(Append(s, a)) = Len(s) + 1 /\ Append(s, a)[Len(s) + 1] = a
         /\ \A i \in 1..Len(s) : i \in 1..Len(Append(s, a)) /\ Append(s, a)[i] = s[i]
         /\ \A i \in 1..Len(Append(s, a)) : i \in 1..Len(s) \/ i = Len(s) + 1
         /\ Len(s) + 1 \in 1..Len(Append(s, a))
  OBVIOUS

\* A synthetic event joins the lane.
LEMMA SyntheticSources ==
  ASSUME TypeOK, SourceInv, FenceKept, NEW e \in Events(gen, seat), e.origin = "synthetic",
         lane' = Append(lane, e), UNCHANGED <<down, gen, grabbed>>, enqueued'.target = enqueued.target,
         \A h \in enqueued'.held : h[1].src # None => h \in enqueued.held
  PROVE  SourceInv'
<1>1. /\ EventsEnd /\ TargetsPast /\ SourcesHold /\ gen' = gen /\ down' = down /\ grabbed' = grabbed
  BY DEF SourceInv
<1>2. lane \in Seq(Events(gen, seat))
  BY DEF TypeOK
<1>3. PICK n \in Nat : n = Len(lane)
  BY <1>2
<1>4. /\ Len(lane') = n + 1 /\ lane'[n + 1] = e
      /\ \A i \in 1..n : i \in 1..Len(lane') /\ lane'[i] = lane[i]
      /\ \A i \in 1..Len(lane') : i \in 1..n \/ i = n + 1
  BY <1>2, <1>3, AppendFacts
<1>5. \A i \in 1..n : \A k : CurrentEvent(lane[i], k)' <=> CurrentEvent(lane[i], k)
  BY <1>1, <1>4 DEF CurrentEvent
<1>6. \A k : ~CurrentEvent(lane[n + 1], k)'
  BY <1>4 DEF CurrentEvent
<1>7. \A k, i : ReleaseFrom(k, i) => ReleaseFrom(k, i)'
  BY <1>3, <1>4, <1>5 DEF ReleaseFrom
<1>8. EventsEnd'
  <2> SUFFICES ASSUME NEW i \in 1..Len(lane'), NEW k \in Keys, CurrentEvent(lane[i], k)'
               PROVE  grabbed' /\ (k \in down' \/ ReleaseFrom(k, i)')
    BY DEF EventsEnd
  <2>1. i \in 1..Len(lane) /\ CurrentEvent(lane[i], k)
    BY <1>3, <1>4, <1>5, <1>6
  <2> QED
    BY <1>1, <1>7, <2>1 DEF EventsEnd
<1>9. TargetsPast'
  BY <1>1, <1>3, <1>4 DEF TargetsPast
<1>10. SourcesHold'
  BY <1>1, <1>7 DEF SourcesHold, FenceKept
<1> QED
  BY <1>8, <1>9, <1>10 DEF SourceInv

\* A key goes down or up: its event is current, and a release ends the key's
\* holds at once or from the lane.
LEMMA PhysicalSources ==
  ASSUME TypeOK, SourceInv, FenceKept, NEW key \in Keys, Physical(key)
  PROVE  SourceInv'
<1>1. /\ EventsEnd /\ TargetsPast /\ SourcesHold /\ gen' = gen /\ grabbed' = grabbed /\ Shrinks /\ todo' = todo
      /\ refused' = refused
  BY PhysicalDoes DEF SourceInv, Physical, main
<1>2. down' = IF key \in down THEN down \ {key} ELSE down \cup {key}
  BY <1>1, PhysicalDoes
<1>3. PICK a \in Packets(gen) :
        /\ a.gen = gen /\ a.key = key /\ a.owner.target = enqueued.target /\ a.press = (key \notin down)
        /\ \/ grabbed /\ lane' = Append(lane, LaneEvent("physical", a, Active)) /\ UNCHANGED ledger
           \/ /\ ~grabbed /\ UNCHANGED lane
              /\ \A h \in enqueued'.held : ~(h[1].src = key /\ h[1].target = enqueued.target)
  BY <1>1, PhysicalDoes
<1>4. CASE grabbed /\ lane' = Append(lane, LaneEvent("physical", a, Active)) /\ UNCHANGED ledger
  <2>1. PICK e \in Events(gen, seat) : e = LaneEvent("physical", a, Active) /\ e.origin = "physical" /\ e.action = a
    BY EventsIn
  <2>2. lane \in Seq(Events(gen, seat)) /\ enqueued' = enqueued /\ Fencing' = Fencing
    BY <1>1, <1>4 DEF TypeOK, ledger, Fencing
  <2>3. PICK n \in Nat : n = Len(lane)
    BY <2>2
  <2>4. /\ Len(lane') = n + 1 /\ lane'[n + 1] = e /\ n + 1 \in 1..Len(lane')
        /\ \A i \in 1..n : i \in 1..Len(lane') /\ lane'[i] = lane[i]
        /\ \A i \in 1..Len(lane') : i \in 1..n \/ i = n + 1
    BY <1>4, <2>1, <2>2, <2>3, AppendFacts
  <2>5. \A i \in 1..n : \A k : CurrentEvent(lane[i], k)' <=> CurrentEvent(lane[i], k)
    BY <1>1, <2>2, <2>4 DEF CurrentEvent
  <2>6. \A k : CurrentEvent(lane[n + 1], k)' <=> k = key
    BY <1>1, <1>3, <2>1, <2>2, <2>4 DEF CurrentEvent
  <2>7. \A k, i : ReleaseFrom(k, i) => ReleaseFrom(k, i)'
    BY <2>3, <2>4, <2>5 DEF ReleaseFrom
  <2>8. key \in down' \/ \A i \in 1..(n + 1) : ReleaseFrom(key, i)'
    <3> SUFFICES ASSUME key \notin down', NEW i \in 1..(n + 1) PROVE ReleaseFrom(key, i)'
      OBVIOUS
    <3>1. ~lane'[n + 1].action.press
      BY <1>2, <1>3, <2>1, <2>4
    <3>2. CurrentEvent(lane[n + 1], key)' /\ n + 1 >= i
      BY <2>6
    <3> QED
      BY <2>4, <3>1, <3>2 DEF ReleaseFrom
  <2>9. \A k : k # key => (k \in down' <=> k \in down)
    BY <1>2
  <2>10. EventsEnd'
    <3> SUFFICES ASSUME NEW i \in 1..Len(lane'), NEW k \in Keys, CurrentEvent(lane[i], k)'
                 PROVE  grabbed' /\ (k \in down' \/ ReleaseFrom(k, i)')
      BY DEF EventsEnd
    <3>1. CASE k = key
      BY <1>1, <1>4, <2>4, <2>8, <3>1
    <3>2. CASE k # key
      <4>1. i \in 1..n
        BY <2>4, <2>6, <3>2
      <4> QED
        BY <1>1, <2>3, <2>5, <2>7, <2>9, <3>2, <4>1 DEF EventsEnd
    <3> QED
      BY <3>1, <3>2
  <2>11. TargetsPast'
    <3>1. a.owner.target <= enqueued.target
      BY <1>3 DEF TypeOK, View
    <3> QED
      BY <1>1, <2>1, <2>2, <2>3, <2>4, <3>1 DEF TargetsPast
  <2>12. SourcesHold'
    <3> SUFFICES ASSUME NEW h \in enqueued'.held, h[1].src # None
                 PROVE  /\ h[1].target = enqueued'.target
                        /\ ~refused' /\ ~Fencing' => h[1].src \in down' \/ ReleaseFrom(h[1].src, 1)'
      BY DEF SourcesHold
    <3>1. /\ h[1].target = enqueued.target
          /\ ~refused /\ ~Fencing => h[1].src \in down \/ ReleaseFrom(h[1].src, 1)
      BY <1>1, <2>2 DEF SourcesHold
    <3>2. 1 \in 1..(n + 1)
      OBVIOUS
    <3>3. CASE h[1].src = key
      BY <2>2, <2>8, <3>1, <3>2, <3>3
    <3>4. CASE h[1].src # key
      BY <1>1, <2>2, <2>7, <2>9, <3>1, <3>4
    <3> QED
      BY <3>3, <3>4
  <2> QED
    BY <2>10, <2>11, <2>12 DEF SourceInv
<1>5. CASE /\ ~grabbed /\ UNCHANGED lane
           /\ \A h \in enqueued'.held : ~(h[1].src = key /\ h[1].target = enqueued.target)
  <2>1. /\ lane' = lane /\ enqueued'.target = enqueued.target /\ enqueued'.held \subseteq enqueued.held
    BY <1>1, <1>5 DEF Shrinks
  <2>2. \A i \in 1..Len(lane) : \A k : CurrentEvent(lane[i], k)' <=> CurrentEvent(lane[i], k)
    BY <1>1, <2>1 DEF CurrentEvent
  <2>3. \A k, i : ReleaseFrom(k, i) => ReleaseFrom(k, i)'
    BY <2>1, <2>2 DEF ReleaseFrom
  <2>4. EventsEnd'
    BY <1>1, <1>5, <2>1, <2>2 DEF EventsEnd
  <2>5. TargetsPast'
    BY <1>1, <2>1 DEF TargetsPast
  <2>6. SourcesHold'
    <3> SUFFICES ASSUME NEW h \in enqueued'.held, h[1].src # None
                 PROVE  /\ h[1].target = enqueued'.target
                        /\ ~refused' /\ ~Fencing' => h[1].src \in down' \/ ReleaseFrom(h[1].src, 1)'
      BY DEF SourcesHold
    <3>1. h \in enqueued.held /\ h[1].target = enqueued.target
      BY <1>1, <2>1 DEF SourcesHold
    <3>2. h[1].src # key
      BY <1>5, <3>1
    <3>3. Fencing' <=> Fencing
      BY <1>1 DEF Fencing
    <3> QED
      BY <1>1, <1>2, <2>1, <2>3, <3>1, <3>2, <3>3 DEF SourcesHold
  <2> QED
    BY <2>4, <2>5, <2>6 DEF SourceInv
<1> QED
  BY <1>3, <1>4, <1>5

\* Every step keeps the source keys' holds.
LEMMA SourcesKeep ==
  ASSUME TypeOK, TodoOrder, SourceInv, Next, todo' \in Seq(StepType)
  PROVE  SourceInv'
<1>0. EventsEnd /\ TargetsPast /\ SourcesHold
  BY DEF SourceInv
<1>1. FenceKept
  BY <1>0, FenceKeeps
<1>2. ASSUME UNCHANGED <<lane, down, gen, enqueued>>, grabbed => grabbed' PROVE SourceInv'
  <2>1. SameLane /\ SourceAdds /\ UNCHANGED <<down, gen>>
    BY <1>2 DEF SameLane, SourceAdds
  <2> QED
    BY <1>1, <1>2, <2>1, QuietSources
<1>3. ASSUME UNCHANGED <<lane, down, gen, grabbed>>, Shrinks PROVE SourceInv'
  <2>1. SameLane /\ SourceAdds /\ UNCHANGED <<down, gen>> /\ grabbed' = grabbed
    BY <1>3 DEF SameLane, SourceAdds, Shrinks
  <2> QED
    BY <1>1, <2>1, QuietSources
<1>4. ASSUME UNCHANGED <<lane, down, gen, grabbed>>, NEW o, Adds(o), o.src = None PROVE SourceInv'
  <2>1. SameLane /\ SourceAdds /\ UNCHANGED <<down, gen>> /\ grabbed' = grabbed
    BY <1>4 DEF SameLane, SourceAdds, Adds
  <2> QED
    BY <1>1, <2>1, QuietSources
<1>5. ASSUME Relabelled, UNCHANGED <<down, gen, grabbed, enqueued>> PROVE SourceInv'
  <2>1. SameLane /\ SourceAdds /\ UNCHANGED <<down, gen>> /\ grabbed' = grabbed
    BY <1>5 DEF SameLane, SourceAdds, Relabelled
  <2> QED
    BY <1>1, <2>1, QuietSources
<1>7. ASSUME UNCHANGED <<lane, down, gen, grabbed>>, NEW c, NEW hook, Released(c, hook) PROVE SourceInv'
  BY <1>3, <1>7 DEF Released
<1>8. ASSUME Request PROVE SourceInv'
  <2>1. ASSUME NEW c \in Conns, Connect(c) \/ Subscribe(c) \/ Unsubscribe(c) \/ Quarantine(c) \/ Disconnect(c)
        PROVE  SourceInv'
    <3>1. UNCHANGED <<lane, down, gen, enqueued>> /\ grabbed' = grabbed
      BY <2>1 DEF Connect, Subscribe, Unsubscribe, Quarantine, Disconnect, ledger
    <3> QED
      BY <1>2, <3>1
  <2>2. ASSUME NEW u \in Users \cup {None}, ChangeSeat(u) PROVE SourceInv'
    <3>1. UNCHANGED <<lane, down>> /\ gen' = gen + 1
      BY <2>2 DEF ChangeSeat
    <3>2. enqueued' = enqueued /\ todo' = SeatSteps(u)
      BY <2>2 DEF ChangeSeat, ledger
    <3>3. Has("all")'
      BY <3>2, SeatList, Started DEF Ops
    <3> QED
      BY <3>1, <3>2, <3>3, FencingHas, FenceSources DEF TypeOK
  <2>3. ASSUME FencePermissions PROVE SourceInv'
    <3>1. UNCHANGED <<lane, down>> /\ gen' = gen + 1 /\ enqueued' = enqueued
      BY <2>3 DEF FencePermissions, ledger
    <3>2. todo' = <<Step("flush"), Step("discard"), Step("all")>> \o UpdateGrabs
      BY <2>3 DEF FencePermissions
    <3>3. PICK I : I = {"flush", "discard", "all", "sync", "grab", "class"}
      OBVIOUS
    <3>4. Listed(todo', I) /\ "all" \in I
      BY <3>2, <3>3, FenceList
    <3>5. Has("all")'
      BY <3>4, Started DEF Ops
    <3> QED
      BY <3>1, <3>5, FencingHas, FenceSources DEF TypeOK
  <2>4. ASSUME Panic \/ Grab PROVE SourceInv'
    <3>1. UNCHANGED <<lane, down, gen, enqueued>> /\ (grabbed => grabbed')
      BY <2>4 DEF Panic, Grab, ledger
    <3> QED
      BY <1>2, <3>1
  <2>5. ASSUME Recreate PROVE SourceInv'
    <3>1. UNCHANGED <<lane, down, gen, grabbed>>
      BY <2>5 DEF Recreate, main
    <3> QED
      BY <1>3, <2>5, <3>1, RecreateDoes
  <2>6. ASSUME NEW c \in Conns, NEW key \in Keys, SendNested(c, key) PROVE SourceInv'
    <3>1. UNCHANGED <<lane, down, gen, enqueued>> /\ grabbed' = grabbed
      BY <2>6 DEF SendNested, main, ledger
    <3> QED
      BY <1>2, <3>1
  <2>7. ASSUME NEW c \in Conns, NEW key \in Keys, NEW press \in BOOLEAN, Send(c, key, press)
        PROVE SourceInv'
    <3>1. UNCHANGED <<lane, down, gen, grabbed>>
      BY <2>7 DEF Send, main
    <3>2. Adds(Sender(c)) /\ Sender(c).src = None
      BY <2>7, SendDoes, OwnerShape
    <3> QED
      BY <1>4, <3>1, <3>2
  <2>8. ASSUME NEW key \in Keys, Physical(key) PROVE SourceInv'
    BY <1>1, <2>8, PhysicalSources
  <2> QED
    BY <1>8, <2>1, <2>2, <2>3, <2>4, <2>5, <2>6, <2>7, <2>8 DEF Request
<1>9. ASSUME MainStep PROVE SourceInv'
  <2>1. ASSUME SyncOwners \/ WaitForInflight \/ DiscardStale \/ TakeSeat PROVE SourceInv'
    <3>1. UNCHANGED <<lane, down, gen, enqueued>> /\ grabbed' = grabbed
      BY <2>1 DEF SyncOwners, WaitForInflight, DiscardStale, TakeSeat, ledger
    <3> QED
      BY <1>2, <3>1
  <2>2. ASSUME UpdateGrab PROVE SourceInv'
    BY <1>1, <2>2, GrabSources
  <2>3. ASSUME ReleaseClass PROVE SourceInv'
    <3>1. UNCHANGED <<lane, down, gen, grabbed>>
      BY <2>3 DEF ReleaseClass
    <3>2. CASE UNCHANGED <<ledger, refused>>
      BY <1>3, <3>1, <3>2, UnchangedShrinks
    <3> QED
      BY <1>7, <2>3, <3>1, <3>2, ClassDoes
  <2>4. ASSUME ReleaseHook PROVE SourceInv'
    <3>1. UNCHANGED <<lane, down, gen, grabbed>>
      BY <2>4 DEF ReleaseHook
    <3> QED
      BY <1>7, <2>4, <3>1, HookDoes
  <2>5. ASSUME PushMarker PROVE SourceInv'
    <3>1. UNCHANGED <<lane, down, gen, grabbed>>
      BY <2>5 DEF PushMarker
    <3>2. CASE UNCHANGED <<ledger, refused, overtaken>>
      <4>1. UNCHANGED ledger
        BY <3>2
      <4> QED
        BY <1>3, <3>1, <4>1, UnchangedShrinks
    <3> QED
      BY <1>7, <2>5, <3>1, <3>2, MarkerDoes
  <2>6. ASSUME ReleaseGeneric PROVE SourceInv'
    <3>1. UNCHANGED <<lane, down, gen, grabbed>>
      BY <2>6 DEF ReleaseGeneric
    <3> QED
      BY <1>3, <2>6, <3>1, GenericDoes
  <2>7. ASSUME PushReleaseAll PROVE SourceInv'
    <3>1. UNCHANGED <<lane, down, gen, grabbed>>
      BY <2>7 DEF PushReleaseAll
    <3> QED
      BY <1>3, <2>7, <3>1, AllDoes DEF Wiped
  <2>8. ASSUME Flush PROVE SourceInv'
    <3>1. UNCHANGED <<down, gen, grabbed, enqueued>>
      BY <2>8 DEF Flush, ledger
    <3> QED
      BY <1>5, <2>8, <3>1, FlushDoes
  <2> QED
    BY <1>9, <2>1, <2>2, <2>3, <2>4, <2>5, <2>6, <2>7, <2>8 DEF MainStep
<1>10. ASSUME FailOpen PROVE SourceInv'
  <2>1. UNCHANGED <<lane, down, gen, enqueued>> /\ grabbed' = grabbed
    BY <1>10 DEF FailOpen, ledger
  <2> QED
    BY <1>2, <2>1
<1>11. ASSUME Ingress PROVE SourceInv'
  <2>1. UNCHANGED <<down, gen, grabbed>>
    BY <1>11 DEF Ingress
  <2>2. CASE \E c \in Conns : Released(c, FALSE) /\ UNCHANGED lane
    <3>1. PICK c \in Conns : Released(c, FALSE) /\ lane' = lane
      BY <2>2
    <3> QED
      BY <1>7, <2>1, <3>1
  <2>3. ASSUME Head(synthq) \in Sent(gen, seat) PROVE Head(synthq).owner.src = None
    <3>1. PICK c \in Conns : Head(synthq).owner = Sender(c)
      BY <2>3 DEF Sent
    <3> QED
      BY <3>1, OwnerShape
  <2>4. CASE Head(synthq) \in Sent(gen, seat) /\ Adds(Head(synthq).owner) /\ UNCHANGED lane
    BY <1>4, <2>1, <2>3, <2>4
  <2>5. CASE /\ Head(synthq) \in Sent(gen, seat) /\ Adds(Head(synthq).owner)
             /\ lane' = Append(lane, LaneEvent("synthetic", Head(synthq), Active))
    <3>1. PICK e \in Events(gen, seat) : e = LaneEvent("synthetic", Head(synthq), Active) /\ e.origin = "synthetic"
      BY <2>5, EventsIn
    <3>2. /\ enqueued'.target = enqueued.target
          /\ \A h \in enqueued'.held : h[1].src # None => h \in enqueued.held
      BY <2>3, <2>5 DEF Adds
    <3> QED
      BY <1>1, <2>1, <2>5, <3>1, <3>2, SyntheticSources
  <2> QED
    BY <1>11, <2>2, <2>4, <2>5, IngressDoes
<1>12. ASSUME LaneStep PROVE SourceInv'
  <2>1. ASSUME Decide PROVE SourceInv'
    <3>1. UNCHANGED <<down, gen, grabbed, enqueued>>
      BY <2>1 DEF Decide, main, ledger
    <3> QED
      BY <1>5, <2>1, <3>1, DecideDoes
  <2>2. ASSUME EmitModify PROVE SourceInv'
    <3>1. UNCHANGED <<down, gen, grabbed>> /\ lane # <<>> /\ lane[1] = Head(lane) /\ 1 \in 1..Len(lane)
      BY <2>2, HeadEvent DEF EmitModify, main
    <3>2. SameLane
      BY <2>2, <3>1, ModifyDoes, RestageDoes DEF Relabelled, SameLane
    <3>3. PICK o \in Owners :
            /\ Adds(o)
            /\ o.src # None =>
                 /\ Head(lane).origin = "physical" /\ o.src = Head(lane).action.key
                 /\ o.target = Head(lane).action.owner.target /\ o.target # 0 /\ o.src \in Keys
                 /\ Head(lane).action.gen # gen => Shrinks
      BY <2>2, ModifyDoes
    <3>4. SourceAdds
      <4> SUFFICES ASSUME NEW h \in enqueued'.held, h[1].src # None, h \notin enqueued.held
                   PROVE  /\ h[1].target = enqueued.target /\ h[1].src \in Keys
                          /\ \E i \in 1..Len(lane) : CurrentEvent(lane[i], h[1].src)
        BY <3>3 DEF SourceAdds, Adds
      <4>1. h[1] = o /\ o.target \in {0, enqueued.target} /\ ~Shrinks
        BY <3>3 DEF Adds, Shrinks
      <4>2. o.target = enqueued.target /\ o.src \in Keys /\ CurrentEvent(lane[1], o.src)
        BY <3>1, <3>3, <4>1 DEF CurrentEvent
      <4> QED
        BY <3>1, <4>1, <4>2
    <3> QED
      BY <1>1, <3>1, <3>2, <3>4, QuietSources
  <2>3. ASSUME EmitEgress PROVE SourceInv'
    <3>1. UNCHANGED <<down, gen, grabbed>> /\ lane # <<>>
      BY <2>3 DEF EmitEgress
    <3>2. CASE Shrinks /\ Restage("block")
      <4>1. SameLane /\ SourceAdds
        BY <3>1, <3>2, RestageDoes DEF Relabelled, SameLane, SourceAdds, Shrinks
      <4> QED
        BY <1>1, <3>1, <4>1, QuietSources
    <3>3. CASE /\ Shrinks /\ lane' = Tail(lane)
               /\ ~Head(lane).action.press /\ Head(lane).action.gen = gen =>
                    \A h \in enqueued'.held :
                      ~(h[1].src = Head(lane).action.key /\ h[1].target = Head(lane).action.owner.target)
      BY <1>1, <3>1, <3>3, TailSources DEF Shrinks
    <3>4. CASE /\ Head(lane).origin = "synthetic" /\ lane' = Tail(lane)
               /\ Adds(Head(lane).action.owner) /\ Head(lane).action \in Sent(gen, seat)
      <4>1. Head(lane).action.owner.src = None
        <5>1. PICK c \in Conns : Head(lane).action.owner = Sender(c)
          BY <3>4 DEF Sent
        <5> QED
          BY <5>1, OwnerShape
      <4>2. /\ enqueued'.target = enqueued.target
            /\ \A h \in enqueued'.held : h[1].src # None => h \in enqueued.held
        BY <3>4, <4>1 DEF Adds
      <4> QED
        BY <1>1, <3>1, <3>4, <4>2, TailSources
    <3> QED
      BY <2>3, <3>2, <3>3, <3>4, EgressDoes
  <2>4. ASSUME EmitCleanup PROVE SourceInv'
    <3>1. UNCHANGED <<down, gen, grabbed>>
      BY <2>4 DEF EmitCleanup
    <3> QED
      BY <1>1, <2>4, <3>1, CleanupDoes, TailSources DEF Shrinks
  <2>5. ASSUME RunNested PROVE SourceInv'
    <3>1. UNCHANGED <<lane, down, gen, grabbed>>
      BY <2>5 DEF RunNested, main
    <3>2. Adds(Sender(nested.conn)) /\ Sender(nested.conn).src = None
      BY <2>5, RunNestedDoes, OwnerShape
    <3> QED
      BY <1>4, <3>1, <3>2
  <2>6. ASSUME FinishNested PROVE SourceInv'
    <3>1. UNCHANGED <<lane, down, gen, grabbed>>
      BY <2>6 DEF FinishNested
    <3>2. CASE UNCHANGED <<ledger, refused>>
      BY <1>3, <3>1, <3>2, UnchangedShrinks
    <3> QED
      BY <1>7, <2>6, <3>1, <3>2, FinishNestedDoes
  <2> QED
    BY <1>12, <2>1, <2>2, <2>3, <2>4, <2>5, <2>6 DEF LaneStep
<1>13. ASSUME SequencerStep PROVE SourceInv'
  <2>1. UNCHANGED <<lane, down, gen, enqueued>> /\ grabbed' = grabbed
    BY <1>13 DEF SequencerStep, Pop, BeginWrite, EndWrite, main, ledger
  <2> QED
    BY <1>2, <2>1
<1> QED
  BY <1>8, <1>9, <1>10, <1>11, <1>12, <1>13 DEF Next

-----------------------------------------------------------------------------
(* Revoked hooks                                                           *)

\* What a hook of c still holds is about to be released.
Ending(c) == Releasing(c) \/ ClassEnds

\* A step that adds no hook's hold, and revokes no hook without its release coming, keeps HooksHold.
LEMMA HooksQuiet ==
  ASSUME HooksHold, refused => refused', unused' \subseteq unused,
         \A h \in enqueued'.held : h[1].hook => h \in enqueued.held,
         \A c \in clients' \ hooks' : c \in unused \/ Ending(c)' \/ (c \in clients \ hooks /\ ~Ending(c))
  PROVE  HooksHold'
<1> SUFFICES ASSUME ~refused', NEW h \in enqueued'.held, h[1].hook
             PROVE  /\ h[1].conn \notin unused'
                    /\ h[1].conn \in clients' \ hooks' => Ending(h[1].conn)'
  BY DEF HooksHold, Ending
<1>1. /\ h[1].conn \notin unused
      /\ h[1].conn \in clients \ hooks => Ending(h[1].conn)
  BY DEF HooksHold, Ending
<1> QED
  BY <1>1

\* Between handlers no release is owed.
LEMMA IdleEnding == ASSUME Idle PROVE \A c : ~Ending(c)
  BY IdleHas DEF Ending, ClassEnds

\* The steps of a handler that release nothing of a hook.
LEMMA PassEnding ==
  ASSUME todo \in Seq(StepType), TodoOrder, NEW op, NextStep(op), op \notin {"release", "class"},
         UNCHANGED <<hooks, owned, seat>>
  PROVE  \A c : Ending(c)' <=> Ending(c)
<1>1. /\ \A c : Releasing(c)' <=> Releasing(c)
      /\ Has("class")' <=> Has("class")
  BY Advance
<1>2. Active' = Active
  BY DEF Active
<1> QED
  BY <1>1, <1>2 DEF Ending, ClassEnds

\* Nothing of the main thread moves.
LEMMA SameEnding ==
  ASSUME UNCHANGED <<hooks, owned, seat, todo>>
  PROVE  \A c : Ending(c)' <=> Ending(c)
<1>1. Active' = Active
  BY DEF Active
<1> QED
  BY <1>1 DEF Ending, ClassEnds, Releasing, Has

\* Every step keeps the hooks' holds.
LEMMA HooksKeep ==
  ASSUME TypeOK, MainInv, HeldConns, HoldsOwn, HooksHold, TargetsPast, Next, todo' \in Seq(StepType)
  PROVE  HooksHold'
<1>0. TodoOrder /\ OwnersFollow /\ RevokedEnds /\ todo \in Seq(StepType) /\ hooks \subseteq clients
  BY DEF MainInv, TypeOK
<1>1. refused => refused'
  BY <1>0, FenceKeeps DEF FenceKept
<1>2. ASSUME UNCHANGED <<clients, unused, hooks, owned, seat, todo>>,
             \A h \in enqueued'.held : h[1].hook => h \in enqueued.held
      PROVE  HooksHold'
  <2>1. \A c \in clients' \ hooks' : Ending(c)' \/ (c \in clients \ hooks /\ ~Ending(c))
    BY <1>2, SameEnding
  <2> QED
    BY <1>1, <1>2, <2>1, HooksQuiet
<1>3. ASSUME NEW op, NextStep(op), op \notin {"release", "class"},
             UNCHANGED <<clients, unused, hooks, owned, seat>>,
             \A h \in enqueued'.held : h[1].hook => h \in enqueued.held
      PROVE  HooksHold'
  <2>1. \A c \in clients' \ hooks' : Ending(c)' \/ (c \in clients \ hooks /\ ~Ending(c))
    BY <1>0, <1>3, PassEnding
  <2> QED
    BY <1>1, <1>3, <2>1, HooksQuiet
<1>4. ASSUME Idle, UNCHANGED <<clients, unused, hooks>>,
             \A h \in enqueued'.held : h[1].hook => h \in enqueued.held
      PROVE  HooksHold'
  <2>1. \A c \in clients' \ hooks' : c \in clients \ hooks /\ ~Ending(c)
    BY <1>4, IdleEnding
  <2> QED
    BY <1>1, <1>4, <2>1, HooksQuiet
<1>5. ASSUME Shrinks PROVE \A h \in enqueued'.held : h[1].hook => h \in enqueued.held
  BY <1>5 DEF Shrinks
<1>6. ASSUME NEW o, Adds(o), ~o.hook PROVE \A h \in enqueued'.held : h[1].hook => h \in enqueued.held
  BY <1>6 DEF Adds
<1>7. ASSUME UNCHANGED ledger PROVE \A h \in enqueued'.held : h[1].hook => h \in enqueued.held
  BY <1>7 DEF ledger
<1>8. ASSUME NEW c, NEW hook, Released(c, hook) PROVE Shrinks
  BY <1>8 DEF Released
<1>9. ASSUME NEW c \in Conns PROVE ~Sender(c).hook
  BY OwnerShape
<1>10. ASSUME Request PROVE HooksHold'
  <2>1. ASSUME NEW c \in Conns, Connect(c) PROVE HooksHold'
    <3>1. /\ c \in unused /\ unused' = unused \ {c} /\ clients' = clients \cup {c}
          /\ UNCHANGED <<hooks, owned, seat, todo, ledger>>
      BY <2>1 DEF Connect
    <3>2. \A d : Ending(d)' <=> Ending(d)
      BY <3>1, SameEnding
    <3>3. \A d \in clients' \ hooks' : d \in unused \/ Ending(d)' \/ (d \in clients \ hooks /\ ~Ending(d))
      BY <3>1, <3>2
    <3> QED
      BY <1>1, <1>7, <3>1, <3>3, HooksQuiet
  <2>2. ASSUME NEW c \in Conns, Subscribe(c) PROVE HooksHold'
    <3>1. Idle /\ UNCHANGED <<clients, unused, ledger>> /\ hooks' = hooks \cup {c}
      BY <2>2 DEF Subscribe
    <3>2. \A d \in clients' \ hooks' : d \in clients \ hooks /\ ~Ending(d)
      BY <3>1, IdleEnding
    <3> QED
      BY <1>1, <1>7, <3>1, <3>2, HooksQuiet
  <2>3. ASSUME NEW c \in Conns, Unsubscribe(c) \/ Quarantine(c) PROVE HooksHold'
    <3>1. Idle /\ UNCHANGED <<clients, unused, ledger>> /\ hooks' = hooks \ {c}
      BY <2>3 DEF Unsubscribe, Quarantine
    <3>2. Releasing(c)'
      <4>1. CASE Unsubscribe(c)
        <5>1. todo' = UnsubscribeSteps(c)
          BY <4>1 DEF Unsubscribe
        <5> QED
          BY <5>1, UnsubscribeList, Started
      <4>2. CASE Quarantine(c)
        <5>1. todo' = <<Step("sync"), ReleaseStep(c, TRUE)>>
          BY <4>2 DEF Quarantine
        <5>2. PICK s, I : s = <<Step("sync"), ReleaseStep(c, TRUE)>> /\ I = {"sync", "release"}
          OBVIOUS
        <5>3. Listed(s, I) /\ Ends(s, ReleaseStep(c, TRUE)) /\ todo' = s
          BY <5>1, <5>2, QuarantineList
        <5> QED
          BY <5>3, Started
      <4> QED
        BY <2>3, <4>1, <4>2
    <3>3. \A d \in clients' \ hooks' : Ending(d)' \/ (d \in clients \ hooks /\ ~Ending(d))
      BY <3>1, <3>2, IdleEnding DEF Ending
    <3> QED
      BY <1>1, <1>7, <3>1, <3>3, HooksQuiet
  <2>4. ASSUME NEW c \in Conns, Disconnect(c) PROVE HooksHold'
    <3>1. Idle /\ UNCHANGED <<unused, ledger>> /\ clients' = clients \ {c} /\ hooks' = hooks \ {c}
      BY <2>4 DEF Disconnect
    <3>2. \A d \in clients' \ hooks' : d \in clients \ hooks /\ ~Ending(d)
      BY <3>1, IdleEnding
    <3> QED
      BY <1>1, <1>7, <3>1, <3>2, HooksQuiet
  <2>5. ASSUME NEW u \in Users \cup {None}, ChangeSeat(u) PROVE HooksHold'
    <3>1. Idle /\ UNCHANGED <<clients, unused, hooks>> /\ UNCHANGED ledger
      BY <2>5 DEF ChangeSeat
    <3> QED
      BY <1>4, <1>7, <3>1
  <2>6. ASSUME FencePermissions PROVE HooksHold'
    <3>1. Idle /\ UNCHANGED <<clients, unused, hooks>> /\ UNCHANGED ledger
      BY <2>6 DEF FencePermissions
    <3> QED
      BY <1>4, <1>7, <3>1
  <2>7. ASSUME Panic \/ Grab PROVE HooksHold'
    <3>1. Idle /\ UNCHANGED <<clients, unused, hooks>> /\ UNCHANGED ledger
      BY <2>7 DEF Panic, Grab
    <3> QED
      BY <1>4, <1>7, <3>1
  <2>8. ASSUME Recreate PROVE HooksHold'
    <3>1. Idle /\ UNCHANGED <<clients, unused, hooks>>
      BY <2>8 DEF Recreate, main
    <3> QED
      BY <1>4, <1>5, <2>8, <3>1, RecreateDoes
  <2>9. ASSUME NEW c \in Conns, NEW key \in Keys, SendNested(c, key) PROVE HooksHold'
    <3>1. Idle /\ UNCHANGED <<clients, unused, hooks>> /\ UNCHANGED ledger
      BY <2>9 DEF SendNested, main
    <3> QED
      BY <1>4, <1>7, <3>1
  <2>10. ASSUME NEW c \in Conns, NEW key \in Keys, NEW press \in BOOLEAN, Send(c, key, press)
         PROVE HooksHold'
    <3>1. Idle /\ UNCHANGED <<clients, unused, hooks>>
      BY <2>10 DEF Send, main
    <3> QED
      BY <1>4, <1>6, <1>9, <2>10, <3>1, SendDoes
  <2>11. ASSUME NEW key \in Keys, Physical(key) PROVE HooksHold'
    <3>1. Idle /\ UNCHANGED <<clients, unused, hooks>>
      BY <2>11 DEF Physical, main
    <3> QED
      BY <1>4, <1>5, <2>11, <3>1, PhysicalDoes
  <2> QED
    BY <1>10, <2>1, <2>2, <2>3, <2>4, <2>5, <2>6, <2>7, <2>8, <2>9, <2>10, <2>11 DEF Request
<1>11. ASSUME MainStep PROVE HooksHold'
  <2>1. ASSUME SyncOwners \/ WaitForInflight \/ DiscardStale \/ Flush PROVE HooksHold'
    <3>1. UNCHANGED <<clients, unused, hooks, owned, seat>> /\ enqueued' = enqueued
      BY <2>1 DEF SyncOwners, WaitForInflight, DiscardStale, Flush, ledger
    <3>2. PICK op : NextStep(op) /\ op \notin {"release", "class"}
      BY <2>1 DEF SyncOwners, WaitForInflight, DiscardStale, Flush
    <3> QED
      BY <1>3, <3>1, <3>2
  <2>2. ASSUME UpdateGrab PROVE HooksHold'
    <3>1. UNCHANGED <<clients, unused, hooks, owned, seat>> /\ NextStep("grab")
      BY <2>2 DEF UpdateGrab
    <3>2. \A h \in enqueued'.held : h \in enqueued.held
      BY <2>2, GrabDoes DEF ledger
    <3> QED
      BY <1>3, <3>1, <3>2
  <2>3. ASSUME ReleaseClass PROVE HooksHold'
    <3>1. UNCHANGED <<clients, unused, hooks, seat>> /\ NextStep("class")
      BY <2>3 DEF ReleaseClass
    <3>2. CASE UNCHANGED <<ledger, refused>> /\ ~(Active = {} /\ owned)
      <4>1. \A c : Releasing(c)' <=> Releasing(c)
        BY <1>0, <3>1, Advance
      <4>2. \A c \in clients' \ hooks' : Ending(c)' \/ (c \in clients \ hooks /\ ~Ending(c))
        BY <3>1, <3>2, <4>1 DEF Ending, ClassEnds
      <4>3. UNCHANGED ledger
        BY <3>2
      <4> QED
        BY <1>1, <1>7, <3>1, <4>2, <4>3, HooksQuiet
    <3>3. CASE Released(None, TRUE)
      <4>1. refused' \/ \A h \in enqueued'.held : ~h[1].hook
        BY <3>3 DEF Released, Ours
      <4> QED
        BY <4>1 DEF HooksHold
    <3> QED
      BY <2>3, <3>2, <3>3, ClassDoes
  <2>4. ASSUME ReleaseHook PROVE HooksHold'
    <3>1. /\ UNCHANGED <<clients, unused, hooks>>
          /\ todo # <<>> /\ Head(todo).op = "release" /\ Released(Head(todo).conn, Head(todo).hook)
      BY <1>0, <2>4, HookDoes DEF ReleaseHook
    <3>2. \A c : Ending(c) <=> c = Head(todo).conn
      BY <1>0, <3>1, Alone DEF LastOps, Ending, ClassEnds
    <3> SUFFICES ASSUME ~refused', NEW h \in enqueued'.held, h[1].hook
                 PROVE  h[1].conn \notin unused' /\ h[1].conn \notin clients' \ hooks'
      BY DEF HooksHold
    <3>4. h \in enqueued.held /\ ~Ours(h[1], Head(todo).conn, Head(todo).hook) /\ ~refused
      BY <3>1 DEF Released
    <3>5. h[1].conn # Head(todo).conn
      BY <3>4 DEF Ours
    <3> QED
      BY <3>1, <3>2, <3>4, <3>5 DEF HooksHold, Ending
  <2>5. ASSUME PushMarker PROVE HooksHold'
    <3>1. UNCHANGED <<clients, unused, hooks>> /\ todo # <<>> /\ Head(todo).op = "marker"
      BY <2>5 DEF PushMarker
    <3>2. \A c : ~Ending(c)
      BY <1>0, <3>1, Alone DEF LastOps, Ending, ClassEnds
    <3>3. \A h \in enqueued'.held : h[1].hook => h \in enqueued.held
      <4>1. CASE UNCHANGED <<ledger, refused, overtaken>>
        BY <4>1 DEF ledger
      <4> QED
        BY <1>0, <1>5, <1>8, <2>5, <4>1, MarkerDoes
    <3> QED
      BY <1>1, <3>1, <3>2, <3>3, HooksQuiet
  <2>6. ASSUME ReleaseGeneric PROVE HooksHold'
    <3>1. UNCHANGED <<clients, unused, hooks, owned, seat>> /\ NextStep("generic")
      BY <2>6 DEF ReleaseGeneric
    <3> QED
      BY <1>3, <1>5, <2>6, <3>1, GenericDoes
  <2>7. ASSUME PushReleaseAll PROVE HooksHold'
    <3>1. UNCHANGED <<clients, unused, hooks, owned, seat>> /\ NextStep("all")
      BY <2>7 DEF PushReleaseAll
    <3> QED
      BY <1>3, <1>5, <2>7, <3>1, AllDoes DEF Wiped
  <2>8. ASSUME TakeSeat PROVE HooksHold'
    <3>1. UNCHANGED <<clients, unused, hooks>> /\ todo # <<>> /\ Head(todo).op = "seat" /\ UNCHANGED ledger
      BY <2>8 DEF TakeSeat
    <3>2. \A c : ~Ending(c)
      BY <1>0, <3>1, Alone DEF LastOps, Ending, ClassEnds
    <3> QED
      BY <1>1, <1>7, <3>1, <3>2, HooksQuiet
  <2> QED
    BY <1>11, <2>1, <2>2, <2>3, <2>4, <2>5, <2>6, <2>7, <2>8 DEF MainStep
<1>12. ASSUME FailOpen PROVE HooksHold'
  <2>1. /\ Idle /\ hooks' = {} /\ todo' = <<Step("flush")>> \o UpdateGrabs
        /\ UNCHANGED <<clients, unused, owned, seat, enqueued, refused>>
    BY <1>12 DEF FailOpen, ledger
  <2>2. Has("class")'
    <3>1. PICK I : I = {"flush", "sync", "grab", "class"}
      OBVIOUS
    <3>2. Listed(todo', I) /\ "class" \in I
      BY <2>1, <3>1, FailOpenList
    <3> QED
      BY <3>2, Started DEF Ops
  <2>3. Active' = {}
    BY <2>1 DEF Active
  <2> SUFFICES ASSUME ~refused', NEW h \in enqueued'.held, h[1].hook
               PROVE  /\ h[1].conn \notin unused'
                      /\ h[1].conn \in clients' \ hooks' => ClassEnds'
    BY DEF HooksHold
  <2>4. h \in enqueued.held /\ ~refused /\ h[1].conn \in Conns
    BY <2>1 DEF HeldConns
  <2>5. h[1].conn \notin unused /\ h[1].conn \notin clients \ hooks
    BY <2>1, <2>4, IdleEnding DEF HooksHold, Ending
  <2>6. User[h[1].conn] = seat
    BY <2>1, <2>4, IdleHas DEF HoldsOwn, Between
  <2>7. h[1].conn \in clients => owned
    BY <2>1, <2>4, <2>5, <2>6, IdleMain
  <2> QED
    BY <2>1, <2>2, <2>3, <2>5, <2>7 DEF ClassEnds
<1>13. ASSUME Ingress PROVE HooksHold'
  <2>1. Idle /\ UNCHANGED <<clients, unused, hooks>>
    BY <1>13 DEF Ingress
  <2>2. ASSUME Head(synthq) \in Sent(gen, seat) PROVE ~Head(synthq).owner.hook
    <3>1. PICK c \in Conns : Head(synthq).owner = Sender(c)
      BY <2>2 DEF Sent
    <3> QED
      BY <3>1, OwnerShape
  <2>3. \A h \in enqueued'.held : h[1].hook => h \in enqueued.held
    BY <1>5, <1>6, <1>8, <1>13, <2>2, IngressDoes
  <2> QED
    BY <1>4, <2>1, <2>3
<1>14. ASSUME LaneStep PROVE HooksHold'
  <2>0. UNCHANGED <<clients, unused, hooks, owned, seat, todo>>
    BY <1>14 DEF LaneStep, Decide, EmitModify, EmitEgress, EmitCleanup, RunNested, FinishNested, main
  <2>1. ASSUME Decide PROVE HooksHold'
    <3>1. UNCHANGED ledger
      BY <2>1 DEF Decide
    <3> QED
      BY <1>2, <1>7, <2>0, <3>1
  <2>2. ASSUME EmitModify PROVE HooksHold'
    <3>1. PICK o \in Owners : o.hook /\ o.conn \in Conns /\ Adds(o) /\ (owners[o.conn] # "hooked" => Shrinks)
      BY <2>2, ModifyDoes
    <3>2. CASE Shrinks
      BY <1>2, <1>5, <2>0, <3>2
    <3>3. CASE ~Shrinks
      <4> SUFFICES ASSUME ~refused', NEW h \in enqueued'.held, h[1].hook
                   PROVE  /\ h[1].conn \notin unused'
                          /\ h[1].conn \in clients' \ hooks' => Ending(h[1].conn)'
        BY DEF HooksHold, Ending
      <4>1. \A c : Ending(c)' <=> Ending(c)
        BY <2>0, SameEnding
      <4>2. CASE h \in enqueued.held
        BY <1>1, <2>0, <4>1, <4>2 DEF HooksHold, Ending
      <4>3. CASE h \notin enqueued.held
        <5>1. h[1] = o /\ User[o.conn] = seat /\ owners[o.conn] = "hooked"
          BY <3>1, <3>3, <4>3 DEF Adds
        <5>2. o.conn \notin unused /\ (o.conn \in clients \ hooks => Ending(o.conn))
          BY <1>0, <3>1, <5>1 DEF OwnersFollow, RevokedEnds, Ending
        <5> QED
          BY <2>0, <4>1, <5>1, <5>2
      <4> QED
        BY <4>2, <4>3
    <3> QED
      BY <3>2, <3>3
  <2>3. ASSUME EmitEgress PROVE HooksHold'
    <3>1. ASSUME Head(lane).action \in Sent(gen, seat) PROVE ~Head(lane).action.owner.hook
      <4>1. PICK c \in Conns : Head(lane).action.owner = Sender(c)
        BY <3>1 DEF Sent
      <4> QED
        BY <4>1, OwnerShape
    <3> QED
      BY <1>2, <1>5, <1>6, <2>0, <2>3, <3>1, EgressDoes
  <2>4. ASSUME EmitCleanup PROVE HooksHold'
    BY <1>2, <1>5, <2>0, <2>4, CleanupDoes
  <2>5. ASSUME RunNested PROVE HooksHold'
    BY <1>2, <1>6, <1>9, <2>0, <2>5, RunNestedDoes
  <2>6. ASSUME FinishNested PROVE HooksHold'
    <3>1. CASE UNCHANGED <<ledger, refused>>
      BY <1>2, <1>7, <2>0, <3>1
    <3> QED
      BY <1>2, <1>5, <1>8, <2>0, <2>6, <3>1, FinishNestedDoes
  <2> QED
    BY <1>14, <2>1, <2>2, <2>3, <2>4, <2>5, <2>6 DEF LaneStep
<1>15. ASSUME SequencerStep PROVE HooksHold'
  <2>1. UNCHANGED <<clients, unused, hooks, owned, seat, todo>> /\ enqueued' = enqueued
    BY <1>15 DEF SequencerStep, Pop, BeginWrite, EndWrite, main, ledger
  <2> QED
    BY <1>2, <2>1
<1> QED
  BY <1>10, <1>11, <1>12, <1>13, <1>14, <1>15 DEF Next

-----------------------------------------------------------------------------
(* Closed connections                                                      *)

\* The marker of c is in q behind position i.
Marked(q, c, i) == \E j \in 1..Len(q) : j > i /\ q[j] = Marker(c)

\* Every batch of c in q and in the lane l has the marker of c behind it.
Covered(c, q, l) ==
  /\ \A i \in 1..Len(q) : q[i].type = "synth" /\ q[i].owner.conn = c => Marked(q, c, i)
  /\ \A i \in 1..Len(l) : l[i].action.owner.conn = c => Marked(q, c, 0)

\* BatchesMarked, in these terms, before and after a step.
LEMMA CoveredIs ==
  /\ BatchesMarked <=> \A c \in Closed \ overtaken : Closing(c) \/ Covered(c, synthq, lane)
  /\ BatchesMarked' <=> \A c \in Closed' \ overtaken' : Closing(c)' \/ Covered(c, synthq', lane')
  /\ \A c, i : (MarkedAfter(c, i) <=> Marked(synthq, c, i)) /\ (MarkedAfter(c, i)' <=> Marked(synthq', c, i))
  BY DEF BatchesMarked, Covered, MarkedAfter, Marked

\* Appending keeps every marker behind what it was behind, and puts a new one behind everything.
LEMMA MarkAppend ==
  ASSUME NEW S, NEW q \in Seq(S), NEW b \in S, NEW c
  PROVE  /\ \A i : Marked(q, c, i) => Marked(Append(q, b), c, i)
         /\ b = Marker(c) => \A i \in 0..Len(q) : Marked(Append(q, b), c, i)
<1>0. Len(q) \in Nat
  OBVIOUS
<1>1. PICK n \in Nat : n = Len(q)
  BY <1>0
<1>2. PICK r : r = Append(q, b)
  OBVIOUS
<1>3. /\ r[n + 1] = b /\ n + 1 \in 1..Len(r)
      /\ \A i \in 1..n : i \in 1..Len(r) /\ r[i] = q[i]
  BY <1>1, <1>2, AppendFacts
<1>4. \A i : Marked(q, c, i) => Marked(r, c, i)
  BY <1>1, <1>3 DEF Marked
<1>5. ASSUME b = Marker(c), NEW i \in 0..n PROVE Marked(r, c, i)
  <2>1. n + 1 > i
    OBVIOUS
  <2> QED
    BY <1>3, <1>5, <2>1 DEF Marked
<1> QED
  BY <1>1, <1>2, <1>4, <1>5

\* Taking the head keeps every marker but the head.
LEMMA MarkTail ==
  ASSUME NEW S, NEW q \in Seq(S), q # <<>>, NEW c
  PROVE  /\ \A i \in Nat : Marked(q, c, i + 1) => Marked(Tail(q), c, i)
         /\ Marked(q, c, 0) /\ Head(q) # Marker(c) => Marked(Tail(q), c, 0)
<1>1. PICK r : r = Tail(q)
  OBVIOUS
<1>2. /\ Head(q) = q[1] /\ Len(q) \in Nat
      /\ \A i \in 1..Len(q) : i # 1 => i - 1 \in 1..Len(r) /\ r[i - 1] = q[i]
  BY <1>1, TailFacts
<1>3. ASSUME NEW i \in Nat, NEW j \in 1..Len(q), j > i, j # 1, q[j] = Marker(c), j - 1 > i \/ i = 0
      PROVE  Marked(r, c, i)
  <2>1. j - 1 \in 1..Len(r) /\ r[j - 1] = Marker(c) /\ j - 1 > i
    BY <1>2, <1>3
  <2> QED
    BY <2>1 DEF Marked
<1>4. ASSUME NEW i \in Nat, Marked(q, c, i + 1) PROVE Marked(r, c, i)
  <2>1. PICK j \in 1..Len(q) : j > i + 1 /\ q[j] = Marker(c)
    BY <1>4 DEF Marked
  <2>2. j > i /\ j # 1 /\ j - 1 > i
    BY <1>2, <2>1
  <2> QED
    BY <1>3, <2>1, <2>2
<1>5. ASSUME Marked(q, c, 0), Head(q) # Marker(c) PROVE Marked(r, c, 0)
  <2>1. PICK j \in 1..Len(q) : j > 0 /\ q[j] = Marker(c)
    BY <1>5 DEF Marked
  <2>2. j # 1 /\ 0 \in Nat
    BY <1>2, <1>5, <2>1
  <2> QED
    BY <1>3, <2>1, <2>2
<1> QED
  BY <1>1, <1>4, <1>5

\* A batch of another connection, or a marker, leaves c covered.
LEMMA CoveredAppend ==
  ASSUME NEW S, NEW q \in Seq(S), NEW b \in S, NEW c, NEW l, Covered(c, q, l),
         ~(b.type = "synth" /\ b.owner.conn = c)
  PROVE  Covered(c, Append(q, b), l)
<1>1. PICK n \in Nat : n = Len(q)
  OBVIOUS
<1>2. PICK r : r = Append(q, b)
  OBVIOUS
<1>3. /\ r[n + 1] = b
      /\ \A i \in 1..n : r[i] = q[i]
      /\ \A i \in 1..Len(r) : i \in 1..n \/ i = n + 1
  BY <1>1, <1>2, AppendFacts
<1>4. \A i : Marked(q, c, i) => Marked(r, c, i)
  BY <1>2, MarkAppend
<1>5. Covered(c, r, l)
  BY <1>1, <1>3, <1>4 DEF Covered
<1> QED
  BY <1>2, <1>5

\* A marker behind everything covers everything.
LEMMA CoveredMarked ==
  ASSUME NEW S, NEW q \in Seq(S), NEW c, NEW l, Marker(c) \in S
  PROVE  Covered(c, Append(q, Marker(c)), l)
<1>0. Len(q) \in Nat
  OBVIOUS
<1>1. PICK n \in Nat : n = Len(q)
  BY <1>0
<1>2. PICK b \in S : b = Marker(c)
  OBVIOUS
<1>3. PICK r : r = Append(q, b)
  OBVIOUS
<1>4. /\ r[n + 1] = b
      /\ \A i \in 1..Len(r) : i \in 1..n \/ i = n + 1
  BY <1>1, <1>3, AppendFacts
<1>5. \A i \in 0..n : Marked(r, c, i)
  BY <1>1, <1>2, <1>3, MarkAppend
<1>6. b.type = "marker"
  BY <1>2, MarkerShape
<1>7. 0 \in 0..n /\ \A i \in 1..n : i \in 0..n
  OBVIOUS
<1>8. Covered(c, r, l)
  BY <1>4, <1>5, <1>6, <1>7 DEF Covered
<1> QED
  BY <1>2, <1>3, <1>8

\* Taking the head leaves what is behind it covered, and the head itself if it was a batch.
LEMMA CoveredTail ==
  ASSUME NEW S, NEW q \in Seq(S), q # <<>>, NEW c, NEW l, Covered(c, q, l)
  PROVE  /\ \A i \in 1..Len(Tail(q)) : Tail(q)[i].type = "synth" /\ Tail(q)[i].owner.conn = c =>
              Marked(Tail(q), c, i)
         /\ Head(q).type = "synth" /\ Head(q).owner.conn = c => Marked(Tail(q), c, 0)
<1>1. PICK r : r = Tail(q)
  OBVIOUS
<1>2. /\ Head(q) = q[1] /\ 1 \in 1..Len(q)
      /\ \A i \in 1..Len(r) : i + 1 \in 1..Len(q) /\ r[i] = q[i + 1]
  BY <1>1, TailFacts
<1>3. \A i \in Nat : Marked(q, c, i + 1) => Marked(r, c, i)
  BY <1>1, MarkTail
<1>4. \A i \in 1..Len(r) : r[i].type = "synth" /\ r[i].owner.conn = c => Marked(r, c, i)
  BY <1>2, <1>3 DEF Covered
<1>5. Head(q).type = "synth" /\ Head(q).owner.conn = c => Marked(r, c, 0)
  <2>1. Marked(q, c, 0 + 1) => Marked(r, c, 0)
    BY <1>3
  <2> QED
    BY <1>2, <2>1 DEF Covered
<1> QED
  BY <1>1, <1>4, <1>5

ClosedInv == BatchesMarked /\ ClosedEnds

\* What covers a hold of a closed connection, in the state the step starts from.
HoldsKept ==
  \A h \in enqueued'.held : ~refused' /\ h[1].conn \in Closed \ overtaken =>
    \/ h \in enqueued.held /\ ~(nested.conn = h[1].conn /\ nested.stage = "ran")
    \/ Closing(h[1].conn) \/ Marked(synthq, h[1].conn, 0)
    \/ nested'.conn = h[1].conn /\ nested'.stage = "ran"

\* A step other than a marker's keeps the closed connections' part.
LEMMA ClosedQuiet ==
  ASSUME TypeOK, ClosedInv, refused => refused', UNCHANGED overtaken, HoldsKept,
         \A c \in Closed' : (c \in Closed /\ (Closing(c) => Closing(c)')) \/ Closing(c)',
         \/ synthq' = synthq
         \/ \E b \in Sent(gen, seat) : synthq' = Append(synthq, b) /\ b.owner.conn \notin Closed',
         \A i \in 1..Len(lane') :
           \/ lane'[i].action.owner.conn \notin Closed'
           \/ \E j \in 1..Len(lane) : lane[j].action.owner.conn = lane'[i].action.owner.conn
  PROVE  ClosedInv'
<1>1. BatchesMarked /\ ClosedEnds
  BY DEF ClosedInv
<1>2. PICK S : S = Sent(gen, seat) \cup Markers
  OBVIOUS
<1>3. synthq \in Seq(S)
  BY <1>2 DEF TypeOK
<1>4. \A c, i : Marked(synthq, c, i) => Marked(synthq', c, i)
  <2>1. ASSUME NEW b \in Sent(gen, seat), synthq' = Append(synthq, b), NEW c
        PROVE  \A i : Marked(synthq, c, i) => Marked(synthq', c, i)
    <3>1. b \in S
      BY <1>2
    <3> QED
      BY <1>3, <2>1, <3>1, MarkAppend
  <2> QED
    BY <2>1
<1>5. ASSUME NEW c \in Closed', Covered(c, synthq, lane) PROVE Covered(c, synthq', lane')
  <2>1. Covered(c, synthq', lane)
    <3>1. ASSUME NEW b \in Sent(gen, seat), synthq' = Append(synthq, b), b.owner.conn \notin Closed'
          PROVE  Covered(c, synthq', lane)
      <4>1. b \in S /\ b.owner.conn # c
        BY <1>2, <3>1
      <4> QED
        BY <1>3, <1>5, <3>1, <4>1, CoveredAppend
    <3> QED
      BY <1>5, <3>1
  <2> QED
    BY <2>1 DEF Covered
<1>6. BatchesMarked'
  <2> SUFFICES ASSUME NEW c \in Closed' \ overtaken', ~Closing(c)' PROVE Covered(c, synthq', lane')
    BY CoveredIs
  <2>1. c \in Closed \ overtaken /\ ~Closing(c)
    OBVIOUS
  <2> QED
    BY <1>1, <1>5, <2>1, CoveredIs
<1>7. ClosedEnds'
  <2> SUFFICES ASSUME ~refused', NEW h \in enqueued'.held, h[1].conn \in Closed' \ overtaken', ~Closing(h[1].conn)'
               PROVE  Marked(synthq', h[1].conn, 0) \/ (nested'.conn = h[1].conn /\ nested'.stage = "ran")
    BY CoveredIs DEF ClosedEnds
  <2>1. h[1].conn \in Closed \ overtaken /\ ~Closing(h[1].conn)
    OBVIOUS
  <2>2. CASE h \in enqueued.held /\ ~(nested.conn = h[1].conn /\ nested.stage = "ran")
    <3>1. MarkedAfter(h[1].conn, 0)
      BY <1>1, <2>1, <2>2 DEF ClosedEnds
    <3> QED
      BY <1>4, <3>1, CoveredIs
  <2> QED
    BY <1>4, <2>1, <2>2 DEF HoldsKept
<1> QED
  BY <1>6, <1>7 DEF ClosedInv

\* A marker anywhere in the queue is behind its start.
LEMMA MarkedItems ==
  ASSUME NEW S, NEW q \in Seq(S), NEW c
  PROVE  Marked(q, c, 0) <=> Marker(c) \in Items(q)
<1>1. \A j \in 1..Len(q) : j > 0
  OBVIOUS
<1> QED
  BY <1>1 DEF Marked, Items

\* A marker names its connection.
LEMMA MarkersDiffer == ASSUME NEW c, NEW d, Marker(c) = Marker(d) PROVE c = d
<1>1. Marker(c).owner.conn = c /\ Marker(d).owner.conn = d
  BY MarkerShape
<1> QED
  BY <1>1

\* The synthetic queue's head leaves it: a batch for the lane or the ledger, a
\* marker for the release it stands for.
LEMMA IngressClosed ==
  ASSUME TypeOK, ClosedInv, refused => refused', Ingress
  PROVE  ClosedInv'
<1>1. BatchesMarked /\ ClosedEnds
  BY DEF ClosedInv
<1>2. /\ Idle /\ synthq # <<>> /\ lane = <<>> /\ synthq' = Tail(synthq)
      /\ UNCHANGED <<clients, unused, overtaken, nested>>
  BY IngressDoes DEF Ingress
<1>3. Closed' = Closed /\ \A c : ~Closing(c)
  BY <1>2, IdleHas DEF Closed
<1>4. PICK S : S = Sent(gen, seat) \cup Markers
  OBVIOUS
<1>5. synthq \in Seq(S)
  BY <1>4 DEF TypeOK
<1>6. \A c \in Closed \ overtaken : Covered(c, synthq, lane)
  BY <1>1, <1>3, CoveredIs
<1>7. \A c \in Closed \ overtaken :
        /\ \A i \in 1..Len(synthq') : synthq'[i].type = "synth" /\ synthq'[i].owner.conn = c =>
             Marked(synthq', c, i)
        /\ Head(synthq).type = "synth" /\ Head(synthq).owner.conn = c => Marked(synthq', c, 0)
  <2>1. ASSUME NEW c \in Closed \ overtaken
        PROVE  /\ \A i \in 1..Len(Tail(synthq)) :
                    Tail(synthq)[i].type = "synth" /\ Tail(synthq)[i].owner.conn = c =>
                      Marked(Tail(synthq), c, i)
               /\ Head(synthq).type = "synth" /\ Head(synthq).owner.conn = c => Marked(Tail(synthq), c, 0)
    BY <1>2, <1>5, <1>6, CoveredTail
  <2> QED
    BY <1>2, <2>1
<1>8. \A c : Marked(synthq, c, 0) /\ Head(synthq) # Marker(c) => Marked(synthq', c, 0)
  BY <1>2, <1>5, MarkTail
<1>9. ASSUME NEW h \in enqueued.held, ~refused, h[1].conn \in Closed \ overtaken
      PROVE  Marked(synthq, h[1].conn, 0) \/ (nested'.conn = h[1].conn /\ nested'.stage = "ran")
  BY <1>1, <1>2, <1>3, <1>9, CoveredIs DEF ClosedEnds
<1>10. CASE \E m \in Conns : /\ Head(synthq) = Marker(m) /\ Released(m, FALSE)
                             /\ UNCHANGED lane
  <2>1. PICK m \in Conns : Head(synthq) = Marker(m) /\ Released(m, FALSE) /\ lane' = lane
    BY <1>10
  <2>2. Len(lane') = 0
    BY <1>2, <2>1
  <2>3. \A c \in Closed \ overtaken : Covered(c, synthq', lane')
    BY <1>7, <2>2 DEF Covered
  <2>4. BatchesMarked'
    BY <1>2, <1>3, <2>3, CoveredIs
  <2>5. ClosedEnds'
    <3> SUFFICES ASSUME ~refused', NEW h \in enqueued'.held, h[1].conn \in Closed' \ overtaken'
                 PROVE  Marked(synthq', h[1].conn, 0) \/ (nested'.conn = h[1].conn /\ nested'.stage = "ran")
      BY CoveredIs DEF ClosedEnds
    <3>1. h \in enqueued.held /\ h[1].conn # m /\ ~refused
      BY <2>1 DEF Released, Ours
    <3>2. Head(synthq) # Marker(h[1].conn)
      BY <2>1, <3>1, MarkersDiffer
    <3> QED
      BY <1>2, <1>3, <1>8, <1>9, <3>1, <3>2
  <2> QED
    BY <2>4, <2>5 DEF ClosedInv
<1>11. CASE /\ Head(synthq) \in Sent(gen, seat) /\ Adds(Head(synthq).owner)
            /\ \/ UNCHANGED lane
               \/ lane' = Append(lane, LaneEvent("synthetic", Head(synthq), Active))
  <2>1. Head(synthq).type = "synth"
    BY <1>11 DEF Sent
  <2>2. \A i \in 1..Len(lane') : lane'[i].action = Head(synthq)
    <3>1. CASE UNCHANGED lane
      BY <1>2, <3>1
    <3>2. CASE lane' = Append(lane, LaneEvent("synthetic", Head(synthq), Active))
      <4>1. PICK e : e = LaneEvent("synthetic", Head(synthq), Active)
        OBVIOUS
      <4>2. e.action = Head(synthq)
        BY <1>11, <4>1, EventsIn
      <4>3. lane' = <<e>>
        BY <1>2, <3>2, <4>1
      <4> QED
        BY <4>2, <4>3
    <3> QED
      BY <1>11, <3>1, <3>2
  <2>3. \A c \in Closed \ overtaken : Covered(c, synthq', lane')
    BY <1>7, <2>1, <2>2 DEF Covered
  <2>4. BatchesMarked'
    BY <1>2, <1>3, <2>3, CoveredIs
  <2>5. ClosedEnds'
    <3> SUFFICES ASSUME ~refused', NEW h \in enqueued'.held, h[1].conn \in Closed' \ overtaken'
                 PROVE  Marked(synthq', h[1].conn, 0) \/ (nested'.conn = h[1].conn /\ nested'.stage = "ran")
      BY CoveredIs DEF ClosedEnds
    <3>1. CASE h \in enqueued.held
      <4>1. Head(synthq) # Marker(h[1].conn)
        BY <2>1, MarkerShape
      <4> QED
        BY <1>2, <1>3, <1>8, <1>9, <3>1, <4>1
    <3>2. CASE h[1] = Head(synthq).owner
      BY <1>2, <1>3, <1>7, <2>1, <3>2
    <3> QED
      BY <1>11, <3>1, <3>2 DEF Adds
  <2> QED
    BY <2>4, <2>5 DEF ClosedInv
<1> QED
  BY <1>10, <1>11, IngressDoes

\* The marker is queued, or the connection is released ahead of its batches.
LEMMA MarkerClosed ==
  ASSUME TypeOK, TodoOrder, ClosedInv, refused => refused', PushMarker
  PROVE  ClosedInv'
<1>1. BatchesMarked /\ ClosedEnds
  BY DEF ClosedInv
<1>2. PICK m : m = Head(todo).conn
  OBVIOUS
<1>3. /\ todo # <<>> /\ Head(todo).op = "marker" /\ m \in Conns
      /\ UNCHANGED <<clients, unused, lane, nested>>
  BY <1>2, MarkerDoes DEF PushMarker
<1>4. Closed' = Closed /\ \A c : Closing(c) <=> c = m
  BY <1>2, <1>3, Alone DEF Closed, LastOps, TypeOK
<1>5. PICK S : S = Sent(gen, seat) \cup Markers
  OBVIOUS
<1>6. synthq \in Seq(S) /\ Marker(m) \in S
  BY <1>3, <1>5 DEF TypeOK, Markers
<1>7. \A c \in Closed \ overtaken : c # m => Covered(c, synthq, lane)
  BY <1>1, <1>4, CoveredIs
<1>8. ASSUME NEW h \in enqueued.held, ~refused, h[1].conn \in Closed \ overtaken, h[1].conn # m
      PROVE  Marked(synthq, h[1].conn, 0) \/ (nested'.conn = h[1].conn /\ nested'.stage = "ran")
  BY <1>1, <1>3, <1>4, <1>8, CoveredIs DEF ClosedEnds
<1>9. CASE synthq' = Append(synthq, Marker(m)) /\ UNCHANGED <<ledger, refused, overtaken>>
  <2>0. UNCHANGED <<enqueued, refused, overtaken>>
    BY <1>9 DEF ledger
  <2>1. Covered(m, synthq', lane)
    BY <1>6, <1>9, CoveredMarked
  <2>2. ASSUME NEW c \in Closed \ overtaken PROVE Covered(c, synthq', lane')
    <3>1. Marker(m).type # "synth"
      BY MarkerShape
    <3> QED
      BY <1>3, <1>6, <1>7, <1>9, <2>1, <3>1, CoveredAppend
  <2>3. BatchesMarked'
    BY <1>4, <2>0, <2>2, CoveredIs
  <2>4. ClosedEnds'
    <3> SUFFICES ASSUME ~refused', NEW h \in enqueued'.held, h[1].conn \in Closed' \ overtaken'
                 PROVE  Marked(synthq', h[1].conn, 0) \/ (nested'.conn = h[1].conn /\ nested'.stage = "ran")
      BY CoveredIs DEF ClosedEnds
    <3>1. 0 \in 0..Len(synthq)
      BY <1>6
    <3>2. Marked(synthq', m, 0)
      BY <1>6, <1>9, <3>1, MarkAppend
    <3>3. PICK c : c = h[1].conn
      OBVIOUS
    <3>4. Marked(synthq, c, 0) => Marked(synthq', c, 0)
      BY <1>6, <1>9, MarkAppend
    <3> QED
      BY <1>4, <1>8, <2>0, <3>2, <3>3, <3>4
  <2> QED
    BY <2>3, <2>4 DEF ClosedInv
<1>10. CASE /\ UNCHANGED synthq /\ Released(m, FALSE)
            /\ overtaken' = IF Waiting(m) THEN overtaken \cup {m} ELSE overtaken
  <2>1. ~Waiting(m) => Covered(m, synthq, lane)
    <3>1. DOMAIN synthq = 1..Len(synthq) /\ DOMAIN lane = 1..Len(lane)
      BY DEF TypeOK
    <3> QED
      BY <3>1 DEF Waiting, Covered
  <2>2. ASSUME NEW c \in Closed \ overtaken' PROVE Covered(c, synthq', lane')
    BY <1>3, <1>7, <1>10, <2>1
  <2>3. BatchesMarked'
    BY <1>4, <2>2, CoveredIs
  <2>4. ClosedEnds'
    <3> SUFFICES ASSUME ~refused', NEW h \in enqueued'.held, h[1].conn \in Closed' \ overtaken'
                 PROVE  Marked(synthq', h[1].conn, 0) \/ (nested'.conn = h[1].conn /\ nested'.stage = "ran")
      BY CoveredIs DEF ClosedEnds
    <3>1. h \in enqueued.held /\ h[1].conn # m /\ ~refused
      BY <1>10 DEF Released, Ours
    <3>2. h[1].conn \in Closed \ overtaken
      BY <1>4, <1>10
    <3> QED
      BY <1>8, <1>10, <3>1, <3>2
  <2> QED
    BY <2>3, <2>4 DEF ClosedInv
<1> QED
  BY <1>2, <1>9, <1>10, MarkerDoes

\* A flush cancels batches and keeps every marker.
LEMMA FlushClosed ==
  ASSUME TypeOK, TodoOrder, ClosedInv, Flush
  PROVE  ClosedInv'
<1>1. BatchesMarked /\ ClosedEnds
  BY DEF ClosedInv
<1>2. /\ NextStep("flush") /\ UNCHANGED <<clients, unused, enqueued, refused, overtaken>>
  BY DEF Flush, ledger
<1>3. /\ Relabelled /\ nested' = Orphaned(nested)
      /\ synthq' \in Seq(Markers) /\ Items(synthq') = Items(synthq) \cap Markers
  BY FlushDoes
<1>4. nested'.conn = nested.conn /\ nested'.stage = nested.stage
  BY <1>3, OrphanShape DEF TypeOK
<1>5. Closed' = Closed /\ \A c : Closing(c)' <=> Closing(c)
  BY <1>2, Advance DEF Closed, TypeOK
<1>6. synthq \in Seq(Sent(gen, seat) \cup Markers)
  BY DEF TypeOK
<1>7. ASSUME NEW c \in Conns, Marked(synthq, c, 0) PROVE Marked(synthq', c, 0)
  <2>1. Marker(c) \in Items(synthq) /\ Marker(c) \in Markers
    BY <1>6, <1>7, MarkedItems DEF Markers
  <2>2. Marker(c) \in Items(synthq')
    BY <1>3, <2>1
  <2> QED
    BY <1>3, <2>2, MarkedItems
<1>8. \A i \in 1..Len(synthq') : synthq'[i].type # "synth"
  <2> SUFFICES ASSUME NEW i \in 1..Len(synthq') PROVE synthq'[i].type # "synth"
    OBVIOUS
  <2>1. PICK c \in Conns : synthq'[i] = Marker(c)
    BY <1>3 DEF Markers
  <2> QED
    BY <2>1, MarkerShape
<1>9. Closed \subseteq Conns
  BY DEF Closed
<1>10. ASSUME NEW c \in Closed, Covered(c, synthq, lane) PROVE Covered(c, synthq', lane')
  <2>1. \A i \in 1..Len(lane') : lane'[i].action.owner.conn = c => Marked(synthq', c, 0)
    BY <1>3, <1>7, <1>9, <1>10 DEF Covered, Relabelled
  <2> QED
    BY <1>8, <2>1 DEF Covered
<1>11. BatchesMarked'
  BY <1>1, <1>2, <1>5, <1>10, CoveredIs
<1>12. ClosedEnds'
  <2> SUFFICES ASSUME ~refused', NEW h \in enqueued'.held, h[1].conn \in Closed' \ overtaken', ~Closing(h[1].conn)'
               PROVE  Marked(synthq', h[1].conn, 0) \/ (nested'.conn = h[1].conn /\ nested'.stage = "ran")
    BY CoveredIs DEF ClosedEnds
  <2>1. h \in enqueued.held /\ ~refused /\ h[1].conn \in Closed \ overtaken /\ ~Closing(h[1].conn)
    BY <1>2, <1>5
  <2>2. MarkedAfter(h[1].conn, 0) \/ (nested.conn = h[1].conn /\ nested.stage = "ran")
    BY <1>1, <2>1 DEF ClosedEnds
  <2>3. MarkedAfter(h[1].conn, 0) => Marked(synthq, h[1].conn, 0)
    BY CoveredIs
  <2> QED
    BY <1>4, <1>7, <1>9, <2>1, <2>2, <2>3
<1> QED
  BY <1>11, <1>12 DEF ClosedInv

\* What a step other than a marker's leaves as ClosedQuiet needs it.
ClosingKept == \A c \in Closed' : (c \in Closed /\ (Closing(c) => Closing(c)')) \/ Closing(c)'
LaneKept ==
  \A i \in 1..Len(lane') :
    \/ lane'[i].action.owner.conn \notin Closed'
    \/ \E j \in 1..Len(lane) : lane[j].action.owner.conn = lane'[i].action.owner.conn

\* A lane that loses its head or is relabelled gets no new connection.
LEMMA LaneStays ==
  ASSUME TypeOK, UNCHANGED lane \/ (lane # <<>> /\ lane' = Tail(lane)) \/ Relabelled
  PROVE  LaneKept
<1>1. CASE UNCHANGED lane
  BY <1>1 DEF LaneKept
<1>2. CASE lane # <<>> /\ lane' = Tail(lane)
  <2>1. lane \in Seq(Events(gen, seat))
    BY DEF TypeOK
  <2>2. \A i \in 1..Len(lane') : i + 1 \in 1..Len(lane) /\ lane'[i] = lane[i + 1]
    BY <1>2, <2>1, TailFacts
  <2> QED
    BY <2>2 DEF LaneKept
<1>3. CASE Relabelled
  BY <1>3 DEF Relabelled, LaneKept
<1> QED
  BY <1>1, <1>2, <1>3

\* A marker still to come is not dropped.
LEMMA ClosingStays ==
  ASSUME todo \in Seq(StepType), TodoOrder, UNCHANGED <<clients, unused>>,
         UNCHANGED todo \/ Idle \/ \E op : NextStep(op) /\ op # "marker"
  PROVE  ClosingKept
<1>1. Closed' = Closed
  BY DEF Closed
<1>2. CASE UNCHANGED todo
  BY <1>1, <1>2 DEF ClosingKept, Closing
<1>3. CASE Idle
  BY <1>1, <1>3, IdleHas DEF ClosingKept
<1>4. CASE \E op : NextStep(op) /\ op # "marker"
  <2>1. PICK op : NextStep(op) /\ op # "marker"
    BY <1>4
  <2>2. \A c : Closing(c)' <=> Closing(c)
    BY <2>1, Advance
  <2> QED
    BY <1>1, <2>2 DEF ClosingKept
<1> QED
  BY <1>2, <1>3, <1>4

\* A step that adds no uncovered hold keeps what covers the others.
LEMMA HoldsStay ==
  ASSUME UNCHANGED nested \/ nested.stage # "ran",
         \A h \in enqueued'.held : h \in enqueued.held \/ h[1].conn \notin Closed \/ Closing(h[1].conn)
                                   \/ Marked(synthq, h[1].conn, 0)
  PROVE  HoldsKept
BY DEF HoldsKept

\* Every step keeps the closed connections' part: each of them has its marker to
\* come, queued behind its batches, or nothing left.
LEMMA ClosedKeep ==
  ASSUME TypeOK, MainInv, TargetsPast, ClosedInv, Next, todo' \in Seq(StepType)
  PROVE  ClosedInv'
<1>0. todo \in Seq(StepType) /\ TodoOrder /\ ClosedKnown
  BY DEF TypeOK, MainInv
<1>1. refused => refused'
  BY <1>0, FenceKeeps DEF FenceKept
<1>2. ASSUME UNCHANGED <<synthq, overtaken>>, ClosingKept, HoldsKept, LaneKept
      PROVE  ClosedInv'
  BY <1>1, <1>2, ClosedQuiet DEF ClosingKept, LaneKept
<1>3. ASSUME UNCHANGED <<clients, unused, synthq, overtaken, lane, nested>>,
             UNCHANGED todo \/ Idle \/ \E op : NextStep(op) /\ op # "marker",
             \A h \in enqueued'.held : h \in enqueued.held
      PROVE  ClosedInv'
  <2>1. ClosingKept
    BY <1>0, <1>3, ClosingStays
  <2>2. LaneKept
    BY <1>3, LaneStays
  <2>3. HoldsKept
    BY <1>3, HoldsStay
  <2> QED
    BY <1>2, <1>3, <2>1, <2>2, <2>3
<1>4. ASSUME Shrinks PROVE \A h \in enqueued'.held : h \in enqueued.held
  BY <1>4 DEF Shrinks
<1>5. ASSUME UNCHANGED ledger PROVE \A h \in enqueued'.held : h \in enqueued.held
  BY <1>5 DEF ledger
<1>6. ASSUME NEW c, NEW hook, Released(c, hook) PROVE \A h \in enqueued'.held : h \in enqueued.held
  BY <1>6 DEF Released, Shrinks
<1>7. ASSUME Request PROVE ClosedInv'
  <2>1. ASSUME NEW c \in Conns, Connect(c) PROVE ClosedInv'
    <3>1. /\ Idle /\ clients' = clients \cup {c} /\ unused' = unused \ {c}
          /\ UNCHANGED <<synthq, overtaken, lane, nested, ledger, todo>>
      BY <2>1 DEF Connect
    <3>2. Closed' \subseteq Closed
      BY <3>1 DEF Closed
    <3>3. ClosingKept
      BY <3>1, <3>2, IdleHas DEF ClosingKept
    <3>4. LaneKept /\ HoldsKept
      BY <1>5, <3>1, LaneStays, HoldsStay
    <3> QED
      BY <1>2, <3>1, <3>3, <3>4
  <2>2. ASSUME NEW c \in Conns, Subscribe(c) \/ Unsubscribe(c) \/ Quarantine(c) PROVE ClosedInv'
    <3>1. Idle /\ UNCHANGED <<clients, unused, synthq, overtaken, lane, nested>> /\ UNCHANGED ledger
      BY <2>2 DEF Subscribe, Unsubscribe, Quarantine
    <3> QED
      BY <1>3, <1>5, <3>1
  <2>3. ASSUME NEW c \in Conns, Disconnect(c) PROVE ClosedInv'
    <3>1. /\ Idle /\ clients' = clients \ {c} /\ UNCHANGED <<unused, synthq, overtaken, lane, nested, ledger>>
          /\ todo' = UpdateGrabs \o <<MarkerStep(c)>>
      BY <2>3 DEF Disconnect
    <3>2. Closing(c)'
      BY <3>1, DisconnectList, Started
    <3>3. ClosingKept
      BY <3>1, <3>2, IdleHas DEF ClosingKept, Closed
    <3>4. LaneKept /\ HoldsKept
      BY <1>5, <3>1, LaneStays, HoldsStay
    <3> QED
      BY <1>2, <3>1, <3>3, <3>4
  <2>4. ASSUME (\E u \in Users \cup {None} : ChangeSeat(u)) \/ FencePermissions \/ Panic \/ Grab
        PROVE  ClosedInv'
    <3>1. Idle /\ UNCHANGED <<clients, unused, synthq, overtaken, lane, nested>> /\ UNCHANGED ledger
      BY <2>4 DEF ChangeSeat, FencePermissions, Panic, Grab
    <3> QED
      BY <1>3, <1>5, <3>1
  <2>5. ASSUME Recreate PROVE ClosedInv'
    <3>1. Idle /\ UNCHANGED <<clients, unused, synthq, overtaken, lane, nested>>
      BY <2>5 DEF Recreate, main
    <3> QED
      BY <1>3, <1>4, <2>5, <3>1, RecreateDoes
  <2>6. ASSUME NEW c \in Conns, NEW key \in Keys, SendNested(c, key) PROVE ClosedInv'
    <3>1. /\ Idle /\ nested = NoNested /\ UNCHANGED <<clients, unused, synthq, overtaken, lane, todo>>
          /\ UNCHANGED ledger
      BY <2>6 DEF SendNested, main
    <3>2. nested.stage # "ran"
      BY <3>1 DEF NoNested
    <3>3. ClosingKept
      BY <1>0, <3>1, ClosingStays
    <3>4. LaneKept /\ HoldsKept
      BY <1>5, <3>1, <3>2, LaneStays, HoldsStay
    <3> QED
      BY <1>2, <3>1, <3>3, <3>4
  <2>7. ASSUME NEW c \in Conns, NEW key \in Keys, NEW press \in BOOLEAN, Send(c, key, press)
        PROVE  ClosedInv'
    <3>1. Idle /\ UNCHANGED <<clients, unused, overtaken, lane, nested, todo>>
      BY <2>7 DEF Send, main
    <3>2. c \in clients /\ Adds(Sender(c))
      BY <2>7, SendDoes
    <3>3. PICK a \in Sent(gen, seat) : a.owner = Sender(c) /\ (UNCHANGED synthq \/ synthq' = Append(synthq, a))
      BY <2>7, SendDoes
    <3>4. a.owner.conn = c /\ Sender(c).conn = c
      BY <3>3, OwnerShape
    <3>5. c \notin Closed /\ c \notin Closed'
      BY <3>1, <3>2 DEF Closed
    <3>6. ClosingKept
      BY <1>0, <3>1, ClosingStays
    <3>7. LaneKept
      BY <3>1, LaneStays
    <3>8. \A h \in enqueued'.held : h \in enqueued.held \/ h[1].conn \notin Closed
      BY <3>2, <3>4, <3>5 DEF Adds
    <3>9. HoldsKept
      BY <3>1, <3>8, HoldsStay
    <3> QED
      BY <1>1, <3>1, <3>3, <3>4, <3>5, <3>6, <3>7, <3>9, ClosedQuiet DEF ClosingKept, LaneKept
  <2>8. ASSUME NEW key \in Keys, Physical(key) PROVE ClosedInv'
    <3>1. Idle /\ UNCHANGED <<clients, unused, overtaken, synthq, nested, todo>>
      BY <2>8 DEF Physical, main
    <3>2. Shrinks
      BY <2>8, PhysicalDoes
    <3>3. PICK a \in Packets(gen) : /\ a.owner.conn = None
                                    /\ \/ lane' = Append(lane, LaneEvent("physical", a, Active))
                                       \/ UNCHANGED lane
      BY <2>8, PhysicalDoes
    <3>4. LaneKept
      <4>1. CASE lane' = Append(lane, LaneEvent("physical", a, Active))
        <5>1. PICK e \in Events(gen, seat) : e = LaneEvent("physical", a, Active) /\ e.action = a
          BY EventsIn
        <5>2. lane \in Seq(Events(gen, seat)) /\ lane' = Append(lane, e)
          BY <4>1, <5>1 DEF TypeOK
        <5>3. /\ lane'[Len(lane) + 1] = e
              /\ \A i \in 1..Len(lane) : lane'[i] = lane[i]
              /\ \A i \in 1..Len(lane') : i \in 1..Len(lane) \/ i = Len(lane) + 1
          BY <5>2, AppendFacts
        <5>4. None \notin Closed'
          BY IdAssumption DEF Closed
        <5> QED
          BY <3>3, <5>1, <5>3, <5>4 DEF LaneKept
      <4> QED
        BY <3>3, <4>1, LaneStays
    <3>5. ClosingKept
      BY <1>0, <3>1, ClosingStays
    <3>6. HoldsKept
      BY <1>4, <3>1, <3>2, HoldsStay
    <3> QED
      BY <1>2, <3>1, <3>4, <3>5, <3>6
  <2> QED
    BY <1>7, <2>1, <2>2, <2>3, <2>4, <2>5, <2>6, <2>7, <2>8 DEF Request
<1>8. ASSUME MainStep PROVE ClosedInv'
  <2>1. ASSUME SyncOwners \/ WaitForInflight \/ DiscardStale PROVE ClosedInv'
    <3>1. /\ UNCHANGED <<clients, unused, synthq, overtaken, lane, nested>> /\ enqueued' = enqueued
      BY <2>1 DEF SyncOwners, WaitForInflight, DiscardStale, ledger
    <3>2. PICK op : NextStep(op) /\ op # "marker"
      BY <2>1 DEF SyncOwners, WaitForInflight, DiscardStale
    <3> QED
      BY <1>3, <3>1, <3>2
  <2>2. ASSUME UpdateGrab PROVE ClosedInv'
    <3>1. UNCHANGED <<clients, unused, synthq, overtaken, lane, nested>> /\ NextStep("grab")
      BY <2>2 DEF UpdateGrab
    <3>2. \A h \in enqueued'.held : h \in enqueued.held
      BY <2>2, GrabDoes DEF ledger
    <3> QED
      BY <1>3, <3>1, <3>2
  <2>3. ASSUME ReleaseClass PROVE ClosedInv'
    <3>1. UNCHANGED <<clients, unused, synthq, overtaken, lane, nested>> /\ NextStep("class")
      BY <2>3 DEF ReleaseClass
    <3>2. \A h \in enqueued'.held : h \in enqueued.held
      <4>1. CASE UNCHANGED <<ledger, refused>>
        BY <4>1 DEF ledger
      <4> QED
        BY <1>6, <2>3, <4>1, ClassDoes
    <3> QED
      BY <1>3, <3>1, <3>2
  <2>4. ASSUME ReleaseHook PROVE ClosedInv'
    <3>1. UNCHANGED <<clients, unused, synthq, overtaken, lane, nested>> /\ NextStep("release")
      BY <2>4 DEF ReleaseHook
    <3> QED
      BY <1>0, <1>3, <1>6, <2>4, <3>1, HookDoes
  <2>5. ASSUME PushMarker PROVE ClosedInv'
    BY <1>0, <1>1, <2>5, MarkerClosed
  <2>6. ASSUME ReleaseGeneric PROVE ClosedInv'
    <3>1. UNCHANGED <<clients, unused, synthq, overtaken, lane, nested>> /\ NextStep("generic")
      BY <2>6 DEF ReleaseGeneric
    <3> QED
      BY <1>3, <1>4, <2>6, <3>1, GenericDoes
  <2>7. ASSUME PushReleaseAll PROVE ClosedInv'
    <3>1. UNCHANGED <<clients, unused, synthq, overtaken, lane, nested>> /\ NextStep("all")
      BY <2>7 DEF PushReleaseAll
    <3> QED
      BY <1>3, <1>4, <2>7, <3>1, AllDoes DEF Wiped
  <2>8. ASSUME TakeSeat PROVE ClosedInv'
    <3>1. /\ UNCHANGED <<clients, unused, synthq, overtaken, lane, nested>> /\ UNCHANGED ledger
          /\ todo # <<>> /\ Head(todo).op = "seat"
      BY <2>8 DEF TakeSeat
    <3>2. \A c : ~Closing(c)
      BY <1>0, <3>1, Alone DEF LastOps
    <3>3. ClosingKept
      BY <3>1, <3>2 DEF ClosingKept, Closed
    <3>4. LaneKept /\ HoldsKept
      BY <1>5, <3>1, LaneStays, HoldsStay
    <3> QED
      BY <1>2, <3>1, <3>3, <3>4
  <2>9. ASSUME Flush PROVE ClosedInv'
    BY <1>0, <2>9, FlushClosed
  <2> QED
    BY <1>8, <2>1, <2>2, <2>3, <2>4, <2>5, <2>6, <2>7, <2>8, <2>9 DEF MainStep
<1>9. ASSUME FailOpen PROVE ClosedInv'
  <2>1. Idle /\ UNCHANGED <<clients, unused, synthq, overtaken, lane, nested>> /\ UNCHANGED ledger
    BY <1>9 DEF FailOpen
  <2> QED
    BY <1>3, <1>5, <2>1
<1>10. ASSUME Ingress PROVE ClosedInv'
  BY <1>1, <1>10, IngressClosed
<1>11. ASSUME LaneStep PROVE ClosedInv'
  <2>0. UNCHANGED <<clients, unused, todo, synthq, overtaken>>
    BY <1>11 DEF LaneStep, Decide, EmitModify, EmitEgress, EmitCleanup, RunNested, FinishNested, main
  <2>1. ClosingKept
    BY <1>0, <2>0, ClosingStays
  <2>2. ASSUME Decide PROVE ClosedInv'
    <3>1. UNCHANGED ledger /\ Relabelled /\ nested' = Orphaned(nested)
      BY <2>2, DecideDoes DEF Decide
    <3>2. nested'.conn = nested.conn /\ nested'.stage = nested.stage
      BY <3>1, OrphanShape DEF TypeOK
    <3>3. HoldsKept
      BY <1>5, <3>1, <3>2 DEF HoldsKept
    <3>4. LaneKept
      BY <3>1, LaneStays
    <3> QED
      BY <1>2, <2>0, <2>1, <3>3, <3>4
  <2>3. ASSUME EmitModify PROVE ClosedInv'
    <3>1. PICK o \in Owners : o.hook /\ o.conn \in Conns /\ Adds(o) /\ (owners[o.conn] # "hooked" => Shrinks)
      BY <2>3, ModifyDoes
    <3>2. PICK s \in {"block", "pass"} : lane # <<>> /\ Restage(s)
      BY <2>3, ModifyDoes
    <3>3. LaneKept
      BY <3>2, RestageDoes, LaneStays
    <3>4. \A h \in enqueued'.held : h \in enqueued.held \/ h[1].conn \notin Closed \/ Closing(h[1].conn)
      <4>1. CASE owners[o.conn] # "hooked"
        BY <1>4, <3>1, <4>1
      <4>2. CASE owners[o.conn] = "hooked"
        BY <1>0, <3>1, <4>2 DEF Adds, ClosedKnown
      <4> QED
        BY <4>1, <4>2
    <3>5. UNCHANGED nested
      BY <2>3 DEF EmitModify
    <3>6. HoldsKept
      BY <3>4, <3>5, HoldsStay
    <3> QED
      BY <1>2, <2>0, <2>1, <3>3, <3>6
  <2>4. ASSUME EmitEgress PROVE ClosedInv'
    <3>1. UNCHANGED nested /\ lane # <<>>
      BY <2>4, EgressDoes DEF EmitEgress
    <3>2. LaneKept
      BY <2>4, <3>1, EgressDoes, RestageDoes, LaneStays
    <3>3. CASE Shrinks
      <4>1. HoldsKept
        BY <1>4, <3>1, <3>3, HoldsStay
      <4> QED
        BY <1>2, <2>0, <2>1, <3>2, <4>1
    <3>4. CASE Adds(Head(lane).action.owner)
      <4>1. 1 \in 1..Len(lane) /\ Head(lane) = lane[1]
        BY <3>1 DEF TypeOK
      <4>2. \A h \in enqueued'.held : h \in enqueued.held \/ h[1] = lane[1].action.owner
        BY <3>4, <4>1 DEF Adds
      <4>3. ASSUME NEW h \in enqueued'.held, h[1] = lane[1].action.owner, h[1].conn \in Closed \ overtaken
            PROVE  Closing(h[1].conn) \/ Marked(synthq, h[1].conn, 0)
        BY <4>1, <4>3, CoveredIs DEF ClosedInv, Covered
      <4>4. HoldsKept
        BY <3>1, <4>2, <4>3 DEF HoldsKept
      <4> QED
        BY <1>2, <2>0, <2>1, <3>2, <4>4
    <3> QED
      BY <2>4, <3>3, <3>4, EgressDoes
  <2>5. ASSUME EmitCleanup PROVE ClosedInv'
    <3>1. UNCHANGED nested /\ lane # <<>> /\ lane' = Tail(lane) /\ Shrinks
      BY <2>5, CleanupDoes DEF EmitCleanup
    <3>2. LaneKept /\ HoldsKept
      BY <1>4, <3>1, LaneStays, HoldsStay
    <3> QED
      BY <1>2, <2>0, <2>1, <3>2
  <2>6. ASSUME RunNested PROVE ClosedInv'
    <3>1. /\ nested.stage = "queued" /\ Adds(Sender(nested.conn)) /\ UNCHANGED lane
          /\ nested' = [nested EXCEPT !.stage = "ran"] /\ nested.conn \in Conns
      BY <2>6, RunNestedDoes DEF RunNested
    <3>2. nested \in [conn : Conns, gen : 1..gen, key : Keys, stage : {"queued", "ran"}, orphan : BOOLEAN]
      BY <3>1 DEF TypeOK, Nestings, NoNested
    <3>3. nested'.conn = nested.conn /\ nested'.stage = "ran"
      BY <3>1, <3>2
    <3>4. Sender(nested.conn).conn = nested.conn
      BY <3>1, OwnerShape
    <3>5. HoldsKept
      BY <3>1, <3>3, <3>4 DEF HoldsKept, Adds
    <3>6. LaneKept
      BY <3>1, LaneStays
    <3> QED
      BY <1>2, <2>0, <2>1, <3>5, <3>6
  <2>7. ASSUME FinishNested PROVE ClosedInv'
    <3>1. UNCHANGED lane /\ nested.conn \in Conns
      BY <2>7, FinishNestedDoes DEF FinishNested
    <3>2. CASE Released(nested.conn, FALSE)
      <4>1. ~refused' => \A h \in enqueued'.held : h \in enqueued.held /\ h[1].conn # nested.conn
        BY <3>2 DEF Released, Ours
      <4>2. HoldsKept
        BY <4>1 DEF HoldsKept
      <4>3. LaneKept
        BY <3>1, LaneStays
      <4> QED
        BY <1>2, <2>0, <2>1, <4>2, <4>3
    <3>3. CASE owners[nested.conn] # "gone" /\ UNCHANGED <<ledger, refused>>
      <4>1. \A h \in enqueued'.held : h \in enqueued.held
        BY <3>3 DEF ledger
      <4>2. nested.conn \in Closed => Closing(nested.conn)
        BY <1>0, <3>3 DEF ClosedKnown
      <4>3. HoldsKept
        BY <4>1, <4>2 DEF HoldsKept
      <4>4. LaneKept
        BY <3>1, LaneStays
      <4> QED
        BY <1>2, <2>0, <2>1, <4>3, <4>4
    <3> QED
      BY <2>7, <3>2, <3>3, FinishNestedDoes
  <2> QED
    BY <1>11, <2>2, <2>3, <2>4, <2>5, <2>6, <2>7 DEF LaneStep
<1>12. ASSUME SequencerStep PROVE ClosedInv'
  <2>1. UNCHANGED <<clients, unused, synthq, overtaken, lane, nested, todo>> /\ enqueued' = enqueued
    BY <1>12 DEF SequencerStep, Pop, BeginWrite, EndWrite, main, ledger
  <2> QED
    BY <1>3, <2>1
<1> QED
  BY <1>7, <1>8, <1>9, <1>10, <1>11, <1>12 DEF Next

-----------------------------------------------------------------------------
(* The invariant, and what follows from it                                 *)

\* The two views agree at the start.
LEMMA InitViews == ASSUME Init PROVE ViewInv
<1>1. /\ queue = <<>> /\ seq.stage = "idle" /\ applied = enqueued /\ todo = <<>>
  BY DEF Init
<1>2. PICK l : l = Popped \o queue
  OBVIOUS
<1>3. l = <<>> /\ l \in Seq(Plain)
  BY <1>1, <1>2 DEF Popped
<1>4. Replayed(applied, l) = enqueued
  BY <1>1, <1>3, ReplayEmpty
<1>5. Unwritten = FreshFor(l, gen)
  BY <1>2 DEF Unwritten, Fresh, FreshFor, Stale, Popped
<1>6. Unwritten = <<>>
  BY <1>3, <1>5, FilterEmpty, UnwrittenShape
<1>7. ViewsAgree
  BY <1>1, <1>6, ReplayEmpty DEF ViewsAgree
<1>8. TargetsAgree
  BY <1>2, <1>4 DEF TargetsAgree
<1> QED
  BY <1>1, <1>7, <1>8 DEF ViewInv, StaleWriteEnds

\* The invariant holds at the start.
LEMMA InitInv == ASSUME Init PROVE IInv
<1>1. /\ clients = {} /\ unused = Conns /\ hooks = {} /\ owned = FALSE /\ grabbed = FALSE
      /\ seat \in Users /\ gen = 1 /\ failOpen = FALSE /\ todo = <<>> /\ refused = FALSE /\ overtaken = {}
      /\ queue = <<>> /\ synthq = <<>> /\ lane = <<>> /\ down = {} /\ device = "up"
  BY DEF Init
<1>2. owners = [c \in Conns |-> "gone"] /\ nested = NoNested
  BY DEF Init
<1>3. seq.stage = "idle" /\ seq \in [stage : {"idle", "popped", "writing"}, action : Actions]
  BY NothingType DEF Init, SeqType
<1>4. /\ enqueued \in View /\ applied \in View /\ enqueued.held = {} /\ applied.held = {}
      /\ enqueued.target = 1
  BY DEF Init, View
<1>5. TypeOK
  <2>1. /\ queue \in Seq(Queued(gen, seat)) /\ synthq \in Seq(Sent(gen, seat) \cup Markers)
        /\ lane \in Seq(Events(gen, seat)) /\ todo \in Seq(StepType)
    BY <1>1
  <2>2. nested \in Nestings(gen, seat)
    BY <1>2 DEF Nestings
  <2>3. owners \in [Conns -> {"gone", "open", "hooked"}]
    BY <1>2
  <2>4. gen \in Nat \ {0}
    BY <1>1
  <2> QED
    BY <1>1, <1>3, <1>4, <2>1, <2>2, <2>3, <2>4 DEF TypeOK
<1>6. \A o : ~Has(o)
  BY <1>1, IdleHas DEF Idle
<1>7. PoppedOK /\ HeldConns /\ WritesOwn /\ HoldsOwn /\ HooksHold /\ ClosedEnds
  BY <1>3, <1>4 DEF PoppedOK, HeldConns, WritesOwn, HoldsOwn, HooksHold, ClosedEnds
<1>8. Len(todo) = 0 /\ Len(lane) = 0
  BY <1>1
<1>9. TodoOrder
  BY <1>6, <1>8 DEF TodoOrder
<1>10. \A c \in Conns : owners[c] = "gone"
  BY <1>2
<1>11. OwnersFollow /\ OwnedFollows /\ RevokedEnds
  BY <1>1, <1>10 DEF OwnersFollow, OwnedFollows, RevokedEnds
<1>12. Closed = {}
  BY <1>1 DEF Closed
<1>13. ClosedKnown /\ BatchesMarked
  BY <1>12 DEF ClosedKnown, BatchesMarked
<1>14. EventsEnd /\ TargetsPast /\ SourcesHold
  BY <1>4, <1>8 DEF EventsEnd, TargetsPast, SourcesHold
<1> QED
  BY <1>5, <1>7, <1>9, <1>11, <1>13, <1>14, InitViews DEF IInv, ViewInv

\* The invariant depends on the variables only.
LEMMA StutterInv == ASSUME IInv, UNCHANGED vars PROVE IInv'
<1>1. /\ UNCHANGED <<clients, unused, hooks, owned, grabbed, seat, gen, failOpen, todo, owners, queue>>
      /\ UNCHANGED <<enqueued, seq, synthq, lane, nested, device, applied, down, refused, overtaken>>
  BY DEF vars, main, ledger
<1>2. TypeOK' /\ PoppedOK' /\ HeldConns'
  BY <1>1 DEF IInv, TypeOK, PoppedOK, HeldConns
<1>3. TodoOrder' /\ OwnersFollow'
  BY <1>1 DEF IInv, TodoOrder, OwnersFollow, Has
<1>4. Fencing' <=> Fencing
  BY <1>1 DEF Fencing
<1>5. WritesOwn' /\ HoldsOwn'
  BY <1>1, <1>4 DEF IInv, WritesOwn, HoldsOwn, Has, Between, AllPending
<1>6. OwnedFollows' /\ RevokedEnds' /\ HooksHold'
  BY <1>1 DEF IInv, OwnedFollows, RevokedEnds, HooksHold, Has, Releasing, ClassEnds, Active
<1>7. ClosedKnown' /\ BatchesMarked' /\ ClosedEnds'
  BY <1>1 DEF IInv, ClosedKnown, BatchesMarked, ClosedEnds, Closed, Closing, MarkedAfter
<1>8. EventsEnd' /\ TargetsPast' /\ SourcesHold'
  BY <1>1, <1>4 DEF IInv, EventsEnd, TargetsPast, SourcesHold, ReleaseFrom, CurrentEvent
<1>9. Unwritten' = Unwritten /\ Popped' = Popped
  BY <1>1 DEF Unwritten, Fresh, Stale, Popped
<1>10. TargetsAgree' /\ ViewsAgree'
  BY <1>1, <1>4, <1>9 DEF IInv, TargetsAgree, ViewsAgree, Pending
<1>11. StaleWriteEnds'
  BY <1>1, <1>4 DEF IInv, StaleWriteEnds, Stale
<1> QED
  BY <1>2, <1>3, <1>5, <1>6, <1>7, <1>8, <1>10, <1>11 DEF IInv

\* Every step keeps the invariant.
LEMMA NextInv == ASSUME IInv, Next PROVE IInv'
<1>1. /\ TypeOK /\ PoppedOK /\ HeldConns /\ WritesOwn /\ HoldsOwn /\ HooksHold /\ TargetsPast /\ TodoOrder
      /\ MainInv /\ ClosedInv /\ SourceInv /\ ViewInv
  BY DEF IInv, MainInv, ClosedInv, SourceInv, ViewInv
<1>2. MainInv' /\ todo' \in Seq(StepType)
  BY <1>1, MainKeeps
<1>3. TypeOK' /\ PoppedOK'
  BY <1>1, <1>2, TypesKeep
<1>4. HeldConns' /\ HoldsOwn'
  BY <1>1, <1>2, HoldsKeep
<1>5. WritesOwn'
  BY <1>1, WritesKeep
<1>6. HooksHold'
  BY <1>1, <1>2, HooksKeep
<1>7. ClosedInv'
  BY <1>1, <1>2, ClosedKeep
<1>8. SourceInv'
  BY <1>1, <1>2, SourcesKeep
<1>9. ViewInv'
  BY <1>1, <1>2, ViewsKeep
<1> QED
  BY <1>2, <1>3, <1>4, <1>5, <1>6, <1>7, <1>8, <1>9 DEF IInv, MainInv, ClosedInv, SourceInv, ViewInv

\* Every reachable state satisfies the inductive invariant: the order of the handlers'
\* critical sections, what each of them still owes, and both views of the ledger.
THEOREM InductiveInvariant == Spec => []IInv
<1>1. IInv /\ [Next]_vars => IInv'
  BY NextInv, StutterInv
<1> QED
  BY <1>1, InitInv, PTL DEF Spec

\* Every variable has its type; in particular what is queued under the current
\* generation (hook_lanes.inc:99) belongs to the user of the seat.
THEOREM TypesHold == Spec => []TypeOK
<1>1. IInv => TypeOK
  BY DEF IInv
<1> QED
  BY <1>1, InductiveInvariant, PTL

\* Writing out the queue turns the written view of the holds into the admitted one
\* (linux_synth.c:54), through purges, ended grabs and recreated devices.
THEOREM QueuedViewsAgree == Spec => []ViewsAgree
<1>1. IInv => ViewsAgree
  BY DEF IInv
<1> QED
  BY <1>1, InductiveInvariant, PTL

\* A RELEASE_ALL is never stale, so a queued one will be written.
LEMMA AllIsPending == ASSUME TypeOK, PoppedOK, AllPending PROVE Pending("all")
<1>1. queue \in Seq(Plain) /\ (seq.stage # "idle" => seq.action \in Plain)
  BY QueuedPlain DEF TypeOK, PoppedOK
<1>2. Line \in Seq(Plain)
  BY <1>1, LineShape DEF Line
<1>3. Unwritten = FreshFor(Line, gen)
  BY DEF Unwritten, Fresh, FreshFor, Stale, Line, LineOf
<1>4. PICK l \in Seq(Plain) : l = Line
  BY <1>2
<1>5. "all" \in Safety
  BY DEF Safety, Wipes
<1>6. Pending("all") <=> HasType(l, "all")
  BY <1>3, <1>4, <1>5, UnwrittenShape DEF Pending
<1>7. HasType(queue, "all") \/ (seq.stage # "idle" /\ seq.action.type = "all")
  BY AllPendingIs
<1>8. CASE seq.stage = "idle"
  BY <1>1, <1>4, <1>6, <1>7, <1>8, LineShape DEF Line
<1>9. CASE seq.stage # "idle"
  <2>1. l = <<seq.action>> \o queue
    BY <1>1, <1>4, <1>9, LineShape DEF Line
  <2>2. Items(l) = {seq.action} \cup Items(queue)
    BY <1>1, <1>9, <2>1, ItemsHead
  <2> QED
    BY <1>6, <1>7, <2>2 DEF HasType
<1> QED
  BY <1>8, <1>9

\* While one user owns the seat nothing of another's client is written or admitted as
\* held, and what is still held on the devices has RELEASE_ALL coming (daemon.c:761).
THEOREM SeatOutputOwn == Spec => []NothingForeign
<1>1. IInv => NothingForeign
  <2> SUFFICES ASSUME IInv, seat # None
               PROVE  /\ seq.stage = "writing" /\ seq.action.type = "synth" => User[seq.action.owner.conn] = seat
                      /\ ~refused => /\ \A h \in enqueued.held : User[h[1].conn] = seat
                                    /\ \A h \in applied.held : User[h[1].conn] # seat => Pending("all")
    BY DEF NothingForeign
  <2>1. seq.stage = "writing" /\ seq.action.type = "synth" => User[seq.action.owner.conn] = seat
    BY DEF IInv, WritesOwn
  <2>2. AllPending => Pending("all")
    BY AllIsPending DEF IInv
  <2>3. ~refused => /\ \A h \in enqueued.held : User[h[1].conn] = seat
                   /\ \A h \in applied.held : User[h[1].conn] = seat \/ AllPending
    BY DEF IInv, HoldsOwn, Between
  <2> QED
    BY <2>1, <2>2, <2>3
<1> QED
  BY <1>1, InductiveInvariant, PTL

\* A hook that lost its subscription holds nothing once the handler is done
\* (hook_lanes.inc:118), whatever its lane was deciding meanwhile.
THEOREM RevokedHooksHoldNothing == Spec => []RevokedHoldsNothing
<1>1. IInv => RevokedHoldsNothing
  <2> SUFFICES ASSUME IInv, Idle, ~refused, NEW h \in enqueued.held, h[1].hook, h[1].conn \in clients
               PROVE  h[1].conn \in hooks
    BY DEF RevokedHoldsNothing
  <2>1. ~Releasing(h[1].conn) /\ ~ClassEnds
    BY IdleHas DEF ClassEnds
  <2> QED
    BY <2>1 DEF IInv, HooksHold
<1> QED
  BY <1>1, InductiveInvariant, PTL

\* A closed connection whose accepted output has been admitted holds no key
\* (client_lifecycle.inc:56), unless its release had to overtake what it sent.
THEOREM ClosedConnectionsHoldNothing == Spec => []ClosedHoldsNothing
<1>1. IInv => ClosedHoldsNothing
  <2> SUFFICES ASSUME IInv, ~refused, NEW c \in Conns \ (clients \cup unused \cup overtaken),
                      ~Outstanding(c), NEW h \in enqueued.held
               PROVE  h[1].conn # c
    BY DEF ClosedHoldsNothing
  <2>1. Idle /\ ~Waiting(c) /\ nested.conn # c
    BY DEF Outstanding
  <2>2. ~Closing(c)
    BY <2>1, IdleHas
  <2>3. ~MarkedAfter(c, 0)
    <3> SUFFICES ASSUME NEW j \in 1..Len(synthq), synthq[j] = Marker(c) PROVE FALSE
      BY DEF MarkedAfter
    <3>1. j \in DOMAIN synthq
      BY DEF IInv, TypeOK
    <3>2. synthq[j].owner.conn = c
      BY MarkerShape
    <3> QED
      BY <2>1, <3>1, <3>2 DEF Waiting
  <2>4. c \in Closed \ overtaken
    BY DEF Closed
  <2> QED
    BY <2>1, <2>2, <2>3, <2>4 DEF IInv, ClosedEnds
<1> QED
  BY <1>1, InductiveInvariant, PTL

\* A Modify hold ends with the physical key it replaced (linux_synth.c:1199), whatever
\* the hooks decide about that key's release.
THEOREM SourceKeysEndHolds == Spec => []SourceHoldsEnd
<1>1. IInv => SourceHoldsEnd
  <2> SUFFICES ASSUME IInv, Idle, ~refused, NEW h \in enqueued.held, h[1].src \notin down \cup {None}
               PROVE  \E i \in DOMAIN lane : lane[i].origin = "physical" /\ lane[i].action.key = h[1].src
    BY DEF SourceHoldsEnd
  <2>1. ~Fencing
    BY IdleHas
  <2>2. ReleaseFrom(h[1].src, 1)
    BY <2>1 DEF IInv, SourcesHold
  <2>3. DOMAIN lane = 1..Len(lane)
    BY DEF IInv, TypeOK
  <2> QED
    BY <2>2, <2>3 DEF ReleaseFrom, CurrentEvent
<1> QED
  BY <1>1, InductiveInvariant, PTL
=============================================================================
