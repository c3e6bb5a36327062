---------------------------- MODULE IngestProofs ----------------------------
(***************************************************************************)
(* Proofs about Ingest, for every kind of source, every set of reports,    *)
(* and any number of reports, overflows and changes of the grab.           *)
(*                                                                         *)
(* The reader is a chain of operators on the record of a source, so the    *)
(* proof is one lemma per operator: what it keeps of the lanes, of the     *)
(* motion held back and of the raw keys.  Looking ahead is the case that   *)
(* needs care: it may synchronize in the middle of handling an event.      *)
(***************************************************************************)
EXTENDS Ingest, SequenceTheorems, FiniteSetTheorems, TLAPS

-----------------------------------------------------------------------------
(* The inductive invariant                                                 *)

DevSet ==
  [grabbed : BOOLEAN, unread : Seq(Events), burst : Seq(Events), known : SUBSET Keys,
   buffered : {b \in Seq(Events) : Len(b) <= 1},
   synchronizing : BOOLEAN, x : Int, y : Int, rel : BOOLEAN, abs : BOOLEAN,
   scan : BOOLEAN, lanes : SUBSET Classes, owed : SUBSET Keys,
   open : SUBSET Classes, held : SUBSET Keys, at : Nat, sent : Nat, since : Nat]

TypeOK ==
  /\ kind \in Kinds
  /\ dev \in DevSet
  /\ down \in SUBSET Keys
  /\ reading \in BOOLEAN
  /\ grabbing \in BOOLEAN

\* The lanes of a source: while it is grabbed, an open one is marked.
Ends(d) ==
  /\ d.grabbed => d.open \subseteq d.lanes
  /\ ~d.grabbed => d.open = {}

\* The motion of a source: the oldest one held back is newer than what went out.
Moving(d) == d.rel \/ d.abs
Motion(d) ==
  /\ Moving(d) => d.since > d.sent /\ "hook" \in kind
  /\ d.since # 0 => Moving(d)
  /\ d.sent <= d.at

\* The raw keys of a source, which no hook sees.  While it is grabbed it has them
\* down as far as the reader knows, or their release is the next event; once it
\* is not, they are owed.
RawKey(k) ==
  \/ kind \cap {"keyboard", "mouse"} = {}
  \/ IF "mouse" \in kind /\ k \in Buttons THEN "hook" \notin kind
     ELSE ~("keyboard" \in kind /\ k \in KeyboardKeys)
Has(d, k) == k \in d.known \/ d.buffered = <<<<"key", k, 0>>>>
Raw(d) ==
  /\ \A k \in d.held : RawKey(k) /\ (d.grabbed => Has(d, k))
  /\ ~d.grabbed => d.held \subseteq d.owed
  /\ \A k \in Keys : d.buffered = <<<<"key", k, 1>>>> => k \in d.known
  /\ d.grabbed => d.owed = {}

IInv ==
  /\ TypeOK
  /\ Ends(dev)
  /\ Motion(dev)
  /\ dev.at = 0 \/ ~reading => ~Moving(dev)
  /\ Raw(dev)
  /\ grabbing => ~reading /\ ~dev.grabbed /\ dev.owed = {}
-----------------------------------------------------------------------------
(* Reading                                                                 *)

\* What the events are.
LEMMA EventShape ==
  /\ Syn \in Events /\ Syn[1] = "syn" /\ Dropped \in Events
  /\ \A e \in Events :
       /\ e[3] \in Int
       /\ e[1] = "key" => e[2] \in Keys /\ e[3] \in {0, 1} /\ e = <<"key", e[2], e[3]>>
<1>1. Syn \in Events /\ Syn[1] = "syn" /\ Dropped \in Events
  BY DEF Events, Syn, Dropped
<1>2. ASSUME NEW e \in {"key"} \X Keys \X {0, 1}
      PROVE  /\ e[3] \in Int
             /\ e[2] \in Keys /\ e[3] \in {0, 1} /\ e = <<"key", e[2], e[3]>>
  OBVIOUS
<1>3. ASSUME NEW e \in {"syn", "scan", "rel", "abs"} \X
                       {"report", "dropped", "of", "x", "y", "wheel", "wheel_hi", "other"} \X Int
      PROVE  e[3] \in Int /\ e[1] # "key"
  OBVIOUS
<1> QED
  BY <1>1, <1>2, <1>3 DEF Events

\* A finite set can be listed.
LEMMA ListProps ==
  ASSUME NEW S, IsFiniteSet(S)
  PROVE  SetToSeq(S) \in Seq(S)
<1>1. PICK n \in Nat : ExistsBijection(1..n, S)
  BY FS_NatBijection
<1>2. Cardinality(S) = n
  BY <1>1, FS_CountingElements
<1>3. \E f \in [1..Cardinality(S) -> S] : IsInjective(f)
  BY <1>1, <1>2 DEF ExistsBijection, Bijection, Injection, IsInjective
<1>4. SetToSeq(S) \in [1..n -> S]
  BY <1>2, <1>3 DEF SetToSeq
<1> QED
  BY <1>4

\* The events of a synchronization.
LEMMA BurstProps ==
  ASSUME down \in SUBSET Keys, NEW K \in SUBSET Keys
  PROVE  Burst(K) \in Seq(Events)
<1> DEFINE S == (K \ down) \cup (down \ K)
           w == SetToSeq(S)
           b == [i \in 1..Len(w) |-> <<"key", w[i], IF w[i] \in down THEN 1 ELSE 0>>]
<1>1. S \subseteq Keys /\ IsFiniteSet(S)
  BY KeyAssumption, FS_Subset
<1>2. w \in Seq(S)
  <2> HIDE DEF S
  <2> QED
    BY <1>1, ListProps
<1>3. Len(w) \in Nat /\ \A i \in 1..Len(w) : w[i] \in Keys
  <2> HIDE DEF w, S
  <2> QED
    BY <1>1, <1>2, LenProperties, ElementOfSeq
<1>4. \A i \in 1..Len(w) : b[i] \in Events
  <2> HIDE DEF w
  <2> QED
    BY <1>3 DEF Events
<1>5. b \in Seq(Events)
  <2> HIDE DEF w
  <2>1. b \in [1..Len(w) -> Events]
    BY <1>4
  <2> QED
    BY <1>3, <2>1
<1>6. <<Syn>> \in Seq(Events)
  BY EventShape
<1>7. b \o <<Syn>> \in Seq(Events)
  <2> HIDE DEF b
  <2> QED
    BY <1>5, <1>6
<1>8. Burst(K) \in {<<>>, b \o <<Syn>>}
  BY DEF Burst
<1>9. <<>> \in Seq(Events)
  OBVIOUS
<1> HIDE DEF b
<1> QED
  BY <1>7, <1>8, <1>9

\* What looking ahead leaves alone: everything but the queue, what is known of
\* the keys, and motion, which a synchronization drops.
Ahead(d, s) ==
  /\ s \in DevSet
  /\ s.grabbed = d.grabbed /\ s.lanes = d.lanes /\ s.owed = d.owed /\ s.open = d.open
  /\ s.held = d.held /\ s.at = d.at /\ s.sent = d.sent
  /\ \/ s.rel = d.rel /\ s.abs = d.abs /\ s.since = d.since
     \/ s.rel = FALSE /\ s.abs = FALSE /\ s.since = 0
  /\ \A k \in Keys : Has(d, k) => Has(s, k)
  /\ \A k \in Keys : s.buffered = <<<<"key", k, 1>>>> =>
       k \in s.known \/ s.buffered = d.buffered

\* An event read into the empty buffer.
LEMMA GotProps ==
  ASSUME NEW d \in DevSet, d.buffered = <<>>, NEW e \in Events
  PROVE  /\ Got(d, e) \in DevSet
         /\ Got(d, e).grabbed = d.grabbed /\ Got(d, e).unread = d.unread
         /\ Got(d, e).burst = d.burst /\ Got(d, e).synchronizing = d.synchronizing
         /\ Got(d, e).rel = d.rel /\ Got(d, e).abs = d.abs /\ Got(d, e).since = d.since
         /\ Got(d, e).lanes = d.lanes /\ Got(d, e).owed = d.owed /\ Got(d, e).open = d.open
         /\ Got(d, e).held = d.held /\ Got(d, e).at = d.at /\ Got(d, e).sent = d.sent
         /\ Got(d, e).buffered = <<e>>
         /\ \A k \in Keys : k \in d.known => Has(Got(d, e), k)
         /\ \A k \in Keys : e = <<"key", k, 1>> => k \in Got(d, e).known
<1> DEFINE K == IF e[1] = "key" THEN Turn(d.known, e) ELSE d.known
           g == [d EXCEPT !.buffered = <<e>>, !.known = K]
<1>1. g = Got(d, e)
  BY DEF Got
<1>2. K \in SUBSET Keys
  BY EventShape DEF Turn, DevSet
<1>3. <<e>> \in {b \in Seq(Events) : Len(b) <= 1}
  OBVIOUS
<1>4. \A k \in Keys : k \in d.known => k \in K \/ e = <<"key", k, 0>>
  BY EventShape DEF Turn
<1>5. \A k \in Keys : e = <<"key", k, 1>> => k \in K
  BY DEF Turn
<1> HIDE DEF K
<1>6. g \in DevSet
  BY <1>2, <1>3 DEF DevSet
<1>7. /\ g.grabbed = d.grabbed /\ g.unread = d.unread
      /\ g.burst = d.burst /\ g.synchronizing = d.synchronizing
      /\ g.rel = d.rel /\ g.abs = d.abs /\ g.since = d.since
      /\ g.lanes = d.lanes /\ g.owed = d.owed /\ g.open = d.open
      /\ g.held = d.held /\ g.at = d.at /\ g.sent = d.sent
      /\ g.buffered = <<e>> /\ g.known = K
  BY DEF DevSet
<1> HIDE DEF g
<1>8. \A k \in Keys : k \in d.known => Has(g, k)
  BY <1>4, <1>7 DEF Has
<1> QED
  BY <1>1, <1>5, <1>6, <1>7, <1>8

\* discard_pending_report forgets motion and lanes, and nothing else.
LEMMA DiscardedProps ==
  ASSUME NEW d \in DevSet
  PROVE  /\ Discarded(d) \in DevSet
         /\ Discarded(d).grabbed = d.grabbed /\ Discarded(d).unread = d.unread
         /\ Discarded(d).burst = d.burst /\ Discarded(d).known = d.known
         /\ Discarded(d).buffered = d.buffered
         /\ Discarded(d).rel = FALSE /\ Discarded(d).abs = FALSE /\ Discarded(d).since = 0
         /\ Discarded(d).owed = d.owed /\ Discarded(d).open = d.open
         /\ Discarded(d).held = d.held /\ Discarded(d).at = d.at /\ Discarded(d).sent = d.sent
<1> DEFINE s == [d EXCEPT !.rel = FALSE, !.abs = FALSE, !.x = 0, !.y = 0, !.scan = FALSE,
                          !.lanes = {}, !.since = 0]
<1>1. s = Discarded(d)
  BY DEF Discarded
<1>2. s \in DevSet
  <2>1. ASSUME NEW i \in Int, NEW j \in Int, NEW n \in Nat
        PROVE  [d EXCEPT !.rel = FALSE, !.abs = FALSE, !.x = i, !.y = j, !.scan = FALSE,
                         !.lanes = {}, !.since = n] \in DevSet
    BY DEF DevSet
  <2>2. 0 \in Int /\ 0 \in Nat
    OBVIOUS
  <2> QED
    BY <2>1, <2>2, Zenon
<1>3. /\ s.grabbed = d.grabbed /\ s.unread = d.unread /\ s.burst = d.burst
      /\ s.known = d.known /\ s.buffered = d.buffered
      /\ s.rel = FALSE /\ s.abs = FALSE /\ s.since = 0 /\ s.owed = d.owed /\ s.open = d.open
      /\ s.held = d.held /\ s.at = d.at /\ s.sent = d.sent
  BY DEF DevSet
<1> HIDE DEF s
<1> QED
  BY <1>1, <1>2, <1>3

\* A synchronization in the middle of a report keeps the lanes that need an end.
LEMMA FetchProps ==
  ASSUME down \in SUBSET Keys, NEW d \in DevSet, d.buffered = <<>>
  PROVE  Ahead(d, Fetch(d))
<1>1. /\ d.burst \in Seq(Events) /\ d.unread \in Seq(Events) /\ d.known \in SUBSET Keys
      /\ d.lanes \in SUBSET Classes
  BY DEF DevSet
<1>a. \A k \in Keys : Has(d, k) => k \in d.known
  BY DEF Has
<1>2. CASE d.burst # <<>>
  <2> DEFINE e == Head(d.burst)
             g == Got(d, e)
             s == [g EXCEPT !.burst = Tail(@)]
  <2>1. e \in Events /\ Tail(d.burst) \in Seq(Events)
    BY <1>1, <1>2, HeadTailProperties
  <2>2. /\ g \in DevSet /\ g.grabbed = d.grabbed /\ g.burst = d.burst
        /\ g.rel = d.rel /\ g.abs = d.abs /\ g.since = d.since
        /\ g.lanes = d.lanes /\ g.owed = d.owed /\ g.open = d.open
        /\ g.held = d.held /\ g.at = d.at /\ g.sent = d.sent
        /\ g.buffered = <<e>>
        /\ \A k \in Keys : k \in d.known => Has(g, k)
        /\ \A k \in Keys : e = <<"key", k, 1>> => k \in g.known
    <3> HIDE DEF e
    <3> QED
      BY <2>1, GotProps
  <2> HIDE DEF g, e
  <2>3. /\ s \in DevSet /\ s.grabbed = g.grabbed
        /\ s.rel = g.rel /\ s.abs = g.abs /\ s.since = g.since
        /\ s.lanes = g.lanes /\ s.owed = g.owed /\ s.open = g.open
        /\ s.held = g.held /\ s.at = g.at /\ s.sent = g.sent
        /\ s.buffered = g.buffered /\ s.known = g.known
    BY <2>1, <2>2 DEF DevSet
  <2>4. s = Fetch(d)
    BY <1>2 DEF Fetch, g, e
  <2> HIDE DEF s
  <2>5. Ahead(d, s)
    BY <1>a, <2>2, <2>3 DEF Ahead, Has
  <2> QED
    BY <2>4, <2>5
<1>3. CASE d.burst = <<>> /\ d.unread = <<>>
  <2> DEFINE s == [d EXCEPT !.synchronizing = FALSE]
  <2>1. s = Fetch(d)
    BY <1>3 DEF Fetch
  <2>2. /\ s \in DevSet /\ s.grabbed = d.grabbed
        /\ s.rel = d.rel /\ s.abs = d.abs /\ s.since = d.since
        /\ s.lanes = d.lanes /\ s.owed = d.owed /\ s.open = d.open
        /\ s.held = d.held /\ s.at = d.at /\ s.sent = d.sent
        /\ s.buffered = d.buffered /\ s.known = d.known
    BY DEF DevSet
  <2> HIDE DEF s
  <2>3. Ahead(d, s)
    BY <2>2 DEF Ahead, Has
  <2> QED
    BY <2>1, <2>3
<1>4. CASE d.burst = <<>> /\ d.unread # <<>> /\ Head(d.unread) # Dropped
  <2> DEFINE e == Head(d.unread)
             g == Got(d, e)
             s == [g EXCEPT !.unread = Tail(@), !.synchronizing = FALSE]
  <2>1. e \in Events /\ Tail(d.unread) \in Seq(Events)
    BY <1>1, <1>4, HeadTailProperties
  <2>2. /\ g \in DevSet /\ g.grabbed = d.grabbed /\ g.unread = d.unread
        /\ g.rel = d.rel /\ g.abs = d.abs /\ g.since = d.since
        /\ g.lanes = d.lanes /\ g.owed = d.owed /\ g.open = d.open
        /\ g.held = d.held /\ g.at = d.at /\ g.sent = d.sent
        /\ g.buffered = <<e>>
        /\ \A k \in Keys : k \in d.known => Has(g, k)
        /\ \A k \in Keys : e = <<"key", k, 1>> => k \in g.known
    <3> HIDE DEF e
    <3> QED
      BY <2>1, GotProps
  <2> HIDE DEF g, e
  <2>3. /\ s \in DevSet /\ s.grabbed = g.grabbed
        /\ s.rel = g.rel /\ s.abs = g.abs /\ s.since = g.since
        /\ s.lanes = g.lanes /\ s.owed = g.owed /\ s.open = g.open
        /\ s.held = g.held /\ s.at = g.at /\ s.sent = g.sent
        /\ s.buffered = g.buffered /\ s.known = g.known
    BY <2>1, <2>2 DEF DevSet
  <2>4. s = Fetch(d)
    BY <1>4 DEF Fetch, g, e
  <2> HIDE DEF s
  <2>5. Ahead(d, s)
    BY <1>a, <2>2, <2>3 DEF Ahead, Has
  <2> QED
    BY <2>4, <2>5
<1>5. CASE d.burst = <<>> /\ d.unread # <<>> /\ Head(d.unread) = Dropped
  <2> DEFINE b == Burst(d.known)
             q == [Discarded(d) EXCEPT !.unread = <<>>, !.lanes = d.lanes]
  <2>1. b \in Seq(Events)
    BY <1>1, BurstProps
  <2>2. /\ q \in DevSet /\ q.grabbed = d.grabbed
        /\ q.rel = FALSE /\ q.abs = FALSE /\ q.since = 0
        /\ q.lanes = d.lanes /\ q.owed = d.owed /\ q.open = d.open
        /\ q.held = d.held /\ q.at = d.at /\ q.sent = d.sent
        /\ q.buffered = <<>> /\ q.known = d.known
    BY <1>1, DiscardedProps DEF DevSet
  <2> HIDE DEF b, q
  <2>3. CASE b = <<>>
    <3> DEFINE s == [q EXCEPT !.synchronizing = FALSE]
    <3>1. s = Fetch(d)
      BY <1>5, <2>3 DEF Fetch, b, q
    <3>2. /\ s \in DevSet /\ s.grabbed = q.grabbed
          /\ s.rel = q.rel /\ s.abs = q.abs /\ s.since = q.since
          /\ s.lanes = q.lanes /\ s.owed = q.owed /\ s.open = q.open
          /\ s.held = q.held /\ s.at = q.at /\ s.sent = q.sent
          /\ s.buffered = q.buffered /\ s.known = q.known
      BY <2>2 DEF DevSet
    <3> HIDE DEF s
    <3>3. Ahead(d, s)
      BY <1>a, <2>2, <3>2 DEF Ahead, Has
    <3> QED
      BY <3>1, <3>3
  <2>4. CASE b # <<>>
    <3> DEFINE e == Head(b)
               g == Got(q, e)
               s == [g EXCEPT !.burst = Tail(b), !.synchronizing = TRUE]
    <3>1. e \in Events /\ Tail(b) \in Seq(Events)
      BY <2>1, <2>4, HeadTailProperties
    <3>2. /\ g \in DevSet /\ g.grabbed = q.grabbed
          /\ g.rel = q.rel /\ g.abs = q.abs /\ g.since = q.since
          /\ g.lanes = q.lanes /\ g.owed = q.owed /\ g.open = q.open
          /\ g.held = q.held /\ g.at = q.at /\ g.sent = q.sent
          /\ g.buffered = <<e>>
          /\ \A k \in Keys : k \in q.known => Has(g, k)
          /\ \A k \in Keys : e = <<"key", k, 1>> => k \in g.known
      <4> HIDE DEF e
      <4> QED
        BY <2>2, <3>1, GotProps
    <3> HIDE DEF g, e
    <3>3. /\ s \in DevSet /\ s.grabbed = g.grabbed
          /\ s.rel = g.rel /\ s.abs = g.abs /\ s.since = g.since
          /\ s.lanes = g.lanes /\ s.owed = g.owed /\ s.open = g.open
          /\ s.held = g.held /\ s.at = g.at /\ s.sent = g.sent
          /\ s.buffered = g.buffered /\ s.known = g.known
      BY <3>1, <3>2 DEF DevSet
    <3>4. s = Fetch(d)
      BY <1>5, <2>4 DEF Fetch, b, q, g, e
    <3> HIDE DEF s
    <3>5. Ahead(d, s)
      BY <1>a, <2>2, <3>2, <3>3 DEF Ahead, Has
    <3> QED
      BY <3>4, <3>5
  <2> QED
    BY <2>3, <2>4
<1> QED
  BY <1>2, <1>3, <1>4, <1>5

\* So does a look-ahead, which reads at most one event.
LEMMA PeekedProps ==
  ASSUME down \in SUBSET Keys, NEW d \in DevSet
  PROVE  Ahead(d, Peeked(d))
<1>1. CASE d.buffered = <<>>
  BY <1>1, FetchProps DEF Peeked
<1>2. CASE d.buffered # <<>>
  <2>1. Peeked(d) = d
    BY <1>2 DEF Peeked
  <2>2. Ahead(d, d)
    BY DEF Ahead, Has
  <2> QED
    BY <2>1, <2>2
<1> QED
  BY <1>1, <1>2
-----------------------------------------------------------------------------
(* Packets                                                                 *)

\* What handing on a packet, with a look-ahead or without, keeps.
Keeps(d, s) ==
  /\ s \in DevSet
  /\ s.grabbed = d.grabbed /\ s.owed = d.owed /\ s.at = d.at
  /\ Ends(d) => Ends(s)
  /\ \A k \in Keys : Has(d, k) => Has(s, k)
  /\ \A k \in Keys : s.buffered = <<<<"key", k, 1>>>> =>
       k \in s.known \/ s.buffered = d.buffered

\* And what it does to motion: nothing, or it drops it all.
Still(d, s) ==
  \/ s.rel = d.rel /\ s.abs = d.abs /\ s.since = d.since
  \/ s.rel = FALSE /\ s.abs = FALSE /\ s.since = 0

\* A look-ahead keeps what a packet keeps; packets follow one another.
LEMMA KeepsProps ==
  /\ \A d, s : Ahead(d, s) => Keeps(d, s) /\ Still(d, s) /\ s.held = d.held
                              /\ s.sent = d.sent /\ s.lanes = d.lanes /\ s.open = d.open
  /\ \A d \in DevSet : Keeps(d, d) /\ Still(d, d)
  /\ \A d, s, t : Keeps(d, s) /\ Keeps(s, t) => Keeps(d, t)
<1>1. ASSUME NEW d, NEW s, Ahead(d, s)
      PROVE  Keeps(d, s) /\ Still(d, s) /\ s.held = d.held
             /\ s.sent = d.sent /\ s.lanes = d.lanes /\ s.open = d.open
  BY <1>1 DEF Ahead, Keeps, Still, Ends
<1>2. \A d \in DevSet : Keeps(d, d) /\ Still(d, d)
  BY DEF Keeps, Still
<1>3. ASSUME NEW d, NEW s, NEW t, Keeps(d, s), Keeps(s, t)
      PROVE  Keeps(d, t)
  <2>1. /\ t \in DevSet /\ t.grabbed = d.grabbed /\ t.owed = d.owed /\ t.at = d.at
        /\ Ends(d) => Ends(t)
        /\ \A k \in Keys : Has(d, k) => Has(t, k)
    BY <1>3 DEF Keeps
  <2>2. ASSUME NEW k \in Keys, t.buffered = <<<<"key", k, 1>>>>
        PROVE  k \in t.known \/ t.buffered = d.buffered
    <3>1. k \in t.known \/ t.buffered = s.buffered
      BY <1>3, <2>2 DEF Keeps
    <3>2. t.buffered = s.buffered => k \in s.known \/ t.buffered = d.buffered
      BY <1>3, <2>2 DEF Keeps
    <3>3. k \in s.known => Has(t, k)
      BY <1>3 DEF Keeps, Has
    <3>4. t.buffered # <<<<"key", k, 0>>>>
      BY <2>2
    <3> QED
      BY <3>1, <3>2, <3>3, <3>4 DEF Has
  <2> QED
    BY <2>1, <2>2 DEF Keeps
<1> QED
  BY <1>1, <1>2, <1>3

\* What a packet leaves alone.
Same(d, s) ==
  /\ s \in DevSet /\ s.grabbed = d.grabbed /\ s.owed = d.owed /\ s.at = d.at
  /\ s.known = d.known /\ s.buffered = d.buffered /\ s.held = d.held
  /\ s.rel = d.rel /\ s.abs = d.abs /\ s.since = d.since

\* mark_forward_report_lane adds at most the lane.
LEMMA MarkProps ==
  ASSUME NEW d \in DevSet, NEW lane \in Classes, NEW events, NEW end \in BOOLEAN,
         NEW s, s = Mark(d, lane, events, end)
  PROVE  /\ Same(d, s) /\ s.open = d.open /\ s.sent = d.sent
         /\ events = <<>> \/ end \/ ~d.grabbed => s.lanes = d.lanes
         /\ ~(events = <<>> \/ end \/ ~d.grabbed) => s.lanes = d.lanes \cup {lane}
<1>1. CASE events = <<>> \/ end \/ ~d.grabbed
  <2>1. s = d
    BY <1>1 DEF Mark
  <2> QED
    BY <1>1, <2>1 DEF Same
<1>2. CASE ~(events = <<>> \/ end \/ ~d.grabbed)
  <2> DEFINE L == d.lanes \cup {lane}
             t == [d EXCEPT !.lanes = L]
  <2>1. t = s
    BY <1>2 DEF Mark
  <2>2. L \in SUBSET Classes
    BY DEF DevSet
  <2> HIDE DEF L
  <2>3. t \in DevSet
    BY <2>2 DEF DevSet
  <2>4. /\ t.grabbed = d.grabbed /\ t.owed = d.owed /\ t.at = d.at
        /\ t.known = d.known /\ t.buffered = d.buffered /\ t.open = d.open /\ t.held = d.held
        /\ t.rel = d.rel /\ t.abs = d.abs /\ t.since = d.since /\ t.sent = d.sent
        /\ t.lanes = L
    BY DEF DevSet
  <2> HIDE DEF t
  <2> QED
    BY <1>2, <2>1, <2>3, <2>4 DEF L, Same
<1> QED
  BY <1>1, <1>2

\* A packet opens its lane or ends the report on it.
LEMMA SentProps ==
  ASSUME NEW d \in DevSet, NEW lane \in Classes, NEW events, NEW end \in BOOLEAN,
         NEW s, s = Sent(d, lane, events, end)
  PROVE  /\ Same(d, s) /\ s.lanes = d.lanes /\ s.sent = d.at
         /\ end \/ events = <<Syn>> => s.open = d.open \ {lane}
         /\ ~(end \/ events = <<Syn>>) /\ events = <<>> => s.open = d.open
         /\ ~(end \/ events = <<Syn>>) /\ events # <<>> => s.open = d.open \cup {lane}
<1> DEFINE O == IF end \/ events = <<Syn>> THEN d.open \ {lane}
                ELSE IF events = <<>> THEN d.open ELSE d.open \cup {lane}
           t == [d EXCEPT !.open = O, !.sent = d.at]
<1>1. t = s
  BY DEF Sent
<1>2. O \in SUBSET Classes /\ d.at \in Nat
  BY DEF DevSet
<1>3. /\ end \/ events = <<Syn>> => O = d.open \ {lane}
      /\ ~(end \/ events = <<Syn>>) /\ events = <<>> => O = d.open
      /\ ~(end \/ events = <<Syn>>) /\ events # <<>> => O = d.open \cup {lane}
  OBVIOUS
<1> HIDE DEF O
<1>4. t \in DevSet
  BY <1>2 DEF DevSet
<1>5. /\ t.grabbed = d.grabbed /\ t.owed = d.owed /\ t.at = d.at
      /\ t.known = d.known /\ t.buffered = d.buffered /\ t.lanes = d.lanes /\ t.held = d.held
      /\ t.rel = d.rel /\ t.abs = d.abs /\ t.since = d.since /\ t.sent = d.at
      /\ t.open = O
  BY DEF DevSet
<1> HIDE DEF t
<1> QED
  BY <1>1, <1>3, <1>4, <1>5 DEF Same

\* A packet and the mark of its lane, in either order, leave the lane marked
\* unless the packet ends the report.
LEMMA PacketProps ==
  ASSUME NEW d \in DevSet, d.grabbed, NEW lane \in Classes, NEW events, NEW end \in BOOLEAN, NEW s,
         \/ s = Sent(Mark(d, lane, events, end), lane, events, end)
         \/ s = Mark(Sent(d, lane, events, end), lane, events, end)
  PROVE  /\ Keeps(d, s) /\ s.held = d.held /\ s.sent = d.at
         /\ s.rel = d.rel /\ s.abs = d.abs /\ s.since = d.since
         /\ s.lanes \subseteq d.lanes \cup {lane}
         /\ events = <<Syn>> => s.open = d.open \ {lane}
<1>1. /\ Same(d, s) /\ s.sent = d.at
      /\ events = <<>> \/ end \/ ~d.grabbed => s.lanes = d.lanes
      /\ ~(events = <<>> \/ end \/ ~d.grabbed) => s.lanes = d.lanes \cup {lane}
      /\ end \/ events = <<Syn>> => s.open = d.open \ {lane}
      /\ ~(end \/ events = <<Syn>>) /\ events = <<>> => s.open = d.open
      /\ ~(end \/ events = <<Syn>>) /\ events # <<>> => s.open = d.open \cup {lane}
  <2>1. CASE s = Sent(Mark(d, lane, events, end), lane, events, end)
    <3>1. PICK m : m = Mark(d, lane, events, end)
      OBVIOUS
    <3>2. /\ Same(d, m) /\ m.open = d.open /\ m.sent = d.sent
          /\ events = <<>> \/ end \/ ~d.grabbed => m.lanes = d.lanes
          /\ ~(events = <<>> \/ end \/ ~d.grabbed) => m.lanes = d.lanes \cup {lane}
      BY <3>1, MarkProps
    <3>3. s = Sent(m, lane, events, end) /\ m \in DevSet
      BY <2>1, <3>1, <3>2 DEF Same
    <3>4. /\ Same(m, s) /\ s.lanes = m.lanes /\ s.sent = m.at
          /\ end \/ events = <<Syn>> => s.open = m.open \ {lane}
          /\ ~(end \/ events = <<Syn>>) /\ events = <<>> => s.open = m.open
          /\ ~(end \/ events = <<Syn>>) /\ events # <<>> => s.open = m.open \cup {lane}
      BY <3>3, SentProps
    <3> QED
      BY <3>2, <3>4 DEF Same
  <2>2. CASE s = Mark(Sent(d, lane, events, end), lane, events, end)
    <3>1. PICK t : t = Sent(d, lane, events, end)
      OBVIOUS
    <3>2. /\ Same(d, t) /\ t.lanes = d.lanes /\ t.sent = d.at
          /\ end \/ events = <<Syn>> => t.open = d.open \ {lane}
          /\ ~(end \/ events = <<Syn>>) /\ events = <<>> => t.open = d.open
          /\ ~(end \/ events = <<Syn>>) /\ events # <<>> => t.open = d.open \cup {lane}
      BY <3>1, SentProps
    <3>3. s = Mark(t, lane, events, end) /\ t \in DevSet
      BY <2>2, <3>1, <3>2 DEF Same
    <3>4. /\ Same(t, s) /\ s.open = t.open /\ s.sent = t.sent
          /\ events = <<>> \/ end \/ ~t.grabbed => s.lanes = t.lanes
          /\ ~(events = <<>> \/ end \/ ~t.grabbed) => s.lanes = t.lanes \cup {lane}
      BY <3>3, MarkProps
    <3> QED
      BY <3>2, <3>4 DEF Same
  <2> QED
    BY <2>1, <2>2
<1>2. Ends(d) => Ends(s)
  BY <1>1 DEF Ends, Same
<1>3. Keeps(d, s)
  BY <1>1, <1>2 DEF Keeps, Has, Same
<1> QED
  BY <1>1, <1>3 DEF Same

\* What making a packet keeps: a look-ahead, and no more.
Made(d, g) ==
  /\ Keeps(d, g) /\ Still(d, g) /\ g.held = d.held /\ g.sent = d.sent
  /\ g.lanes = d.lanes /\ g.open = d.open

\* The packet of an event, with the look-ahead that decides whether it is the
\* whole report.
LEMMA FragmentProps ==
  ASSUME down \in SUBSET Keys, NEW d \in DevSet, NEW e \in Events,
         NEW f, f = Fragment(d, e)
  PROVE  /\ Made(d, f.dev)
         /\ f.end \in BOOLEAN
         /\ e = Syn => f.events = <<Syn>> /\ f.end = FALSE
<1> DEFINE next == Peeked(d)
           looks == e[1] \in {"key", "rel"} /\ d.grabbed /\ d.lanes = {}
           base == IF looks THEN next ELSE d
           after == [base EXCEPT !.scan = FALSE]
<1>1. /\ Keeps(d, base) /\ Still(d, base) /\ base.held = d.held /\ base.sent = d.sent
      /\ base.lanes = d.lanes /\ base.open = d.open
  <2> HIDE DEF looks
  <2>1. Ahead(d, next)
    BY PeekedProps
  <2> HIDE DEF next
  <2> QED
    BY <2>1, KeepsProps
<1>2. base \in DevSet
  BY <1>1 DEF Keeps
<1>3. /\ f.dev = after
      /\ f.end = (looks /\ next.buffered = <<Syn>>)
      /\ e[1] # "key" => f.events = <<>> \o <<e>>
  BY DEF Fragment
<1> HIDE DEF base
<1>4. /\ after \in DevSet /\ after.grabbed = base.grabbed /\ after.owed = base.owed
      /\ after.at = base.at
      /\ after.known = base.known /\ after.buffered = base.buffered
      /\ after.lanes = base.lanes /\ after.open = base.open
      /\ after.held = base.held
      /\ after.rel = base.rel /\ after.abs = base.abs /\ after.since = base.since
      /\ after.sent = base.sent
  BY <1>2 DEF DevSet
<1> HIDE DEF after
<1>5. Keeps(base, after)
  BY <1>4 DEF Keeps, Has, Ends
<1>6. Keeps(d, after)
  BY <1>1, <1>5, KeepsProps
<1>7. Still(d, after) /\ after.held = d.held /\ after.sent = d.sent
      /\ after.lanes = d.lanes /\ after.open = d.open
  BY <1>1, <1>4 DEF Still
<1>8. e = Syn => f.events = <<Syn>> /\ f.end = FALSE
  <2>1. Syn[1] = "syn"
    BY EventShape
  <2>2. <<>> \o <<Syn>> = <<Syn>>
    OBVIOUS
  <2> QED
    BY <1>3, <2>1, <2>2
<1>9. f.end \in BOOLEAN
  BY <1>3
<1> QED
  BY <1>3, <1>6, <1>7, <1>8, <1>9 DEF Made

\* deliver_physical_event: the event is the newest handed on.
LEMMA DeliverProps ==
  ASSUME down \in SUBSET Keys, NEW d \in DevSet, NEW lane \in Classes, NEW e \in Events,
         NEW s, s = Deliver(d, lane, e)
  PROVE  Keeps(d, s) /\ Still(d, s) /\ s.held = d.held /\ s.sent = d.at
<1>1. CASE ~Hooks(d, lane)
  <2> DEFINE t == [d EXCEPT !.sent = d.at]
  <2>1. t = s
    BY <1>1 DEF Deliver
  <2>2. d.at \in Nat
    BY DEF DevSet
  <2>3. /\ t \in DevSet /\ t.grabbed = d.grabbed /\ t.owed = d.owed /\ t.at = d.at
        /\ t.known = d.known /\ t.buffered = d.buffered /\ t.open = d.open /\ t.held = d.held
        /\ t.rel = d.rel /\ t.abs = d.abs /\ t.since = d.since /\ t.sent = d.at
        /\ t.lanes = d.lanes
    BY <2>2 DEF DevSet
  <2> HIDE DEF t
  <2> QED
    BY <2>1, <2>3 DEF Keeps, Still, Has, Ends
<1>2. CASE Hooks(d, lane)
  <2>1. PICK f : f = Fragment(d, e)
    OBVIOUS
  <2>2. Keeps(d, f.dev) /\ Still(d, f.dev) /\ f.dev.held = d.held /\ f.end \in BOOLEAN
    <3>1. Made(d, f.dev) /\ f.end \in BOOLEAN
      BY <2>1, FragmentProps
    <3> QED
      BY <3>1 DEF Made
  <2>3. PICK g : g = f.dev
    OBVIOUS
  <2>4. PICK end \in BOOLEAN : end = f.end
    BY <2>2
  <2>5. PICK events : events = f.events
    OBVIOUS
  <2>6. s = Sent(Mark(g, lane, events, end), lane, events, end)
    BY <1>2, <2>1, <2>3, <2>4, <2>5 DEF Deliver
  <2>7. g \in DevSet /\ g.at = d.at /\ g.grabbed
    BY <1>2, <2>2, <2>3 DEF Keeps, Hooks
  <2>8. /\ Keeps(g, s) /\ s.held = g.held /\ s.sent = g.at
        /\ s.rel = g.rel /\ s.abs = g.abs /\ s.since = g.since
    BY <2>6, <2>7, PacketProps
  <2>9. Keeps(d, g) /\ Still(d, g) /\ g.held = d.held
    BY <2>2, <2>3
  <2>10. Keeps(d, s)
    BY <2>8, <2>9, KeepsProps
  <2> QED
    BY <2>7, <2>8, <2>9, <2>10 DEF Still
<1> QED
  BY <1>1, <1>2

\* A move is older than what it is sent behind, so it does not count as newest.
LEMMA DeliverMoveProps ==
  ASSUME NEW d \in DevSet, NEW events, NEW end \in BOOLEAN, NEW s, s = DeliverMove(d, events, end)
  PROVE  /\ Keeps(d, s) /\ s.held = d.held /\ s.sent = d.sent
         /\ s.rel = d.rel /\ s.abs = d.abs /\ s.since = d.since
<1>1. CASE ~Hooks(d, "mouse")
  <2>1. s = d
    BY <1>1 DEF DeliverMove
  <2> QED
    BY <2>1, KeepsProps
<1>2. CASE Hooks(d, "mouse")
  <2>1. PICK t : t = Sent(Mark(d, "mouse", events, end), "mouse", events, end)
    OBVIOUS
  <2>2. "mouse" \in Classes /\ d.grabbed
    BY <1>2 DEF Classes, Hooks
  <2>3. /\ Keeps(d, t) /\ t.held = d.held
        /\ t.rel = d.rel /\ t.abs = d.abs /\ t.since = d.since
    BY <2>1, <2>2, PacketProps
  <2>4. t \in DevSet /\ d.sent \in Nat
    BY <2>3 DEF Keeps, DevSet
  <2> DEFINE u == [t EXCEPT !.sent = d.sent]
  <2>5. u = s
    BY <1>2, <2>1 DEF DeliverMove
  <2>6. /\ u \in DevSet /\ u.grabbed = t.grabbed /\ u.owed = t.owed /\ u.at = t.at
        /\ u.known = t.known /\ u.buffered = t.buffered /\ u.open = t.open /\ u.held = t.held
        /\ u.rel = t.rel /\ u.abs = t.abs /\ u.since = t.since /\ u.sent = d.sent
        /\ u.lanes = t.lanes
    BY <2>4 DEF DevSet
  <2> HIDE DEF u
  <2>7. Keeps(t, u)
    BY <2>6 DEF Keeps, Has, Ends
  <2>8. Keeps(d, u)
    BY <2>3, <2>7, KeepsProps
  <2> QED
    BY <2>3, <2>5, <2>6, <2>8
<1> QED
  BY <1>1, <1>2

\* dispatch_pending_mouse_move leaves no motion held back.
LEMMA FlushMovesProps ==
  ASSUME NEW d \in DevSet, NEW reportEnd \in BOOLEAN, NEW s, s = FlushMoves(d, reportEnd)
  PROVE  /\ Keeps(d, s) /\ s.held = d.held /\ s.sent = d.sent
         /\ s.rel = FALSE /\ s.abs = FALSE /\ s.since = 0
<1>1. PICK end \in BOOLEAN : end = (reportEnd /\ "mouse" \notin d.lanes)
  OBVIOUS
<1>2. PICK moved : moved = SelectSeq(<<<<"rel", "x", d.x>>, <<"rel", "y", d.y>>>>,
                                     LAMBDA e : e[3] # 0)
  OBVIOUS
<1>3. PICK r : r = IF ~d.rel THEN d
           ELSE DeliverMove([d EXCEPT !.rel = FALSE, !.x = 0, !.y = 0], moved, end /\ ~d.abs)
  OBVIOUS
<1>4. PICK a : a = IF ~r.abs THEN r
           ELSE DeliverMove([r EXCEPT !.abs = FALSE],
                            <<<<"abs", "x", 0>>, <<"abs", "y", 0>>>>, end)
  OBVIOUS
<1>5. s = [a EXCEPT !.since = 0]
  BY <1>1, <1>2, <1>3, <1>4 DEF FlushMoves
<1>6. Keeps(d, r) /\ r.held = d.held /\ r.sent = d.sent /\ r.rel = FALSE
  <2>1. CASE ~d.rel
    <3>1. d.rel \in BOOLEAN
      BY DEF DevSet
    <3> QED
      BY <1>3, <2>1, <3>1, KeepsProps
  <2>2. CASE d.rel
    <3> DEFINE t == [d EXCEPT !.rel = FALSE, !.x = 0, !.y = 0]
    <3>1. t \in DevSet
      <4>1. ASSUME NEW i \in Int, NEW j \in Int
            PROVE  [d EXCEPT !.rel = FALSE, !.x = i, !.y = j] \in DevSet
        BY DEF DevSet
      <4>2. 0 \in Int
        OBVIOUS
      <4> QED
        BY <4>1, <4>2, Zenon
    <3>2. /\ t.grabbed = d.grabbed /\ t.owed = d.owed /\ t.at = d.at
          /\ t.known = d.known /\ t.buffered = d.buffered /\ t.open = d.open
          /\ t.held = d.held /\ t.rel = FALSE /\ t.sent = d.sent /\ t.lanes = d.lanes
      BY DEF DevSet
    <3>3. PICK u \in DevSet : u = t
      BY <3>1
    <3>4. r = DeliverMove(u, moved, end /\ ~d.abs)
      BY <1>3, <2>2, <3>3
    <3> HIDE DEF t
    <3>5. PICK b \in BOOLEAN : r = DeliverMove(u, moved, b)
      <4>1. (end /\ ~d.abs) \in BOOLEAN
        OBVIOUS
      <4> QED
        BY <3>4, <4>1, Zenon
    <3>6. /\ Keeps(u, r) /\ r.held = u.held /\ r.sent = u.sent /\ r.rel = u.rel
      BY <3>5, DeliverMoveProps
    <3>7. Keeps(d, u)
      BY <3>2, <3>3 DEF Keeps, Has, Ends
    <3> QED
      BY <3>2, <3>3, <3>6, <3>7, KeepsProps
  <2> QED
    BY <2>1, <2>2
<1>7. r \in DevSet
  BY <1>6 DEF Keeps
<1>8. Keeps(r, a) /\ a.held = r.held /\ a.sent = r.sent /\ a.rel = FALSE /\ a.abs = FALSE
  <2>1. CASE ~r.abs
    <3>1. r.abs \in BOOLEAN
      BY <1>7 DEF DevSet
    <3> QED
      BY <1>4, <1>6, <1>7, <2>1, <3>1, KeepsProps
  <2>2. CASE r.abs
    <3> DEFINE t == [r EXCEPT !.abs = FALSE]
    <3>1. t \in DevSet
      BY <1>7 DEF DevSet
    <3>2. /\ t.grabbed = r.grabbed /\ t.owed = r.owed /\ t.at = r.at
          /\ t.known = r.known /\ t.buffered = r.buffered /\ t.open = r.open
          /\ t.held = r.held /\ t.rel = r.rel /\ t.sent = r.sent /\ t.lanes = r.lanes
          /\ t.abs = FALSE
      BY <1>7 DEF DevSet
    <3>3. PICK u \in DevSet : u = t
      BY <3>1
    <3>4. PICK v : v = <<<<"abs", "x", 0>>, <<"abs", "y", 0>>>>
      OBVIOUS
    <3>5. a = DeliverMove(u, v, end)
      BY <1>4, <2>2, <3>3, <3>4
    <3> HIDE DEF t
    <3>6. /\ Keeps(u, a) /\ a.held = u.held /\ a.sent = u.sent /\ a.rel = u.rel /\ a.abs = u.abs
      BY <3>5, DeliverMoveProps
    <3>7. Keeps(r, u)
      BY <3>2, <3>3 DEF Keeps, Has, Ends
    <3> QED
      BY <1>6, <3>2, <3>3, <3>6, <3>7, KeepsProps
  <2> QED
    BY <2>1, <2>2
<1>9. a \in DevSet
  BY <1>8 DEF Keeps
<1> DEFINE t == [a EXCEPT !.since = 0]
<1>10. /\ t \in DevSet /\ t.grabbed = a.grabbed /\ t.owed = a.owed /\ t.at = a.at
       /\ t.known = a.known /\ t.buffered = a.buffered /\ t.open = a.open
       /\ t.held = a.held /\ t.rel = a.rel /\ t.sent = a.sent /\ t.lanes = a.lanes
       /\ t.abs = a.abs /\ t.since = 0
  BY <1>9 DEF DevSet
<1>11. t = s
  BY <1>5
<1> HIDE DEF t
<1>12. Keeps(a, t)
  BY <1>10 DEF Keeps, Has, Ends
<1>13. Keeps(d, a)
  BY <1>6, <1>8, KeepsProps
<1>14. Keeps(d, t)
  BY <1>12, <1>13, KeepsProps
<1> QED
  BY <1>6, <1>8, <1>10, <1>11, <1>14

\* A raw event goes to its lane; of the keys, it turns only its own.
LEMMA ForwardRawProps ==
  ASSUME down \in SUBSET Keys, NEW d \in DevSet, d.grabbed, NEW lane \in Classes, NEW e \in Events,
         NEW s, s = ForwardRaw(d, lane, e)
  PROVE  /\ Keeps(d, s) /\ Still(d, s) /\ s.sent = d.at
         /\ e[1] = "key" => s.held = Turn(d.held, e)
         /\ e[1] # "key" => s.held = d.held
         /\ e = Syn => s.open = d.open \ {lane} /\ s.lanes \subseteq d.lanes \cup {lane}
<1>1. PICK f : f = Fragment(d, e)
  OBVIOUS
<1>2. /\ Keeps(d, f.dev) /\ Still(d, f.dev) /\ f.dev.held = d.held /\ f.end \in BOOLEAN
      /\ f.dev.lanes = d.lanes /\ f.dev.open = d.open
      /\ e = Syn => f.events = <<Syn>>
  <2>1. Made(d, f.dev) /\ f.end \in BOOLEAN /\ (e = Syn => f.events = <<Syn>>)
    BY <1>1, FragmentProps
  <2> QED
    BY <2>1 DEF Made
<1>3. PICK g : g = f.dev
  OBVIOUS
<1>4. PICK end \in BOOLEAN : end = f.end
  BY <1>2
<1>5. PICK events : events = f.events
  OBVIOUS
<1>6. PICK t : t = Mark(Sent(g, lane, events, end), lane, events, end)
  OBVIOUS
<1>7. g \in DevSet /\ g.grabbed /\ g.at = d.at /\ Keeps(d, g) /\ Still(d, g) /\ g.held = d.held
      /\ g.lanes = d.lanes /\ g.open = d.open
  BY <1>2, <1>3 DEF Keeps
<1>8. /\ Keeps(g, t) /\ t.held = g.held /\ t.sent = g.at
      /\ t.rel = g.rel /\ t.abs = g.abs /\ t.since = g.since
      /\ t.lanes \subseteq g.lanes \cup {lane}
      /\ events = <<Syn>> => t.open = g.open \ {lane}
  BY <1>6, <1>7, PacketProps
<1>9. t \in DevSet
  BY <1>8 DEF Keeps
<1> DEFINE H == IF e[1] = "key" THEN Turn(t.held, e) ELSE t.held
           u == [t EXCEPT !.held = H]
<1>10. u = s
  BY <1>1, <1>3, <1>4, <1>5, <1>6 DEF ForwardRaw
<1>11. H \in SUBSET Keys
  BY <1>9, EventShape DEF Turn, DevSet
<1>12. /\ e[1] = "key" => H = Turn(d.held, e)
       /\ e[1] # "key" => H = d.held
  BY <1>7, <1>8
<1> HIDE DEF H
<1>13. /\ u \in DevSet /\ u.grabbed = t.grabbed /\ u.owed = t.owed /\ u.at = t.at
       /\ u.known = t.known /\ u.buffered = t.buffered /\ u.open = t.open
       /\ u.held = H /\ u.rel = t.rel /\ u.sent = t.sent /\ u.lanes = t.lanes
       /\ u.abs = t.abs /\ u.since = t.since
  BY <1>9, <1>11 DEF DevSet
<1> HIDE DEF u
<1>14. Keeps(t, u)
  BY <1>13 DEF Keeps, Has, Ends
<1>15. Keeps(d, t)
  BY <1>7, <1>8, KeepsProps
<1>16. Keeps(d, u)
  BY <1>14, <1>15, KeepsProps
<1>17. Still(d, u)
  BY <1>7, <1>8, <1>13 DEF Still
<1> QED
  BY <1>2, <1>5, <1>7, <1>8, <1>10, <1>12, <1>13, <1>16, <1>17

\* forward_unhandled_event: an end goes to every lane that waits for it, and a
\* release gets through.
LEMMA ForwardUnhandledProps ==
  ASSUME down \in SUBSET Keys, NEW d \in DevSet, NEW e \in Events,
         NEW s, s = ForwardUnhandled(d, e)
  PROVE  /\ Keeps(d, s) /\ Still(d, s) /\ s.sent \in {d.sent, d.at}
         /\ e[1] # "key" => s.held = d.held
         /\ e[1] = "key" => s.held \in {d.held, Turn(d.held, e)}
         /\ ~d.grabbed => s = d
         /\ d.grabbed /\ e[1] = "key" /\ e[3] = 0 => s.held = Turn(d.held, e)
<1>1. CASE ~d.grabbed \/ Shadowed(e)
  <2>1. s = d
    BY <1>1 DEF ForwardUnhandled
  <2>2. Shadowed(e) => e[1] # "key"
    BY DEF Shadowed
  <2> QED
    BY <1>1, <2>1, <2>2, KeepsProps
<1>2. CASE d.grabbed /\ ~Shadowed(e) /\ e = Syn
  <2>1. e[1] # "key"
    BY <1>2, EventShape
  <2>2. PICK t : t = IF "keyboard" \in d.lanes THEN ForwardRaw(d, "keyboard", e) ELSE d
    OBVIOUS
  <2>3. PICK u : u = IF "mouse" \in d.lanes THEN ForwardRaw(t, "mouse", e) ELSE t
    OBVIOUS
  <2>4. s = [u EXCEPT !.lanes = {}]
    BY <1>2, <2>2, <2>3 DEF ForwardUnhandled
  <2>5. "keyboard" \in Classes /\ "mouse" \in Classes
    BY DEF Classes
  <2>6. /\ Keeps(d, t) /\ Still(d, t) /\ t.sent \in {d.sent, d.at} /\ t.held = d.held
        /\ t.open = d.open \ (d.lanes \cap {"keyboard"})
    <3>1. CASE "keyboard" \in d.lanes
      <4>1. t = ForwardRaw(d, "keyboard", e)
        BY <2>2, <3>1
      <4>2. /\ Keeps(d, t) /\ Still(d, t) /\ t.sent = d.at /\ t.held = d.held
            /\ t.open = d.open \ {"keyboard"}
        BY <1>2, <2>1, <2>5, <4>1, ForwardRawProps
      <4> QED
        BY <3>1, <4>2
    <3>2. CASE "keyboard" \notin d.lanes
      <4>1. t = d
        BY <2>2, <3>2
      <4> QED
        BY <3>2, <4>1, KeepsProps
    <3> QED
      BY <3>1, <3>2
  <2>7. t \in DevSet /\ t.at = d.at /\ t.grabbed
    BY <1>2, <2>6 DEF Keeps
  <2>8. /\ Keeps(t, u) /\ Still(t, u) /\ u.sent \in {t.sent, t.at} /\ u.held = t.held
        /\ u.open = t.open \ (d.lanes \cap {"mouse"})
    <3>1. CASE "mouse" \in d.lanes
      <4>1. u = ForwardRaw(t, "mouse", e)
        BY <2>3, <3>1
      <4>2. /\ Keeps(t, u) /\ Still(t, u) /\ u.sent = t.at /\ u.held = t.held
            /\ u.open = t.open \ {"mouse"}
        BY <1>2, <2>1, <2>5, <2>7, <4>1, ForwardRawProps
      <4> QED
        BY <3>1, <4>2
    <3>2. CASE "mouse" \notin d.lanes
      <4>1. u = t
        BY <2>3, <3>2
      <4> QED
        BY <2>7, <3>2, <4>1, KeepsProps
    <3> QED
      BY <3>1, <3>2
  <2>9. u \in DevSet
    BY <2>8 DEF Keeps
  <2> DEFINE v == [u EXCEPT !.lanes = {}]
  <2>10. /\ v \in DevSet /\ v.grabbed = u.grabbed /\ v.owed = u.owed /\ v.at = u.at
         /\ v.known = u.known /\ v.buffered = u.buffered /\ v.open = u.open
         /\ v.held = u.held /\ v.rel = u.rel /\ v.sent = u.sent
         /\ v.abs = u.abs /\ v.since = u.since
    BY <2>9 DEF DevSet
  <2>11. v = s
    BY <2>4
  <2> HIDE DEF v
  <2>12. d.lanes \subseteq {"keyboard", "mouse"}
    BY DEF DevSet, Classes
  <2>13. Ends(d) => u.open = {}
    BY <1>2, <2>6, <2>8, <2>12 DEF Ends
  <2>14. Ends(d) => Ends(v)
    BY <2>10, <2>13 DEF Ends
  <2>15. Keeps(d, u)
    BY <2>6, <2>8, KeepsProps
  <2>16. Keeps(d, v)
    BY <2>10, <2>14, <2>15 DEF Keeps, Has
  <2>17. Still(d, v)
    BY <2>6, <2>8, <2>10 DEF Still
  <2> QED
    BY <1>2, <2>1, <2>6, <2>7, <2>8, <2>10, <2>11, <2>16, <2>17
<1>3. CASE d.grabbed /\ ~Shadowed(e) /\ e # Syn
  <2>1. CASE RawClass(e) \in blocks /\ ~(e[1] = "key" /\ e[3] = 0)
    <3>1. s = d
      BY <1>3, <2>1 DEF ForwardUnhandled
    <3> QED
      BY <2>1, <3>1, KeepsProps
  <2>2. CASE ~(RawClass(e) \in blocks /\ ~(e[1] = "key" /\ e[3] = 0))
    <3>1. PICK lane \in Classes : s = ForwardRaw(d, lane, e)
      <4>1. RawLane(e) \in Classes
        BY DEF RawLane, Classes
      <4> QED
        BY <1>3, <2>2, <4>1 DEF ForwardUnhandled
    <3>2. /\ Keeps(d, s) /\ Still(d, s) /\ s.sent = d.at
          /\ e[1] = "key" => s.held = Turn(d.held, e)
          /\ e[1] # "key" => s.held = d.held
      BY <1>3, <3>1, ForwardRawProps
    <3> QED
      BY <1>3, <3>2
  <2> QED
    BY <2>1, <2>2
<1> QED
  BY <1>1, <1>2, <1>3
-----------------------------------------------------------------------------
(* Handling an event                                                       *)

\* The raw keys while an event is handled: it may be the release of one.
Due(d, e) ==
  /\ \A k \in d.held : RawKey(k) /\ (d.grabbed => Has(d, k) \/ e = <<"key", k, 0>>)
  /\ ~d.grabbed => d.held \subseteq d.owed
  /\ d.grabbed => d.owed = {}
  /\ \A k \in Keys : d.buffered = <<<<"key", k, 1>>>> => k \in d.known
  /\ \A k \in Keys : e = <<"key", k, 1>> => Has(d, k)

\* Once the release owed by an ungrabbed source is out.
Ready(d, e) == Due(d, e) /\ (~d.grabbed => Raw(d))

\* No motion is held back.
Calm(d) == d.rel = FALSE /\ d.abs = FALSE /\ d.since = 0 /\ d.sent <= d.at

\* Packets that press nothing change nothing of this.
LEMMA ReadyProps ==
  ASSUME NEW d \in DevSet, NEW s, Keeps(d, s), s.held = d.held, NEW e
  PROVE  (Raw(d) => Raw(s)) /\ (Due(d, e) => Due(s, e)) /\ (Ready(d, e) => Ready(s, e))
<1>1. d.held \subseteq Keys
  BY DEF DevSet
<1>2. ASSUME \A k \in Keys : d.buffered = <<<<"key", k, 1>>>> => k \in d.known,
             NEW k \in Keys, s.buffered = <<<<"key", k, 1>>>>
      PROVE  k \in s.known
  <2>1. k \in s.known \/ s.buffered = d.buffered
    BY <1>2 DEF Keeps
  <2>2. s.buffered = d.buffered => Has(d, k)
    BY <1>2 DEF Has
  <2>3. Has(d, k) => Has(s, k)
    BY DEF Keeps
  <2>4. s.buffered # <<<<"key", k, 0>>>>
    BY <1>2
  <2> QED
    BY <2>1, <2>2, <2>3, <2>4 DEF Has
<1>3. /\ s.grabbed = d.grabbed /\ s.owed = d.owed
      /\ \A k \in Keys : Has(d, k) => Has(s, k)
  BY DEF Keeps
<1>4. Raw(d) => Raw(s)
  BY <1>1, <1>2, <1>3 DEF Raw
<1>5. Due(d, e) => Due(s, e)
  BY <1>1, <1>2, <1>3 DEF Due
<1> QED
  BY <1>3, <1>4, <1>5 DEF Ready

\* An event that releases no raw key leaves them as they should be; so does
\* one that turns its own.
LEMMA RawProps ==
  ASSUME NEW d \in DevSet, NEW e \in Events, Ready(d, e)
  PROVE  /\ (e[1] = "key" /\ e[3] = 0 => e[2] \notin d.held) => Raw(d)
         /\ \A s : /\ d.grabbed /\ Keeps(d, s) /\ e[1] = "key" /\ RawKey(e[2])
                   /\ s.held = Turn(d.held, e)
                   => Raw(s)
<1>1. ASSUME e[1] = "key" /\ e[3] = 0 => e[2] \notin d.held
      PROVE  Raw(d)
  <2>1. ASSUME NEW k \in d.held
        PROVE  e # <<"key", k, 0>>
    BY <1>1
  <2> QED
    BY <2>1 DEF Ready, Due, Raw
<1>2. ASSUME NEW s, d.grabbed, Keeps(d, s), e[1] = "key", RawKey(e[2]),
             s.held = Turn(d.held, e)
      PROVE  Raw(s)
  <2>1. e[2] \in Keys /\ e[3] \in {0, 1} /\ e = <<"key", e[2], e[3]>>
    BY <1>2, EventShape
  <2>2. d.held \subseteq Keys
    BY DEF DevSet
  <2>3. /\ s.grabbed = d.grabbed /\ s.owed = d.owed
        /\ \A k \in Keys : Has(d, k) => Has(s, k)
    BY <1>2 DEF Keeps
  <2>4. ASSUME NEW k \in s.held
        PROVE  RawKey(k) /\ Has(s, k)
    <3>1. CASE e[3] = 0
      <4>1. k \in d.held /\ k # e[2]
        BY <1>2, <2>4, <3>1 DEF Turn
      <4>2. e # <<"key", k, 0>>
        BY <4>1
      <4> QED
        BY <1>2, <2>2, <2>3, <4>1, <4>2 DEF Ready, Due
    <3>2. CASE e[3] = 1
      <4>1. k \in d.held \/ k = e[2]
        BY <1>2, <2>4, <3>2 DEF Turn
      <4>2. e # <<"key", k, 0>>
        BY <3>2
      <4>3. Has(d, e[2])
        BY <2>1, <3>2 DEF Ready, Due
      <4> QED
        BY <1>2, <2>1, <2>2, <2>3, <4>1, <4>2, <4>3 DEF Ready, Due
    <3> QED
      BY <2>1, <3>1, <3>2
  <2>5. ASSUME NEW k \in Keys, s.buffered = <<<<"key", k, 1>>>>
        PROVE  k \in s.known
    <3>1. k \in s.known \/ s.buffered = d.buffered
      BY <1>2, <2>5 DEF Keeps
    <3>2. s.buffered = d.buffered => Has(d, k)
      BY <2>5 DEF Has, Ready, Due
    <3>3. s.buffered # <<<<"key", k, 0>>>>
      BY <2>5
    <3> QED
      BY <2>3, <3>1, <3>2, <3>3 DEF Has
  <2> QED
    BY <1>2, <2>3, <2>4, <2>5 DEF Raw, Ready, Due
<1> QED
  BY <1>1, <1>2

\* Without motion held back, a packet leaves none.
LEMMA CalmProps ==
  ASSUME NEW d \in DevSet
  PROVE  /\ \A s : Keeps(d, s) /\ Still(d, s) /\ Calm(d) /\ s.sent \in {d.sent, d.at} => Calm(s)
         /\ Calm(d) => Motion(d) /\ ~Moving(d)
         /\ Motion(d) /\ ~Moving(d) => Calm(d)
<1>1. d.sent \in Nat /\ d.at \in Nat /\ d.since \in Nat /\ d.rel \in BOOLEAN /\ d.abs \in BOOLEAN
  BY DEF DevSet
<1>2. ASSUME NEW s, Keeps(d, s), Still(d, s), Calm(d), s.sent \in {d.sent, d.at}
      PROVE  Calm(s)
  <2>1. s.at = d.at
    BY <1>2 DEF Keeps
  <2> QED
    BY <1>1, <1>2, <2>1 DEF Still, Calm
<1>3. Calm(d) => Motion(d) /\ ~Moving(d)
  BY <1>1 DEF Calm, Motion, Moving
<1>4. Motion(d) /\ ~Moving(d) => Calm(d)
  BY <1>1 DEF Calm, Motion, Moving
<1> QED
  BY <1>2, <1>3, <1>4

\* The release owed since the source was ungrabbed.
LEMMA ReleaseAfterUngrabProps ==
  ASSUME NEW d \in DevSet, NEW e \in Events, e[1] = "key", Due(d, e),
         NEW taken \in BOOLEAN, NEW s, s = ReleaseAfterUngrab(d, e, taken)
  PROVE  /\ s \in DevSet /\ Ready(s, e)
         /\ s.grabbed = d.grabbed /\ s.at = d.at /\ s.sent = d.sent
         /\ s.rel = d.rel /\ s.abs = d.abs /\ s.since = d.since
         /\ Ends(d) => Ends(s)
<1>1. e[2] \in Keys /\ e[3] \in {0, 1} /\ e = <<"key", e[2], e[3]>>
  BY EventShape
<1>2. CASE d.grabbed \/ e[3] # 0 \/ e[2] \notin d.owed \/ ~taken
  <2>1. s = d
    BY <1>2 DEF ReleaseAfterUngrab
  <2>2. ~d.grabbed => Raw(d)
    BY DEF Due, Raw
  <2> QED
    BY <2>1, <2>2 DEF Ready
<1>3. CASE ~(d.grabbed \/ e[3] # 0 \/ e[2] \notin d.owed \/ ~taken)
  <2> DEFINE O == d.owed \ {e[2]}
             H == d.held \ {e[2]}
             t == [d EXCEPT !.owed = O, !.held = H]
  <2>1. t = s
    BY <1>3 DEF ReleaseAfterUngrab
  <2>2. O \in SUBSET Keys /\ H \in SUBSET Keys
    BY DEF DevSet
  <2>3. H \subseteq d.held /\ e[2] \notin H /\ (d.held \subseteq d.owed => H \subseteq O)
    OBVIOUS
  <2> HIDE DEF O, H
  <2>4. /\ t \in DevSet /\ t.grabbed = d.grabbed /\ t.owed = O /\ t.at = d.at
        /\ t.known = d.known /\ t.buffered = d.buffered /\ t.open = d.open
        /\ t.held = H /\ t.rel = d.rel /\ t.sent = d.sent /\ t.lanes = d.lanes
        /\ t.abs = d.abs /\ t.since = d.since
    BY <2>2 DEF DevSet
  <2> HIDE DEF t
  <2>5. \A k \in t.held : RawKey(k)
    BY <2>3, <2>4 DEF Due
  <2>6. /\ \A k \in t.held : RawKey(k)
        /\ t.held \subseteq t.owed
        /\ \A k \in Keys : t.buffered = <<<<"key", k, 1>>>> => k \in t.known
        /\ \A k \in Keys : e = <<"key", k, 1>> => Has(t, k)
    BY <1>3, <2>3, <2>4, <2>5 DEF Due, Has
  <2>7. Ready(t, e)
    BY <1>3, <2>4, <2>6 DEF Ready, Due, Raw
  <2> QED
    BY <2>1, <2>4, <2>7 DEF Ends
<1> QED
  BY <1>2, <1>3

\* What holds of a source once an event is handled.
Handled(s) == s \in DevSet /\ Ends(s) /\ Motion(s) /\ Raw(s)

\* Motion that goes out leaves everything ready.
LEMMA FlushedProps ==
  ASSUME NEW d \in DevSet, NEW e, Ends(d), Ready(d, e), d.sent <= d.at,
         NEW reportEnd \in BOOLEAN, NEW s, s = FlushMoves(d, reportEnd)
  PROVE  s \in DevSet /\ Ends(s) /\ Ready(s, e) /\ Calm(s) /\ s.at = d.at
<1>1. /\ Keeps(d, s) /\ s.held = d.held /\ s.sent = d.sent
      /\ s.rel = FALSE /\ s.abs = FALSE /\ s.since = 0
  BY FlushMovesProps
<1>2. Ready(s, e)
  BY <1>1, ReadyProps
<1> QED
  BY <1>1, <1>2 DEF Keeps, Calm

\* So does an event that hooks and observers see.
LEMMA DeliveredProps ==
  ASSUME down \in SUBSET Keys, NEW d \in DevSet, NEW lane \in Classes, NEW e \in Events,
         Ends(d), Ready(d, e), Calm(d), NEW s, s = Deliver(d, lane, e)
  PROVE  s \in DevSet /\ Ends(s) /\ Ready(s, e) /\ Calm(s) /\ s.at = d.at
<1>1. Keeps(d, s) /\ Still(d, s) /\ s.held = d.held /\ s.sent = d.at
  BY DeliverProps
<1>2. Ready(s, e)
  BY <1>1, ReadyProps
<1>3. Calm(s)
  BY <1>1, CalmProps
<1> QED
  BY <1>1, <1>2, <1>3 DEF Keeps

\* An event that no hook sees is handled once it is forwarded.
LEMMA ForwardedProps ==
  ASSUME down \in SUBSET Keys, NEW d \in DevSet, NEW e \in Events,
         Ends(d), Ready(d, e), Calm(d), e[1] = "key" => RawKey(e[2]),
         NEW s, s = ForwardUnhandled(d, e)
  PROVE  Handled(s) /\ Calm(s) /\ s.at = d.at
<1>1. /\ Keeps(d, s) /\ Still(d, s) /\ s.sent \in {d.sent, d.at}
      /\ e[1] # "key" => s.held = d.held
      /\ e[1] = "key" => s.held \in {d.held, Turn(d.held, e)}
      /\ ~d.grabbed => s = d
      /\ d.grabbed /\ e[1] = "key" /\ e[3] = 0 => s.held = Turn(d.held, e)
  BY ForwardUnhandledProps
<1>2. s \in DevSet /\ Ends(s) /\ s.at = d.at
  BY <1>1 DEF Keeps
<1>3. Calm(s)
  BY <1>1, CalmProps
<1>4. Motion(s)
  BY <1>2, <1>3, CalmProps
<1>5. Raw(s)
  <2>1. CASE ~d.grabbed
    BY <1>1, <2>1 DEF Ready
  <2>2. CASE d.grabbed /\ e[1] = "key" /\ s.held = Turn(d.held, e)
    BY <1>1, <2>2, RawProps
  <2>3. CASE (e[1] = "key" => e[3] # 0) /\ s.held = d.held
    <3>1. Raw(d)
      BY <2>3, RawProps
    <3> QED
      BY <1>1, <2>3, <3>1, ReadyProps
  <2> QED
    BY <1>1, <2>1, <2>2, <2>3
<1> QED
  BY <1>2, <1>3, <1>4, <1>5 DEF Handled

\* Motion before a key goes out before it, and a release of a raw key is forwarded.
LEMMA OnKeyProps ==
  ASSUME kind \in Kinds, down \in SUBSET Keys, NEW d \in DevSet, NEW e \in Events,
         e[1] = "key", kind \cap {"keyboard", "mouse"} # {},
         Ends(d), Due(d, e), d.sent <= d.at,
         NEW taken \in BOOLEAN, NEW s, s = OnKey(d, e, taken)
  PROVE  Handled(s) /\ s.at = d.at
<1>1. PICK r : r = ReleaseAfterUngrab(d, e, taken)
  OBVIOUS
<1>2. /\ r \in DevSet /\ Ready(r, e) /\ Ends(r) /\ r.at = d.at /\ r.sent = d.sent
  BY <1>1, ReleaseAfterUngrabProps
<1>3. PICK o : o = FlushMoves(r, FALSE)
  OBVIOUS
<1>4. o \in DevSet /\ Ends(o) /\ Ready(o, e) /\ Calm(o) /\ o.at = d.at
  <2>1. PICK b \in BOOLEAN : b = FALSE
    OBVIOUS
  <2>2. o = FlushMoves(r, b) /\ r.sent <= r.at
    BY <1>2, <1>3, <2>1
  <2> QED
    BY <1>2, <2>2, FlushedProps
<1>5. "keyboard" \in Classes /\ "mouse" \in Classes
  BY DEF Classes
<1>6. ASSUME NEW b \in DevSet, Ready(b, e), Calm(b), Ends(b), b.at = d.at, ~RawKey(e[2])
      PROVE  Handled(b)
  <2>1. e[2] \notin b.held
    BY <1>6 DEF Ready, Due
  <2>2. Raw(b)
    BY <1>6, <2>1, RawProps
  <2>3. Motion(b)
    BY <1>6, CalmProps
  <2> QED
    BY <1>6, <2>2, <2>3 DEF Handled
<1>7. CASE "mouse" \in kind /\ e[2] \in Buttons
  <2>1. PICK b : b = Deliver(o, "mouse", e)
    OBVIOUS
  <2>2. b \in DevSet /\ Ends(b) /\ Ready(b, e) /\ Calm(b) /\ b.at = d.at
    BY <1>4, <1>5, <2>1, DeliveredProps
  <2>3. CASE "hook" \in kind
    <3>1. s = b
      BY <1>1, <1>3, <1>7, <2>1, <2>3 DEF OnKey, DispatchMouseButtonEvent
    <3>2. ~RawKey(e[2])
      BY <1>7, <2>3 DEF RawKey
    <3> QED
      BY <1>6, <2>2, <3>1, <3>2
  <2>4. CASE "hook" \notin kind
    <3>1. s = ForwardUnhandled(b, e)
      BY <1>1, <1>3, <1>7, <2>1, <2>4 DEF OnKey, DispatchMouseButtonEvent
    <3>2. RawKey(e[2])
      BY <1>7, <2>4 DEF RawKey
    <3> QED
      BY <2>2, <3>1, <3>2, ForwardedProps
  <2> QED
    BY <2>3, <2>4
<1>8. CASE ~("mouse" \in kind /\ e[2] \in Buttons) /\ "keyboard" \in kind /\ e[2] \in KeyboardKeys
  <2>1. s = Deliver(o, "keyboard", e)
    BY <1>1, <1>3, <1>8 DEF OnKey, DispatchKeyboardEvent
  <2>2. s \in DevSet /\ Ends(s) /\ Ready(s, e) /\ Calm(s) /\ s.at = d.at
    BY <1>4, <1>5, <2>1, DeliveredProps
  <2>3. ~RawKey(e[2])
    BY <1>8 DEF RawKey
  <2> QED
    BY <1>6, <2>2, <2>3
<1>9. CASE /\ ~("mouse" \in kind /\ e[2] \in Buttons)
           /\ ~("keyboard" \in kind /\ e[2] \in KeyboardKeys)
  <2>1. s = ForwardUnhandled(o, e)
    BY <1>1, <1>3, <1>9 DEF OnKey
  <2>2. RawKey(e[2])
    BY <1>9 DEF RawKey
  <2> QED
    BY <1>4, <2>1, <2>2, ForwardedProps
<1> QED
  BY <1>7, <1>8, <1>9

\* An event that is not a key has no raw key due.
LEMMA DueProps ==
  ASSUME NEW d \in DevSet, NEW e, Due(d, e), e[1] # "key"
  PROVE  Raw(d) /\ Ready(d, e)
<1>1. \A k \in d.held : e # <<"key", k, 0>>
  OBVIOUS
<1>2. Raw(d)
  BY <1>1 DEF Due, Raw
<1> QED
  BY <1>2 DEF Ready

\* The source with motion held back.
Holding(d, rel, abs, x, y) ==
  [d EXCEPT !.since = (IF d.since = 0 THEN d.at ELSE d.since),
            !.rel = rel, !.abs = abs, !.x = x, !.y = y]

\* Motion is held back from its first event on, which is newer than what went out.
LEMMA HoldBackProps ==
  ASSUME NEW d \in DevSet, "hook" \in kind, Ends(d), Motion(d), Raw(d), d.sent < d.at,
         NEW rel \in BOOLEAN, NEW abs \in BOOLEAN, rel \/ abs, d.rel => rel, d.abs => abs,
         NEW x \in Int, NEW y \in Int, NEW s, s = Holding(d, rel, abs, x, y)
  PROVE  Handled(s) /\ s.at = d.at
<1>1. d.since \in Nat /\ d.at \in Nat /\ d.sent \in Nat
  BY DEF DevSet
<1>2. PICK n \in Nat : n = (IF d.since = 0 THEN d.at ELSE d.since)
  BY <1>1
<1> DEFINE t == [d EXCEPT !.since = n, !.rel = rel, !.abs = abs, !.x = x, !.y = y]
<1>3. t \in DevSet
  BY <1>2 DEF DevSet
<1>4. /\ t.grabbed = d.grabbed /\ t.owed = d.owed /\ t.at = d.at
      /\ t.known = d.known /\ t.buffered = d.buffered /\ t.open = d.open
      /\ t.held = d.held /\ t.rel = rel /\ t.sent = d.sent /\ t.lanes = d.lanes
      /\ t.abs = abs /\ t.since = n
  BY DEF DevSet
<1>5. t = s
  BY <1>2 DEF Holding
<1> HIDE DEF t
<1>6. n > d.sent
  BY <1>1, <1>2 DEF Motion, Moving
<1>7. Motion(t)
  BY <1>1, <1>4, <1>6 DEF Motion, Moving
<1>8. Ends(t) /\ Raw(t)
  BY <1>4 DEF Ends, Raw, Has
<1> QED
  BY <1>3, <1>4, <1>5, <1>7, <1>8 DEF Handled

\* Pointer motion is held back; a wheel step goes out behind it.
LEMMA OnRelativeProps ==
  ASSUME down \in SUBSET Keys, NEW d \in DevSet, NEW e \in Events, e[1] = "rel",
         "hook" \in kind, Ends(d), Motion(d), Due(d, e), d.sent < d.at,
         NEW s, s = OnRelative(d, e)
  PROVE  Handled(s) /\ s.at = d.at
<1>1. Raw(d) /\ Ready(d, e)
  BY DueProps
<1>2. CASE e[2] \in {"x", "y"}
  <2>1. PICK n : n = (IF d.since = 0 THEN d.at ELSE d.since)
    OBVIOUS
  <2>2. d.x \in Int /\ d.y \in Int /\ d.abs \in BOOLEAN /\ d.rel \in BOOLEAN /\ d.since \in Nat
    BY DEF DevSet
  <2>3. e[3] \in Int
    BY EventShape
  <2>4. PICK x \in Int : x = IF e[2] = "x" THEN d.x + e[3] ELSE d.x
    BY <2>2, <2>3
  <2>5. PICK y \in Int : y = IF e[2] = "y" THEN d.y + e[3] ELSE d.y
    BY <2>2, <2>3
  <2> DEFINE t == [d EXCEPT !.since = n]
  <2>6. s = [t EXCEPT !.rel = TRUE, !.x = IF e[2] = "x" THEN t.x + e[3] ELSE t.x,
                      !.y = IF e[2] = "y" THEN t.y + e[3] ELSE t.y]
    BY <1>2, <2>1 DEF OnRelative, QueueRelativeMotion, HoldBack
  <2>7. t.x = d.x /\ t.y = d.y
    BY DEF DevSet
  <2>8. s = [t EXCEPT !.rel = TRUE, !.x = x, !.y = y]
    <3> HIDE DEF t
    <3> QED
      BY <2>4, <2>5, <2>6, <2>7
  <2>9. s = [d EXCEPT !.since = n, !.rel = TRUE, !.abs = d.abs, !.x = x, !.y = y]
    BY <2>8 DEF DevSet
  <2>10. PICK rel \in BOOLEAN : rel = TRUE
    OBVIOUS
  <2>11. PICK abs \in BOOLEAN : abs = d.abs
    BY <2>2
  <2>12. s = Holding(d, rel, abs, x, y)
    BY <2>1, <2>9, <2>10, <2>11 DEF Holding
  <2>13. (rel \/ abs) /\ (d.rel => rel) /\ (d.abs => abs)
    BY <2>10, <2>11
  <2> HIDE DEF t
  <2> QED
    BY <1>1, <2>12, <2>13, HoldBackProps
<1>3. CASE e[2] \notin {"x", "y"} /\ Shadowed(e)
  <2>1. s = d
    BY <1>3 DEF OnRelative
  <2> QED
    BY <1>1, <2>1 DEF Handled
<1>4. CASE e[2] \notin {"x", "y"} /\ ~Shadowed(e)
  <2>1. PICK o : o = FlushMoves(d, FALSE)
    OBVIOUS
  <2>2. s = Deliver(o, "mouse", e)
    BY <1>4, <2>1 DEF OnRelative
  <2>3. PICK b \in BOOLEAN : b = FALSE
    OBVIOUS
  <2>4. o = FlushMoves(d, b) /\ d.sent <= d.at
    BY <2>1, <2>3 DEF Motion
  <2>5. o \in DevSet /\ Ends(o) /\ Ready(o, e) /\ Calm(o) /\ o.at = d.at
    BY <1>1, <2>4, FlushedProps
  <2>6. "mouse" \in Classes
    BY DEF Classes
  <2>7. s \in DevSet /\ Ends(s) /\ Ready(s, e) /\ Calm(s) /\ s.at = o.at
    BY <2>2, <2>5, <2>6, DeliveredProps
  <2>8. Raw(s)
    BY <2>7, RawProps
  <2>9. Motion(s)
    BY <2>7, CalmProps
  <2> QED
    BY <2>5, <2>7, <2>8, <2>9 DEF Handled
<1> QED
  BY <1>2, <1>3, <1>4

\* The order of a report's events is over at its end.
LEMMA EndedProps ==
  ASSUME NEW d \in DevSet, Handled(d), Calm(d), NEW s, s = [d EXCEPT !.at = 0, !.sent = 0]
  PROVE  Handled(s) /\ ~Moving(s)
<1> DEFINE t == [d EXCEPT !.at = 0, !.sent = 0]
<1>1. t \in DevSet
  <2>1. ASSUME NEW m \in Nat, NEW n \in Nat
        PROVE  [d EXCEPT !.at = m, !.sent = n] \in DevSet
    BY DEF DevSet
  <2>2. 0 \in Nat
    OBVIOUS
  <2> QED
    BY <2>1, <2>2, Zenon
<1>2. /\ t.grabbed = d.grabbed /\ t.owed = d.owed /\ t.at = 0
      /\ t.known = d.known /\ t.buffered = d.buffered /\ t.open = d.open
      /\ t.held = d.held /\ t.rel = d.rel /\ t.sent = 0 /\ t.lanes = d.lanes
      /\ t.abs = d.abs /\ t.since = d.since
  BY DEF DevSet
<1>3. t = s
  OBVIOUS
<1> HIDE DEF t
<1>4. Ends(t) /\ Raw(t)
  BY <1>2 DEF Handled, Ends, Raw, Has
<1>5. Motion(t) /\ ~Moving(t)
  BY <1>2 DEF Calm, Motion, Moving
<1> QED
  BY <1>1, <1>3, <1>4, <1>5 DEF Handled

\* The end of a report goes out behind its motion, to every lane that needs it.
LEMMA OnReportEndProps ==
  ASSUME down \in SUBSET Keys, NEW d \in DevSet, Ends(d), Due(d, Syn), d.sent <= d.at,
         NEW s, s = OnReportEnd(d)
  PROVE  Handled(s) /\ ~Moving(s)
<1>1. Syn \in Events /\ Syn[1] # "key"
  BY EventShape
<1>2. Ready(d, Syn)
  BY <1>1, DueProps
<1>3. PICK o : o = FlushMoves(d, TRUE)
  OBVIOUS
<1>4. o \in DevSet /\ Ends(o) /\ Ready(o, Syn) /\ Calm(o)
  <2>1. PICK b \in BOOLEAN : b = TRUE
    OBVIOUS
  <2>2. o = FlushMoves(d, b)
    BY <1>3, <2>1
  <2> QED
    BY <1>2, <2>2, FlushedProps
<1>5. PICK q : q = [o EXCEPT !.scan = FALSE]
  OBVIOUS
<1>6. q \in DevSet /\ Ends(q) /\ Ready(q, Syn) /\ Calm(q)
  <2> DEFINE t == [o EXCEPT !.scan = FALSE]
  <2>1. /\ t \in DevSet /\ t.grabbed = o.grabbed /\ t.owed = o.owed /\ t.at = o.at
        /\ t.known = o.known /\ t.buffered = o.buffered /\ t.open = o.open
        /\ t.held = o.held /\ t.rel = o.rel /\ t.sent = o.sent /\ t.lanes = o.lanes
        /\ t.abs = o.abs /\ t.since = o.since
    BY <1>4 DEF DevSet
  <2>2. t = q
    BY <1>5
  <2> HIDE DEF t
  <2>3. Keeps(o, t)
    BY <2>1 DEF Keeps, Has, Ends
  <2>4. Ready(t, Syn)
    BY <1>4, <2>1, <2>3, ReadyProps
  <2> QED
    BY <1>4, <2>1, <2>2, <2>4 DEF Ends, Calm
<1>7. PICK c : c = ForwardUnhandled(q, Syn)
  OBVIOUS
<1>8. Handled(c) /\ Calm(c)
  BY <1>1, <1>6, <1>7, ForwardedProps
<1>9. s = [c EXCEPT !.at = 0, !.sent = 0]
  BY <1>3, <1>5, <1>7 DEF OnReportEnd
<1> QED
  BY <1>8, <1>9, EndedProps DEF Handled

\* A look-ahead in the middle of a report keeps the order of its motion.
LEMMA LookedProps ==
  ASSUME NEW d \in DevSet, NEW s, Ahead(d, s), Ends(d), Motion(d)
  PROVE  /\ s \in DevSet /\ Ends(s) /\ Motion(s) /\ s.at = d.at /\ s.sent = d.sent
         /\ \A e : Due(d, e) => Due(s, e)
         /\ Raw(d) => Raw(s)
         /\ Moving(s) => Moving(d)
<1>1. Keeps(d, s) /\ Still(d, s) /\ s.held = d.held /\ s.sent = d.sent
  BY KeepsProps
<1>2. s \in DevSet /\ Ends(s) /\ s.at = d.at
  BY <1>1 DEF Keeps
<1>3. Motion(s) /\ (Moving(s) => Moving(d))
  BY <1>1, <1>2 DEF Motion, Moving, Still
<1> QED
  BY <1>1, <1>2, <1>3, ReadyProps

\* A source without hooks holds no motion back.
LEMMA NoHook ==
  ASSUME kind \in Kinds, kind \cap {"keyboard", "mouse"} = {}, NEW d \in DevSet, Motion(d)
  PROVE  Calm(d)
<1>1. "hook" \notin kind
  BY KindAssumption
<1>2. ~Moving(d)
  BY <1>1 DEF Motion
<1> QED
  BY <1>2, CalmProps

\* handle_input_event: one event, whatever it is.
LEMMA HandleInputEventProps ==
  ASSUME kind \in Kinds, down \in SUBSET Keys, NEW d \in DevSet, NEW e \in Events,
         Ends(d), Motion(d), Due(d, e), d.sent < d.at,
         NEW taken \in BOOLEAN, NEW s, s = HandleInputEvent(d, e, taken)
  PROVE  Handled(s) /\ (s.at = 0 => ~Moving(s))
<1> DEFINE candidate == kind \cap {"keyboard", "mouse"} # {}
<1>1. d.sent \in Nat /\ d.at \in Nat /\ d.sent <= d.at /\ d.at # 0
  BY DEF DevSet
<1>2. Syn[1] # "key" /\ Syn \in Events
  BY EventShape
<1>3. ASSUME NEW o, o \in DevSet, Ends(o), Motion(o), Due(o, e), o.at = d.at, e[1] # "key",
             s = ForwardUnhandled(FlushMoves(o, FALSE), e)
      PROVE  Handled(s) /\ s.at = d.at
  <2>1. PICK q : q = FlushMoves(o, FALSE)
    OBVIOUS
  <2>2. PICK b \in BOOLEAN : b = FALSE
    OBVIOUS
  <2>3. q = FlushMoves(o, b) /\ o.sent <= o.at
    BY <1>3, <2>1, <2>2 DEF Motion
  <2>4. Ready(o, e)
    BY <1>3, DueProps
  <2>5. q \in DevSet /\ Ends(q) /\ Ready(q, e) /\ Calm(q) /\ q.at = o.at
    BY <1>3, <2>3, <2>4, FlushedProps
  <2>6. s = ForwardUnhandled(q, e)
    BY <1>3, <2>1
  <2>7. Handled(s) /\ s.at = q.at
    BY <1>3, <2>5, <2>6, ForwardedProps
  <2> QED
    BY <1>3, <2>5, <2>7
<1>4. CASE e = Syn /\ candidate
  <2>1. s = OnReportEnd(d)
    BY <1>4 DEF HandleInputEvent
  <2>2. Due(d, Syn)
    BY <1>4
  <2> QED
    BY <1>1, <2>1, <2>2, OnReportEndProps
<1>5. CASE e = Syn /\ ~candidate
  <2>1. PICK c : c = ForwardUnhandled(d, e)
    OBVIOUS
  <2>2. s = [c EXCEPT !.at = 0, !.sent = 0]
    BY <1>5, <2>1 DEF HandleInputEvent
  <2>3. Calm(d)
    BY <1>5, NoHook
  <2>4. Ready(d, e)
    BY <1>2, <1>5, DueProps
  <2>5. Handled(c) /\ Calm(c)
    BY <1>2, <1>5, <2>1, <2>3, <2>4, ForwardedProps
  <2> QED
    BY <2>2, <2>5, EndedProps DEF Handled
<1>6. CASE e[1] = "key" /\ candidate
  <2>1. s = OnKey(d, e, taken)
    BY <1>2, <1>6 DEF HandleInputEvent
  <2>2. Handled(s) /\ s.at = d.at
    BY <1>1, <1>6, <2>1, OnKeyProps
  <2> QED
    BY <1>1, <2>2
<1>7. CASE e[1] = "key" /\ ~candidate
  <2>1. PICK r : r = ReleaseAfterUngrab(d, e, taken)
    OBVIOUS
  <2>2. s = ForwardUnhandled(r, e)
    BY <1>2, <1>7, <2>1 DEF HandleInputEvent
  <2>3. /\ r \in DevSet /\ Ready(r, e) /\ Ends(r) /\ r.at = d.at /\ r.sent = d.sent
        /\ r.rel = d.rel /\ r.abs = d.abs /\ r.since = d.since
    BY <1>7, <2>1, ReleaseAfterUngrabProps
  <2>4. Calm(d)
    BY <1>7, NoHook
  <2>5. Calm(r)
    BY <2>3, <2>4 DEF Calm
  <2>6. RawKey(e[2])
    BY <1>7 DEF RawKey
  <2>7. Handled(s) /\ s.at = r.at
    BY <2>2, <2>3, <2>5, <2>6, ForwardedProps
  <2> QED
    BY <1>1, <2>3, <2>7
<1>8. CASE e # Syn /\ e[1] # "key" /\ ~candidate
  <2>1. s = ForwardUnhandled(d, e)
    BY <1>8 DEF HandleInputEvent
  <2>2. Calm(d)
    BY <1>8, NoHook
  <2>3. Ready(d, e)
    BY <1>8, DueProps
  <2>4. Handled(s) /\ s.at = d.at
    BY <1>8, <2>1, <2>2, <2>3, ForwardedProps
  <2> QED
    BY <1>1, <2>4
<1>9. CASE e # Syn /\ candidate /\ e[1] = "rel" /\ e[2] # "other" /\ "hook" \in kind
  <2>1. s = OnRelative(d, e)
    BY <1>9 DEF HandleInputEvent
  <2>2. Handled(s) /\ s.at = d.at
    BY <1>9, <2>1, OnRelativeProps
  <2> QED
    BY <1>1, <2>2
<1>10. CASE e # Syn /\ candidate /\ e[1] = "abs" /\ e[2] \in {"x", "y"} /\ "hook" \in kind
  <2>1. s = QueueAbsoluteMotion(d)
    BY <1>10 DEF HandleInputEvent
  <2>2. PICK n : n = (IF d.since = 0 THEN d.at ELSE d.since)
    OBVIOUS
  <2>3. d.x \in Int /\ d.y \in Int /\ d.rel \in BOOLEAN /\ d.abs \in BOOLEAN
    BY DEF DevSet
  <2>4. PICK abs \in BOOLEAN : abs = TRUE
    OBVIOUS
  <2>5. PICK rel \in BOOLEAN, x \in Int, y \in Int : rel = d.rel /\ x = d.x /\ y = d.y
    BY <2>3
  <2>6. s = [[d EXCEPT !.since = n] EXCEPT !.abs = abs]
    BY <2>1, <2>2, <2>4 DEF QueueAbsoluteMotion, HoldBack
  <2>7. s = [d EXCEPT !.since = n, !.rel = rel, !.abs = abs, !.x = x, !.y = y]
    BY <2>5, <2>6 DEF DevSet
  <2>8. s = Holding(d, rel, abs, x, y)
    BY <2>2, <2>7 DEF Holding
  <2>9. (rel \/ abs) /\ (d.rel => rel) /\ (d.abs => abs)
    BY <2>4, <2>5
  <2>10. Raw(d)
    BY <1>10, DueProps
  <2>11. Handled(s) /\ s.at = d.at
    BY <1>10, <2>8, <2>9, <2>10, HoldBackProps
  <2> QED
    BY <1>1, <2>11
<1>11. CASE e # Syn /\ candidate /\ e[1] = "scan" /\ e[2] = "of" /\ d.grabbed
  <2>1. PICK p : p = Peeked(d)
    OBVIOUS
  <2>2. Ahead(d, p)
    BY <2>1, PeekedProps
  <2>3. /\ p \in DevSet /\ Ends(p) /\ Motion(p) /\ p.at = d.at /\ Due(p, e)
    BY <2>2, LookedProps
  <2>4. Raw(p)
    BY <1>11, <2>3, DueProps
  <2>5. CASE p.buffered # <<>> /\ Head(p.buffered)[1] = "key"
    <3> DEFINE t == [p EXCEPT !.scan = TRUE]
    <3>1. t = s
      BY <1>11, <2>1, <2>5 DEF HandleInputEvent
    <3>2. /\ t \in DevSet /\ t.grabbed = p.grabbed /\ t.owed = p.owed /\ t.at = p.at
          /\ t.known = p.known /\ t.buffered = p.buffered /\ t.open = p.open
          /\ t.held = p.held /\ t.rel = p.rel /\ t.sent = p.sent /\ t.lanes = p.lanes
          /\ t.abs = p.abs /\ t.since = p.since
      BY <2>3 DEF DevSet
    <3> HIDE DEF t
    <3>3. Ends(t) /\ Motion(t) /\ Raw(t)
      BY <2>3, <2>4, <3>2 DEF Ends, Motion, Moving, Raw, Has
    <3> QED
      BY <1>1, <2>3, <3>1, <3>2, <3>3 DEF Handled
  <2>6. CASE ~(p.buffered # <<>> /\ Head(p.buffered)[1] = "key")
    <3>1. s = ForwardUnhandled(FlushMoves(p, FALSE), e)
      BY <1>11, <2>1, <2>6 DEF HandleInputEvent
    <3>2. Handled(s) /\ s.at = d.at
      BY <1>3, <1>11, <2>3, <3>1
    <3> QED
      BY <1>1, <3>2
  <2> QED
    BY <2>5, <2>6
<1>12. CASE /\ e # Syn /\ candidate /\ e[1] # "key"
            /\ ~(e[1] = "rel" /\ e[2] # "other" /\ "hook" \in kind)
            /\ ~(e[1] = "abs" /\ e[2] \in {"x", "y"} /\ "hook" \in kind)
            /\ ~(e[1] = "scan" /\ e[2] = "of" /\ d.grabbed)
  <2>1. s = ForwardUnhandled(FlushMoves(d, FALSE), e)
    BY <1>12 DEF HandleInputEvent
  <2>2. Handled(s) /\ s.at = d.at
    BY <1>3, <1>12, <2>1
  <2> QED
    BY <1>1, <2>2
<1> HIDE DEF candidate
<1> QED
  BY <1>4, <1>5, <1>6, <1>7, <1>8, <1>9, <1>10, <1>11, <1>12
-----------------------------------------------------------------------------
(* The actions                                                             *)

\* One event of the loop.
LEMMA HandleInv ==
  ASSUME IInv, Handle
  PROVE  IInv'
<1>1. /\ kind \in Kinds /\ dev \in DevSet /\ down \in SUBSET Keys
      /\ Ends(dev) /\ Motion(dev) /\ Raw(dev)
  BY DEF IInv, TypeOK
<1>2. PICK p : p = Peeked(dev)
  OBVIOUS
<1>3. Ahead(dev, p)
  BY <1>1, <1>2, PeekedProps
<1>4. p \in DevSet /\ Ends(p) /\ Motion(p) /\ Raw(p)
  BY <1>1, <1>3, LookedProps
<1>5. PICK taken \in BOOLEAN :
      /\ p.buffered # <<>>
      /\ dev' = HandleInputEvent([p EXCEPT !.buffered = <<>>, !.at = @ + 1], Head(p.buffered), taken)
      /\ reading' = TRUE /\ ~grabbing /\ UNCHANGED <<kind, down, grabbing>>
  BY <1>2 DEF Handle
<1>6. PICK e \in Events : p.buffered = <<e>> /\ Head(p.buffered) = e
  <2>1. p.buffered \in Seq(Events) /\ Len(p.buffered) <= 1
    BY <1>4 DEF DevSet
  <2>2. ASSUME NEW b \in Seq(Events), Len(b) <= 1, b # <<>>
        PROVE  Head(b) \in Events /\ b = <<Head(b)>>
    <3>1. Len(b) = 1 /\ Head(b) = b[1] /\ b[1] \in Events
      <4>1. Len(b) \in Nat \ {0}
        BY <2>2, EmptySeq
      <4>2. \A n \in Nat \ {0} : n <= 1 => n = 1
        OBVIOUS
      <4>3. Len(b) = 1
        BY <2>2, <4>1, <4>2
      <4>4. b[1] \in Events
        BY <4>3, ElementOfSeq
      <4>5. Head(b) = b[1]
        BY HeadTailProperties
      <4> QED
        BY <4>3, <4>4, <4>5
    <3>2. <<b[1]>> \in Seq(Events) /\ Len(<<b[1]>>) = 1
      BY <3>1
    <3>3. \A i \in 1..1 : b[i] = <<b[1]>>[i]
      OBVIOUS
    <3> QED
      BY <3>1, <3>2, <3>3, SeqEqual
  <2> QED
    BY <1>5, <2>1, <2>2
<1>7. p.at \in Nat /\ p.sent \in Nat /\ p.sent <= p.at
  BY <1>4 DEF DevSet, Motion
<1>8. PICK n \in Nat : n = p.at + 1
  BY <1>7
<1>9. PICK q : q = [p EXCEPT !.buffered = <<>>, !.at = @ + 1]
  OBVIOUS
<1> DEFINE t == [p EXCEPT !.buffered = <<>>, !.at = n]
<1>10. t = q
  BY <1>4, <1>8, <1>9 DEF DevSet
<1>11. <<>> \in {b \in Seq(Events) : Len(b) <= 1}
  OBVIOUS
<1>12. /\ t \in DevSet /\ t.grabbed = p.grabbed /\ t.owed = p.owed /\ t.at = n
       /\ t.known = p.known /\ t.buffered = <<>> /\ t.open = p.open
       /\ t.held = p.held /\ t.rel = p.rel /\ t.sent = p.sent /\ t.lanes = p.lanes
       /\ t.abs = p.abs /\ t.since = p.since
  BY <1>4, <1>11 DEF DevSet
<1> HIDE DEF t
<1>13. Ends(t) /\ Motion(t) /\ t.sent < t.at
  BY <1>4, <1>7, <1>8, <1>12 DEF Ends, Motion, Moving
<1>14. Due(t, e)
  <2>1. \A k : p.buffered = <<<<"key", k, 0>>>> <=> e = <<"key", k, 0>>
    BY <1>6
  <2>2. \A k : p.buffered = <<<<"key", k, 1>>>> <=> e = <<"key", k, 1>>
    BY <1>6
  <2>3. \A k : t.buffered # <<<<"key", k, 1>>>>
    BY <1>12
  <2> QED
    BY <1>4, <1>12, <2>1, <2>2, <2>3 DEF Due, Raw, Has
<1>15. PICK s : s = HandleInputEvent(t, e, taken)
  OBVIOUS
<1>16. Handled(s) /\ (s.at = 0 => ~Moving(s))
  BY <1>1, <1>12, <1>13, <1>14, <1>15, HandleInputEventProps
<1>17. dev' = s
  BY <1>5, <1>6, <1>9, <1>10, <1>15
<1>18. TypeOK'
  <2>1. grabbing' \in BOOLEAN
    BY <1>5 DEF IInv, TypeOK
  <2> QED
    BY <1>1, <1>5, <1>16, <1>17, <2>1 DEF TypeOK, Handled
<1>19. Ends(dev') /\ Motion(dev') /\ Raw(dev') /\ (dev'.at = 0 => ~Moving(dev'))
  BY <1>16, <1>17 DEF Handled
<1>20. kind' = kind /\ ~grabbing'
  BY <1>5
<1> QED
  BY <1>5, <1>18, <1>19, <1>20 DEF IInv, Ends, Motion, Moving, Raw, Has, RawKey

\* The loop ends, with the motion it held back.
LEMMA EndPassInv ==
  ASSUME IInv, EndPass
  PROVE  IInv'
<1>1. /\ kind \in Kinds /\ dev \in DevSet /\ down \in SUBSET Keys
      /\ Ends(dev) /\ Motion(dev) /\ Raw(dev)
  BY DEF IInv, TypeOK
<1>2. PICK p : p = IF dev.buffered = <<>> /\ Peeked(dev).buffered = <<>> THEN Peeked(dev) ELSE dev
  OBVIOUS
<1>3. p \in DevSet /\ Ends(p) /\ Motion(p) /\ Raw(p)
  <2>1. PICK q : q = Peeked(dev)
    OBVIOUS
  <2>2. Ahead(dev, q)
    BY <1>1, <2>1, PeekedProps
  <2>3. q \in DevSet /\ Ends(q) /\ Motion(q) /\ Raw(q)
    BY <1>1, <2>2, LookedProps
  <2>4. p = q \/ p = dev
    BY <1>2, <2>1
  <2> QED
    BY <1>1, <2>3, <2>4
<1>4. PICK s : s = FlushMoves(p, FALSE)
  OBVIOUS
<1>5. /\ Keeps(p, s) /\ s.held = p.held /\ s.sent = p.sent
      /\ s.rel = FALSE /\ s.abs = FALSE /\ s.since = 0
  <2>1. PICK b \in BOOLEAN : b = FALSE
    OBVIOUS
  <2>2. s = FlushMoves(p, b)
    BY <1>4, <2>1
  <2> QED
    BY <1>3, <2>2, FlushMovesProps
<1>6. s \in DevSet /\ Ends(s) /\ s.at = p.at
  BY <1>3, <1>5 DEF Keeps
<1>7. Raw(s)
  BY <1>3, <1>5, ReadyProps
<1>8. Motion(s) /\ ~Moving(s)
  BY <1>3, <1>5, <1>6 DEF Motion, Moving
<1>9. dev' = s /\ reading' = FALSE /\ kind' = kind /\ down' = down
      /\ grabbing' = FALSE
  BY <1>2, <1>4 DEF EndPass, IInv, TypeOK
<1>10. TypeOK'
  BY <1>1, <1>6, <1>9 DEF TypeOK
<1> QED
  BY <1>6, <1>7, <1>8, <1>9, <1>10 DEF IInv, Ends, Motion, Moving, Raw, Has, RawKey

\* A look-ahead between passes.
LEMMA PeekOldestInv ==
  ASSUME IInv, PeekOldest
  PROVE  IInv'
<1>1. /\ kind \in Kinds /\ dev \in DevSet /\ down \in SUBSET Keys /\ reading \in BOOLEAN
      /\ Ends(dev) /\ Motion(dev) /\ Raw(dev) /\ ~Moving(dev)
  BY DEF IInv, TypeOK, PeekOldest
<1>2. PICK p : p = Peeked(dev)
  OBVIOUS
<1>3. Ahead(dev, p)
  BY <1>1, <1>2, PeekedProps
<1>4. p \in DevSet /\ Ends(p) /\ Motion(p) /\ Raw(p) /\ ~Moving(p)
  BY <1>1, <1>3, LookedProps
<1>5. dev' = p /\ reading' = reading /\ kind' = kind /\ down' = down
      /\ grabbing' = FALSE
  BY <1>2 DEF PeekOldest, IInv, TypeOK
<1>6. TypeOK'
  BY <1>1, <1>4, <1>5 DEF TypeOK
<1> QED
  BY <1>4, <1>5, <1>6 DEF IInv, Ends, Motion, Moving, Raw, Has, RawKey

\* What is settled is no longer owed, and no longer held.
LEMMA SettledInv ==
  ASSUME IInv, NEW refused, ~reading, ~dev.grabbed, dev' = Settled(dev, refused),
         grabbing' \in BOOLEAN, grabbing' => dev'.owed = {}, UNCHANGED <<kind, down, reading>>
  PROVE  IInv'
<1>1. /\ kind \in Kinds /\ dev \in DevSet /\ down \in SUBSET Keys
      /\ Ends(dev) /\ Motion(dev) /\ Raw(dev) /\ ~Moving(dev) /\ reading = FALSE
  BY DEF IInv, TypeOK
<1> DEFINE gone == (dev.owed \ down) \ refused
           O == dev.owed \ gone
           H == dev.held \ gone
           t == [dev EXCEPT !.owed = O, !.held = H]
<1>2. dev' = t
  BY DEF Settled
<1>3. /\ O \in SUBSET Keys /\ H \in SUBSET Keys /\ H \subseteq dev.held
      /\ dev.held \subseteq dev.owed => H \subseteq O
  BY <1>1 DEF DevSet
<1> HIDE DEF O, H
<1>4. /\ t \in DevSet /\ t.grabbed = dev.grabbed /\ t.owed = O /\ t.at = dev.at
      /\ t.known = dev.known /\ t.buffered = dev.buffered /\ t.open = dev.open
      /\ t.held = H /\ t.rel = dev.rel /\ t.sent = dev.sent /\ t.lanes = dev.lanes
      /\ t.abs = dev.abs /\ t.since = dev.since
  BY <1>1, <1>3 DEF DevSet
<1> HIDE DEF t
<1>5. Ends(t) /\ Motion(t) /\ ~Moving(t)
  BY <1>1, <1>4 DEF Ends, Motion, Moving
<1>6. Raw(t)
  BY <1>1, <1>3, <1>4 DEF Raw, Has
<1>7. TypeOK'
  BY <1>1, <1>2, <1>4 DEF TypeOK
<1>8. kind' = kind /\ ~reading' /\ ~t.grabbed /\ (grabbing' => t.owed = {})
  BY <1>2, <1>4
<1> QED
  BY <1>2, <1>5, <1>6, <1>7, <1>8 DEF IInv, Ends, Motion, Moving, Raw, Has, RawKey

\* A source is grabbed with nothing owed, so it holds no raw key.
LEMMA TakeGrabInv ==
  ASSUME IInv, TakeGrab
  PROVE  IInv'
<1>1. /\ kind \in Kinds /\ dev \in DevSet /\ down \in SUBSET Keys /\ reading = FALSE
      /\ Ends(dev) /\ Motion(dev) /\ Raw(dev) /\ ~Moving(dev)
      /\ ~dev.grabbed /\ dev.owed = {}
  BY DEF IInv, TypeOK, TakeGrab
<1>2. PICK c : c = Discarded(dev)
  OBVIOUS
<1>3. /\ c \in DevSet
      /\ c.grabbed = dev.grabbed /\ c.known = dev.known /\ c.buffered = dev.buffered
      /\ c.rel = FALSE /\ c.abs = FALSE /\ c.since = 0
      /\ c.owed = dev.owed /\ c.open = dev.open
      /\ c.held = dev.held /\ c.at = dev.at /\ c.sent = dev.sent
  BY <1>1, <1>2, DiscardedProps
<1>4. reading' = FALSE /\ grabbing' = FALSE /\ kind' = kind /\ down' = down
  BY <1>1 DEF TakeGrab
<1>5. CASE dev' = [c EXCEPT !.grabbed = TRUE]
  <2> DEFINE t == [c EXCEPT !.grabbed = TRUE]
  <2>1. /\ t \in DevSet /\ t.grabbed = TRUE /\ t.owed = c.owed /\ t.at = c.at
        /\ t.known = c.known /\ t.buffered = c.buffered /\ t.open = c.open
        /\ t.held = c.held /\ t.rel = c.rel /\ t.sent = c.sent
        /\ t.abs = c.abs /\ t.since = c.since
    BY <1>3 DEF DevSet
  <2>2. dev' = t
    BY <1>5
  <2> HIDE DEF t
  <2>3. t.held = {}
    BY <1>1, <1>3, <2>1 DEF Raw
  <2>4. Ends(t)
    BY <1>1, <1>3, <2>1 DEF Ends
  <2>5. Motion(t) /\ ~Moving(t)
    BY <1>1, <1>3, <2>1 DEF Motion, Moving
  <2>6. Raw(t)
    BY <1>1, <1>3, <2>1, <2>3 DEF Raw
  <2>7. TypeOK'
    BY <1>1, <1>4, <2>1, <2>2 DEF TypeOK
  <2> QED
    BY <1>4, <2>2, <2>4, <2>5, <2>6, <2>7 DEF IInv, Ends, Motion, Moving, Raw, Has, RawKey
<1>6. CASE dev' = dev
  <2>1. TypeOK'
    BY <1>1, <1>4, <1>6 DEF TypeOK
  <2> QED
    BY <1>1, <1>4, <1>6, <2>1 DEF IInv, Ends, Motion, Moving, Raw, Has, RawKey
<1> QED
  BY <1>2, <1>5, <1>6 DEF TakeGrab

\* What a source holds when it is ungrabbed is owed.
LEMMA EndGrabInv ==
  ASSUME IInv, EndGrab
  PROVE  IInv'
<1>1. /\ kind \in Kinds /\ dev \in DevSet /\ down \in SUBSET Keys /\ reading = FALSE
      /\ Ends(dev) /\ Motion(dev) /\ Raw(dev) /\ ~Moving(dev)
      /\ dev.grabbed /\ grabbing = FALSE
  BY DEF IInv, TypeOK, EndGrab
<1>2. PICK c : c = Discarded(dev)
  OBVIOUS
<1>3. /\ c \in DevSet
      /\ c.grabbed = dev.grabbed /\ c.known = dev.known /\ c.buffered = dev.buffered
      /\ c.rel = FALSE /\ c.abs = FALSE /\ c.since = 0
      /\ c.owed = dev.owed /\ c.open = dev.open
      /\ c.held = dev.held /\ c.at = dev.at /\ c.sent = dev.sent
  BY <1>1, <1>2, DiscardedProps
<1>4. reading' = FALSE /\ grabbing' = FALSE /\ kind' = kind /\ down' = down
  BY <1>1 DEF EndGrab
<1>5. dev.sent <= dev.at
  BY <1>1 DEF Motion
<1> DEFINE t == [c EXCEPT !.grabbed = FALSE, !.owed = dev.held, !.open = {}]
<1>6. dev.held \in SUBSET Keys
  BY <1>1 DEF DevSet
<1>7. /\ t \in DevSet /\ t.grabbed = FALSE /\ t.owed = dev.held /\ t.at = c.at
      /\ t.known = c.known /\ t.buffered = c.buffered /\ t.open = {}
      /\ t.held = c.held /\ t.rel = c.rel /\ t.sent = c.sent
      /\ t.abs = c.abs /\ t.since = c.since
  BY <1>3, <1>6 DEF DevSet
<1>8. dev' = t
  BY <1>2 DEF EndGrab
<1> HIDE DEF t
<1>9. Ends(t)
  BY <1>7 DEF Ends
<1>10. Motion(t) /\ ~Moving(t)
  BY <1>3, <1>5, <1>7 DEF Motion, Moving
<1>11. Raw(t)
  BY <1>1, <1>3, <1>7 DEF Raw
<1>12. TypeOK'
  BY <1>1, <1>4, <1>7, <1>8 DEF TypeOK
<1> QED
  BY <1>4, <1>8, <1>9, <1>10, <1>11, <1>12 DEF IInv, Ends, Motion, Moving, Raw, Has, RawKey

\* The queue is the source's; nothing else of the source changes with it.
LEMMA QueueInv ==
  ASSUME IInv, NEW u \in Seq(Events), dev' = [dev EXCEPT !.unread = u],
         down' \in SUBSET Keys, UNCHANGED <<kind, reading, grabbing>>
  PROVE  IInv'
<1>1. /\ kind \in Kinds /\ dev \in DevSet /\ reading \in BOOLEAN /\ grabbing \in BOOLEAN
      /\ (grabbing => ~reading /\ ~dev.grabbed /\ dev.owed = {})
      /\ Ends(dev) /\ Motion(dev) /\ Raw(dev) /\ (dev.at = 0 \/ ~reading => ~Moving(dev))
  BY DEF IInv, TypeOK
<1> DEFINE t == [dev EXCEPT !.unread = u]
<1>2. /\ t \in DevSet /\ t.grabbed = dev.grabbed /\ t.owed = dev.owed /\ t.at = dev.at
      /\ t.known = dev.known /\ t.buffered = dev.buffered /\ t.open = dev.open
      /\ t.held = dev.held /\ t.rel = dev.rel /\ t.sent = dev.sent /\ t.lanes = dev.lanes
      /\ t.abs = dev.abs /\ t.since = dev.since
  BY <1>1 DEF DevSet
<1>3. dev' = t
  OBVIOUS
<1> HIDE DEF t
<1>4. Ends(t) /\ Motion(t) /\ Raw(t) /\ (Moving(t) => Moving(dev))
  BY <1>1, <1>2 DEF Ends, Motion, Moving, Raw, Has
<1>5. TypeOK'
  BY <1>1, <1>2, <1>3 DEF TypeOK
<1>6. kind' = kind /\ reading' = reading /\ grabbing' = grabbing
  OBVIOUS
<1> QED
  BY <1>1, <1>2, <1>3, <1>4, <1>5, <1>6 DEF IInv, Ends, Motion, Moving, Raw, Has, RawKey

\* A report arrives.
LEMMA ArriveInv ==
  ASSUME IInv, NEW r \in Reports, Arrive(r)
  PROVE  IInv'
<1> DEFINE codes == {r[i][2] : i \in {j \in DOMAIN r : r[j][1] = "key"}}
           turned == [i \in DOMAIN r |-> IF r[i][1] # "key" THEN r[i]
                        ELSE <<"key", r[i][2], IF r[i][2] \in down THEN 0 ELSE 1>>]
<1>1. /\ r \in Seq(Events)
      /\ dev \in DevSet /\ down \in SUBSET Keys
  BY ReportAssumption DEF IInv, TypeOK
<1>2. Len(r) \in Nat /\ DOMAIN r = 1..Len(r) /\ \A i \in 1..Len(r) : r[i] \in Events
  BY <1>1, LenProperties, ElementOfSeq
<1>3. codes \subseteq Keys
  BY <1>2, EventShape
<1>4. turned \in Seq(Events)
  <2>1. ASSUME NEW i \in 1..Len(r)
        PROVE  turned[i] \in Events
    <3>1. CASE r[i][1] # "key"
      BY <1>2, <3>1
    <3>2. CASE r[i][1] = "key"
      <4>1. r[i][2] \in Keys
        BY <1>2, <3>2, EventShape
      <4>2. \A k \in Keys, v \in {0, 1} : <<"key", k, v>> \in Events
        BY DEF Events
      <4>3. (IF r[i][2] \in down THEN 0 ELSE 1) \in {0, 1}
        OBVIOUS
      <4>4. turned[i] = <<"key", r[i][2], IF r[i][2] \in down THEN 0 ELSE 1>>
        BY <1>2, <3>2
      <4> QED
        BY <4>1, <4>2, <4>3, <4>4
    <3> QED
      BY <3>1, <3>2
  <2>2. turned \in [1..Len(r) -> Events]
    BY <1>2, <2>1
  <2> HIDE DEF turned
  <2> QED
    BY <1>2, <2>2
<1>5. /\ down' = (down \ codes) \cup (codes \ down)
      /\ dev' = [dev EXCEPT !.unread = @ \o turned]
      /\ UNCHANGED <<kind, reading, grabbing>>
  BY DEF Arrive
<1> HIDE DEF codes, turned
<1>6. PICK u \in Seq(Events) : u = dev.unread \o turned
  <2>1. dev.unread \in Seq(Events)
    BY <1>1 DEF DevSet
  <2> QED
    BY <1>4, <2>1, ConcatProperties
<1>7. dev' = [dev EXCEPT !.unread = u]
  BY <1>5, <1>6
<1>8. down' \in SUBSET Keys
  BY <1>1, <1>3, <1>5
<1> QED
  BY <1>5, <1>7, <1>8, QueueInv

\* evdev's buffer overflows.
LEMMA OverflowInv ==
  ASSUME IInv, Overflow
  PROVE  IInv'
<1>1. dev \in DevSet /\ down \in SUBSET Keys /\ dev.unread \in Seq(Events)
  BY DEF IInv, TypeOK, DevSet
<1>2. PICK i \in 0..Len(dev.unread) :
        dev' = [dev EXCEPT !.unread = SubSeq(@, 1, i) \o <<Dropped>>]
  BY DEF Overflow
<1>3. SubSeq(dev.unread, 1, i) \in Seq(Events)
  <2>1. ASSUME NEW q \in Seq(Events), NEW n \in 0..Len(q)
        PROVE  SubSeq(q, 1, n) \in Seq(Events)
    BY SubSeqProperties, LenProperties
  <2> QED
    BY <1>1, <2>1
<1>4. <<Dropped>> \in Seq(Events)
  BY EventShape
<1>5. PICK u \in Seq(Events) : u = SubSeq(dev.unread, 1, i) \o <<Dropped>>
  BY <1>3, <1>4, ConcatProperties
<1>6. dev' = [dev EXCEPT !.unread = u]
  BY <1>2, <1>5
<1>7. down' \in SUBSET Keys /\ UNCHANGED <<kind, reading, grabbing>>
  BY <1>1 DEF Overflow
<1> QED
  BY <1>6, <1>7, QueueInv

\* Every source starts idle.
LEMMA InitIInv == Init => IInv
<1> SUFFICES ASSUME Init PROVE IInv
  OBVIOUS
<1>1. dev = Idle
  BY DEF Init
<1>2. PICK i \in Int, j \in Int, l \in Nat, m \in Nat, n \in Nat :
        i = 0 /\ j = 0 /\ l = 0 /\ m = 0 /\ n = 0
  OBVIOUS
<1>3. PICK q \in {b \in Seq(Events) : Len(b) <= 1} : q = <<>>
  <2>1. <<>> \in {b \in Seq(Events) : Len(b) <= 1}
    OBVIOUS
  <2> QED
    BY <2>1
<1> DEFINE t == [grabbed |-> FALSE, unread |-> q, burst |-> q, known |-> {}, buffered |-> q,
                 synchronizing |-> FALSE, x |-> i, y |-> j, rel |-> FALSE, abs |-> FALSE,
                 scan |-> FALSE, lanes |-> {}, owed |-> {},
                 open |-> {}, held |-> {}, at |-> l, sent |-> m, since |-> n]
<1>4. t \in DevSet
  BY DEF DevSet
<1>5. dev = t
  BY <1>1, <1>2, <1>3 DEF Idle
<1>6. /\ t.grabbed = FALSE /\ t.buffered = <<>> /\ t.rel = FALSE /\ t.abs = FALSE
      /\ t.open = {} /\ t.held = {} /\ t.at = 0 /\ t.sent = 0 /\ t.since = 0
  BY <1>2, <1>3
<1> HIDE DEF t
<1>7. TypeOK
  BY <1>4, <1>5 DEF Init, TypeOK
<1> QED
  <2>1. \A k : <<>> # <<<<"key", k, 1>>>>
    OBVIOUS
  <2>2. Raw(t)
    BY <1>6, <2>1 DEF Raw
  <2>3. Ends(t) /\ Motion(t) /\ ~Moving(t)
    BY <1>6 DEF Ends, Motion, Moving
  <2> QED
    BY <1>5, <1>7, <2>2, <2>3 DEF IInv, Init

\* Every step keeps the invariant.
LEMMA NextIInv == IInv /\ [Next]_vars => IInv'
<1> SUFFICES ASSUME IInv, [Next]_vars PROVE IInv'
  OBVIOUS
<1>1. CASE UNCHANGED vars \/ SetBlocks
  <2>1. dev' = dev /\ kind' = kind /\ down' = down /\ reading' = reading /\ grabbing' = grabbing
    BY <1>1 DEF vars, SetBlocks
  <2> QED
    BY <2>1 DEF IInv, TypeOK, Ends, Motion, Moving, Raw, Has, RawKey
<1>2. CASE \E r \in Reports : Arrive(r)
  BY <1>2, ArriveInv
<1>3. CASE SettleUngrabHolds \/ StartGrab
  <2>1. PICK refused : dev' = Settled(dev, refused)
    BY <1>3 DEF SettleUngrabHolds, StartGrab
  <2>2. ~reading /\ ~dev.grabbed /\ UNCHANGED <<kind, down, reading>>
    BY <1>3 DEF SettleUngrabHolds, StartGrab
  <2>3. grabbing' \in BOOLEAN /\ (grabbing' => dev'.owed = {})
    <3>1. CASE SettleUngrabHolds
      BY <3>1 DEF SettleUngrabHolds, IInv, TypeOK
    <3>2. CASE StartGrab
      BY <3>2 DEF StartGrab
    <3> QED
      BY <1>3, <3>1, <3>2
  <2> QED
    BY <2>1, <2>2, <2>3, SettledInv
<1> QED
  BY <1>1, <1>2, <1>3, HandleInv, EndPassInv, PeekOldestInv, TakeGrabInv, EndGrabInv,
     OverflowInv DEF Next
-----------------------------------------------------------------------------
(* The theorems                                                            *)

\* The inductive invariant holds of every reachable state.
THEOREM InductiveInvariant == Spec => []IInv
  BY InitIInv, NextIInv, PTL DEF Spec

\* Each lane that carries part of a report also carries its SYN_REPORT, whatever
\* the reader looked ahead at, wherever its budget ran out and whatever evdev
\* dropped.
THEOREM LanesEnd == Spec => []LanesGetTheirEnd
<1>1. IInv => LanesGetTheirEnd
  BY DEF IInv, Ends, LanesGetTheirEnd
<1> QED
  BY <1>1, InductiveInvariant, PTL

\* Hooks and observers see a report's input in the order the source sent it: a
\* click is not handed on before the motion that led to it.
THEOREM ReportsInOrder == Spec => []InOrder
<1>1. IInv => InOrder
  BY DEF IInv, Motion, Moving, InOrder
<1> QED
  BY <1>1, InductiveInvariant, PTL

\* What the raw path pressed is going to end.  While the source is grabbed the key
\* is down on it or its release is the next event, whatever BlockInput and an
\* overflow did; afterwards the release is owed, however often the output queue
\* refuses it (forward_release_after_ungrab, settle_ungrab_holds).
THEOREM NoRawKeyStuck == Spec => []RawHoldsEnd
<1>1. IInv => RawHoldsEnd
  BY DEF IInv, Raw, Has, RawHoldsEnd
<1> QED
  BY <1>1, InductiveInvariant, PTL
=============================================================================
