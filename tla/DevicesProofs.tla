--------------------------- MODULE DevicesProofs ---------------------------
(***************************************************************************)
(* Proofs about Devices, for any number of sources of any kind, any queue, *)
(* and any number of inputs and faults.                                    *)
(*                                                                         *)
(* What a grab leaves pressed, and how queued reports are handled, depends *)
(* on the kernel's side of a source, on its descriptor and grab, and on    *)
(* the stage its grab's change is in: Steady relates these three, and an   *)
(* action keeps it for the source it is about and leaves the others alone. *)
(*                                                                         *)
(* That a grab fails open and that no source is forgotten depend on what   *)
(* the jobs and events to come will still do: Outlook says what they owe   *)
(* to each source, and in which order the jobs stand.                      *)
(***************************************************************************)
EXTENDS Devices, FiniteSetTheorems, SequenceTheorems, NaturalsInduction,
        WellFoundedInduction, TLAPS

-----------------------------------------------------------------------------
(* Types *)

Reports == [key : Keys, down : BOOLEAN, seen : BOOLEAN, late : BOOLEAN]

SrcSet ==
  [plug : {"absent", "raw", "ready", "away"}, owner : {"none", "us", "other"},
   down : SUBSET Keys, desk : SUBSET Keys, queue : Seq(Reports), slipped : SUBSET Keys]

DevSet ==
  [fd : {"none", "open", "stale", "closed"}, grabbed : BOOLEAN, deferred : BOOLEAN,
   awaited : SUBSET Keys, foreign : BOOLEAN, tail : BOOLEAN, owed : SUBSET Keys,
   ready : BOOLEAN]

FwdSet ==
  [open : BOOLEAN, failed : BOOLEAN, node : {"none", "raw", "ready"}, id : Nat,
   held : SUBSET Keys]

SinkSet == [gen : Nat, id : Nat, node : {"none", "raw", "ready"}, up : BOOLEAN]

Nodes ==
  [kind : {"source", "clone"}, of : Sources, id : Nat]
    \cup [kind : {"sink"}, of : {"sink"}, id : Nat]

SeeJobs == [op : {"see"}, node : Nodes, scan : BOOLEAN]
OtherJobs == [op : {"fail", "retire"}, of : Sources] \cup [op : {"gate", "ensure", "stopped"}]
GrabJobs(stages) ==
  [op : {"grab"}, of : Sources, stage : stages, within : {"track", "pass", "fail"}]

Stages == {"enter", "probe", "settle", "grab", "release", "rerelease", "regrab"}

\* Jobs that wait have not begun; only the first one can be in the middle.
Listed == SeeJobs \cup OtherJobs \cup GrabJobs({"enter"})
Jobs == SeeJobs \cup OtherJobs \cup GrabJobs(Stages)

JobsOK(q) == q \in Seq(Jobs) /\ (q # <<>> => Head(q) \in Jobs /\ Tail(q) \in Seq(Listed))

ReaderOK ==
  /\ dev \in [Sources -> DevSet]
  /\ sinks \in SUBSET [id : Nat, gen : Nat]
  /\ JobsOK(jobs)
  /\ pass \in [probe : {-1, 0, 1}, again : BOOLEAN]
  /\ incomplete \in BOOLEAN
  /\ masks \in Demands
  /\ torn \in BOOLEAN
  /\ mode \in [started : BOOLEAN, monitor : BOOLEAN, forwarding : BOOLEAN]

OutsideOK ==
  /\ src \in [Sources -> SrcSet]
  /\ fwd \in [Sources -> FwdSet]
  /\ sink \in SinkSet
  /\ failure \in BOOLEAN
  /\ tapped \in SUBSET (Sources \cup {"sink"})
  /\ udev \in Seq([act : {"add", "remove"}, node : Nodes])
  /\ inputs \in 0..MaxInputs
  /\ faults \in 0..MaxFaults

TypeOK == ReaderOK /\ OutsideOK

-----------------------------------------------------------------------------
(* The inductive invariant *)

\* The stage of the grab's change of s that the reader is in.
StageOf(q, s) ==
  IF q # <<>> /\ Head(q).op = "grab" /\ Head(q).of = s THEN Head(q).stage ELSE "none"

\* x is the kernel's side of a source, d its tracked device, stage its grab's.
\* The kernel and the reader agree who holds the source.
Owned(x, d) ==
  /\ d.fd = "open" => (d.grabbed <=> x.owner = "us")
  /\ d.fd # "open" => x.owner # "us" /\ x.queue = <<>>

\* Queued reports are handled as they arrived, or came too late for it.
Arrived(x, d, stage) ==
  /\ \A i \in 1..Len(x.queue) : x.queue[i].late \/ x.queue[i].seen = ~d.grabbed
  /\ stage \in {"grab", "release", "rerelease"} => \A i \in 1..Len(x.queue) : x.queue[i].late

\* What the desktop holds of a source is down, or slipped in.
Shown(x, d, stage) ==
  /\ x.desk \ Contacts \subseteq x.down \cup x.slipped
  /\ x.owner = "us" => x.desk \ Contacts \subseteq x.slipped
  /\ x.owner = "other" => x.desk = {}
  /\ stage = "grab" => x.desk \ Contacts \subseteq x.slipped
  /\ stage \in {"probe", "settle", "grab", "regrab"} => ~d.grabbed

Steady(x, d, stage) == Owned(x, d) /\ Arrived(x, d, stage) /\ Shown(x, d, stage)

AllSteady == \A s \in Sources : Steady(src[s], dev[s], StageOf(jobs, s))

IInv == TypeOK /\ AllSteady

-----------------------------------------------------------------------------
(* Lemmas on induction and sequences *)

\* Induction on the naturals, for a set.
LEMMA NatInduct ==
  ASSUME NEW T, 0 \in T, \A n \in Nat : n \in T => n + 1 \in T
  PROVE  Nat \subseteq T
<1> SUFFICES ASSUME Nat \ T # {} PROVE FALSE
  OBVIOUS
<1>1. PICK x \in Nat \ T : \A y \in Nat \ T : ~(<<y, x>> \in OpToRel(<, Nat))
  BY NatLessThanWellFounded, WFMin
<1>2. \A y \in Nat \ T : ~(y < x)
  BY <1>1 DEF OpToRel
<1>3. x # 0 /\ x - 1 \in Nat /\ x - 1 < x
  OBVIOUS
<1>4. x - 1 \in T
  BY <1>2, <1>3
<1> QED
  BY <1>4, <1>3

\* What the provers need of sequences.
LEMMA SeqFacts ==
  ASSUME NEW S, NEW s \in Seq(S)
  PROVE  /\ Len(s) \in Nat /\ \A i \in 1..Len(s) : s[i] \in S
         /\ s # <<>> => Head(s) \in S /\ Tail(s) \in Seq(S) /\ Head(s) = s[1]
                        /\ Len(s) > 0 /\ Len(Tail(s)) = Len(s) - 1
                        /\ \A i \in 1..Len(Tail(s)) : i + 1 \in 1..Len(s) /\ Tail(s)[i] = s[i + 1]
OBVIOUS

\* A report arrives.
LEMMA AppendFacts ==
  ASSUME NEW S, NEW s \in Seq(S), NEW a \in S
  PROVE  /\ Append(s, a) \in Seq(S)
         /\ \A i \in 1..Len(Append(s, a)) : Append(s, a)[i] = a \/ (i \in 1..Len(s) /\ Append(s, a)[i] = s[i])
OBVIOUS

\* A larger set has more sequences.
LEMMA SeqMono ==
  ASSUME NEW S, NEW T, S \subseteq T, NEW s \in Seq(S)
  PROVE  s \in Seq(T)
OBVIOUS

\* A job before a list.
LEMMA ConsFacts ==
  ASSUME NEW S, NEW a, NEW s \in Seq(S)
  PROVE  LET q == <<a>> \o s IN q # <<>> /\ Head(q) = a /\ Tail(q) = s
<1>1. PICK one : one = <<a>>
  OBVIOUS
<1>2. Len(one) = 1 /\ one[1] = a /\ one \in Seq({a})
  BY <1>1
<1>3. PICK q : q = one \o s
  OBVIOUS
<1>4. one \in Seq({a} \cup S) /\ s \in Seq({a} \cup S)
  BY <1>2, SeqMono
<1>5. /\ q \in Seq({a} \cup S) /\ Len(q) = Len(s) + 1 /\ Len(s) \in Nat
      /\ q[1] = a /\ \A i \in 1..Len(s) : q[i + 1] = s[i]
  <2>1. PICK T : T = {a} \cup S
    OBVIOUS
  <2>2. one \in Seq(T) /\ s \in Seq(T)
    BY <2>1, <1>4
  <2>3. q \in Seq(T) /\ Len(q) = Len(one) + Len(s) /\ Len(s) \in Nat
    BY <2>2, <1>3
  <2>4. q[1] = one[1]
    <3>1. 1 \in 1..(Len(one) + Len(s)) /\ 1 <= Len(one)
      BY <2>3, <1>2
    <3> QED
      BY <2>2, <3>1, <1>3, ConcatProperties
  <2>5. ASSUME NEW i \in 1..Len(s) PROVE q[i + 1] = s[i]
    BY <2>2, <2>3, <1>2, <1>3
  <2> QED
    BY <2>1, <2>3, <2>4, <2>5, <1>2
<1>6. q # <<>> /\ Head(q) = a
  BY <1>5
<1>7. Tail(q) \in Seq({a} \cup S) /\ Len(Tail(q)) = Len(s) /\ \A i \in 1..Len(s) : Tail(q)[i] = s[i]
  BY <1>5, <1>6
<1>8. Tail(q) = s
  BY <1>4, <1>7
<1> QED
  BY <1>1, <1>3, <1>6, <1>8

\* A finite set can be listed.
LEMMA ListFacts ==
  ASSUME NEW S, IsFiniteSet(S)
  PROVE  SetToSeq(S) \in Seq(S)
<1>1. PICK n \in Nat : ExistsBijection(1..n, S)
  BY FS_NatBijection
<1>2. Cardinality(S) = n
  BY <1>1, FS_CountingElements
<1>3. \E f \in [1..Cardinality(S) -> S] : IsInjective(f)
  BY <1>1, <1>2 DEF ExistsBijection, Bijection, Injection, IsInjective
<1>4. SetToSeq(S) \in [1..n -> S]
  BY <1>2, <1>3 DEF SetToSeq
<1> QED
  BY <1>4

\* The values of a function on a finite set.
LEMMA ImageFinite ==
  ASSUME NEW S, IsFiniteSet(S), NEW f, f = [x \in S |-> f[x]]
  PROVE  IsFiniteSet({f[x] : x \in S})
<1>1. PICK T : T = {f[x] : x \in S}
  OBVIOUS
<1>2. f \in Surjection(S, T)
  BY <1>1 DEF Surjection
<1> QED
  BY <1>1, <1>2, FS_Surjection

\* The listing of a finite set has all its elements.
LEMMA SetOfListing ==
  ASSUME NEW S, IsFiniteSet(S)
  PROVE  ToSet(SetToSeq(S)) = S
<1>1. PICK n \in Nat : ExistsBijection(1..n, S)
  BY FS_NatBijection
<1>2. Cardinality(S) = n
  BY <1>1, FS_CountingElements
<1>3. \E f \in [1..Cardinality(S) -> S] : IsInjective(f)
  BY <1>1, <1>2 DEF ExistsBijection, Bijection, Injection, IsInjective
<1>4. PICK f : f = SetToSeq(S)
  OBVIOUS
<1>5. f \in [1..n -> S] /\ IsInjective(f)
  BY <1>2, <1>3, <1>4 DEF SetToSeq
<1>6. IsFiniteSet(1..n) /\ Cardinality(1..n) = n
  BY FS_Interval
<1>7. f \in Injection(1..n, S)
  BY <1>5 DEF Injection, IsInjective
<1>8. f \in Surjection(1..n, S)
  BY <1>2, <1>6, <1>7, FS_Injection
<1>9. \A x \in S : \E i \in 1..n : f[i] = x
  BY <1>8 DEF Surjection
<1> QED
  BY <1>4, <1>5, <1>9 DEF ToSet

\* The jobs of a handler: a list of jobs that have not begun, ...
LEMMA ListedJobs ==
  ASSUME NEW q \in Seq(Listed)
  PROVE  /\ JobsOK(q)
         /\ \A s \in Sources : StageOf(q, s) \in {"none", "enter"}
<1>1. Listed \subseteq Jobs
  BY DEF Listed, Jobs, GrabJobs, Stages
<1>2. q \in Seq(Jobs)
  BY <1>1, SeqMono
<1>3. q # <<>> => Head(q) \in Listed /\ Tail(q) \in Seq(Listed)
  BY SeqFacts
<1>4. ASSUME NEW j \in Listed, j.op = "grab" PROVE j.stage = "enter"
  <2>1. j \notin SeeJobs /\ j \notin OtherJobs
    BY <1>4 DEF SeeJobs, OtherJobs
  <2> QED
    BY <2>1 DEF Listed, GrabJobs
<1> QED
  BY <1>1, <1>2, <1>3, <1>4 DEF JobsOK, StageOf

\* ... or one of them with such a list behind it.
LEMMA ConsJobs ==
  ASSUME NEW j \in Jobs, NEW q \in Seq(Listed)
  PROVE  /\ JobsOK(<<j>> \o q)
         /\ \A s \in Sources :
              StageOf(<<j>> \o q, s) = IF j.op = "grab" /\ j.of = s THEN j.stage ELSE "none"
<1>1. PICK p : p = <<j>> \o q
  OBVIOUS
<1>2. p # <<>> /\ Head(p) = j /\ Tail(p) = q
  BY <1>1, ConsFacts
<1>3. Listed \subseteq Jobs
  BY DEF Listed, Jobs, GrabJobs, Stages
<1>4. q \in Seq(Jobs)
  BY <1>3, SeqMono
<1>5. p \in Seq(Jobs)
  <2>1. PICK one : one = <<j>>
    OBVIOUS
  <2>2. one \in Seq(Jobs)
    BY <2>1
  <2> QED
    BY <2>1, <2>2, <1>1, <1>4
<1> QED
  BY <1>1, <1>2, <1>5 DEF JobsOK, StageOf

\* The first job, and the rest.
LEMMA JobFacts ==
  ASSUME NEW q, JobsOK(q), q # <<>>
  PROVE  /\ Head(q) \in Jobs /\ Tail(q) \in Seq(Listed)
         /\ JobsOK(Tail(q))
         /\ \A s \in Sources : StageOf(Tail(q), s) \in {"none", "enter"}
<1>1. Head(q) \in Jobs /\ Tail(q) \in Seq(Listed)
  BY DEF JobsOK
<1> QED
  BY <1>1, ListedJobs

\* A job of a grab's change.
LEMMA GrabFacts ==
  ASSUME NEW j \in Jobs, j.op = "grab"
  PROVE  /\ j.of \in Sources /\ j.stage \in Stages /\ j.within \in {"track", "pass", "fail"}
         /\ \A stage \in Stages : [j EXCEPT !.stage = stage] \in Jobs
         /\ \A stage \in Stages :
              LET k == [j EXCEPT !.stage = stage]
              IN k.op = "grab" /\ k.of = j.of /\ k.stage = stage /\ k.within = j.within
<1>1. j \in GrabJobs(Stages)
  BY DEF Jobs, SeeJobs, OtherJobs, Listed, GrabJobs
<1>2. ASSUME NEW stage \in Stages
      PROVE  [j EXCEPT !.stage = stage] \in GrabJobs(Stages)
  BY <1>1 DEF GrabJobs
<1>3. ASSUME NEW stage \in Stages
      PROVE  LET k == [j EXCEPT !.stage = stage]
             IN k.op = "grab" /\ k.of = j.of /\ k.stage = stage /\ k.within = j.within
  BY <1>1 DEF GrabJobs
<1> QED
  BY <1>1, <1>2, <1>3 DEF Jobs, GrabJobs

\* A job that looks at a node, and one about a source's outputs.
LEMMA OtherFacts ==
  ASSUME NEW j \in Jobs
  PROVE  /\ j.op = "see" => j.node \in Nodes /\ j.scan \in BOOLEAN
         /\ j.op \in {"fail", "retire"} => j.of \in Sources
  BY DEF Jobs, SeeJobs, OtherJobs, GrabJobs

\* A handler's new jobs are in the list of those that have not begun.
LEMMA NewJobs ==
  /\ \A s \in Sources, within \in {"track", "pass", "fail"} : GrabJob(s, within) \in Listed
  /\ \A n \in Nodes : SeeJob(n) \in Listed /\ [SeeJob(n) EXCEPT !.scan = FALSE] \in Listed
  /\ \A s \in Sources, op \in {"fail", "retire"} : [op |-> op, of |-> s] \in Listed
  /\ \A op \in {"gate", "ensure", "stopped"} : [op |-> op] \in Listed
<1>1. ASSUME NEW s \in Sources, NEW within \in {"track", "pass", "fail"}
      PROVE  GrabJob(s, within) \in Listed
  BY DEF GrabJob, Listed, GrabJobs
<1>2. ASSUME NEW n \in Nodes PROVE SeeJob(n) \in SeeJobs /\ [SeeJob(n) EXCEPT !.scan = FALSE] \in SeeJobs
  BY DEF SeeJob, SeeJobs
<1>3. ASSUME NEW s \in Sources, NEW op \in {"fail", "retire"} PROVE [op |-> op, of |-> s] \in OtherJobs
  BY DEF OtherJobs
<1>4. ASSUME NEW op \in {"gate", "ensure", "stopped"} PROVE [op |-> op] \in OtherJobs
  BY DEF OtherJobs
<1> QED
  BY <1>1, <1>2, <1>3, <1>4 DEF Listed

\* Nodes.
LEMMA NodeFacts ==
  ASSUME TypeOK
  PROVE  /\ \A s \in Sources : SourceNode(s) \in Nodes /\ CloneNode(s) \in Nodes
         /\ SinkNode \in Nodes
         /\ \A n \in Nodes : n.kind \in {"source", "clone", "sink"} /\ (n.kind # "sink" => n.of \in Sources)
                             /\ n.id \in Nat
<1>1. ASSUME NEW s \in Sources PROVE SourceNode(s) \in Nodes /\ CloneNode(s) \in Nodes
  <2>1. fwd[s].id \in Nat
    BY DEF TypeOK, OutsideOK, FwdSet
  <2> QED
    BY <2>1 DEF SourceNode, CloneNode, Nodes
<1>2. SinkNode \in Nodes
  BY DEF TypeOK, OutsideOK, SinkSet, SinkNode, Nodes
<1>3. ASSUME NEW n \in Nodes
      PROVE  n.kind \in {"source", "clone", "sink"} /\ (n.kind # "sink" => n.of \in Sources) /\ n.id \in Nat
  BY DEF Nodes
<1> QED
  BY <1>1, <1>2, <1>3

\* The jobs of a scan, ...
LEMMA ScanFacts ==
  ASSUME TypeOK
  PROVE  /\ ScanJobs \in Seq(Listed)
         /\ \A j \in ToSet(ScanJobs) : j.op = "see"
         /\ \A s \in Sources : SeeJob(SourceNode(s)) \in ToSet(ScanJobs)
<1> DEFINE A == {SeeJob(SourceNode(s)) : s \in Sources}
           C == {t \in Sources : fwd[t].node # "none"}
           B == {SeeJob(CloneNode(s)) : s \in C}
           D == IF sink.node = "none" THEN {} ELSE {SeeJob(SinkNode)}
<1>1. IsFiniteSet(Sources)
  BY SourceAssumption
<1>2. IsFiniteSet(A)
  <2>1. PICK f : f = [s \in Sources |-> SeeJob(SourceNode(s))]
    OBVIOUS
  <2>2. A = {f[s] : s \in Sources} /\ f = [s \in Sources |-> f[s]]
    BY <2>1
  <2> QED
    BY <1>1, <2>2, ImageFinite
<1>3. IsFiniteSet(C) /\ C \subseteq Sources
  BY <1>1, FS_Subset
<1>4. IsFiniteSet(B)
  <2>1. PICK f : f = [s \in C |-> SeeJob(CloneNode(s))]
    OBVIOUS
  <2>2. B = {f[s] : s \in C} /\ f = [s \in C |-> f[s]]
    BY <2>1
  <2> HIDE DEF C
  <2> QED
    BY <1>3, <2>2, ImageFinite
<1>5. IsFiniteSet(D)
  BY FS_EmptySet, FS_Singleton
<1>6. A \subseteq Listed /\ B \subseteq Listed /\ D \subseteq Listed
  BY NewJobs, NodeFacts
<1>7. PICK S : S = (A \cup B) \cup D
  OBVIOUS
<1>8. IsFiniteSet(S) /\ S \subseteq Listed
  <2>1. IsFiniteSet(A \cup B)
    <3> HIDE DEF A, B
    <3> QED
      BY <1>2, <1>4, FS_Union
  <2> HIDE DEF A, B, D
  <2> QED
    BY <2>1, <1>5, <1>6, <1>7, FS_Union
<1>9. SetToSeq(S) \in Seq(S)
  BY <1>8, ListFacts
<1>10. ScanJobs = SetToSeq(S)
  BY <1>7 DEF ScanJobs
<1>11. ToSet(ScanJobs) = S
  BY <1>8, <1>10, SetOfListing
<1>12. \A j \in S : j.op = "see"
  BY <1>7 DEF SeeJob
<1>13. \A s \in Sources : SeeJob(SourceNode(s)) \in S
  BY <1>7
<1> QED
  BY <1>8, <1>9, <1>10, <1>11, <1>12, <1>13, SeqMono

\* ... and of a pass over the masks.
LEMMA PassFacts ==
  /\ PassJobs \in Seq(Listed)
  /\ ToSet(PassJobs) = {GrabJob(s, "pass") : s \in Sources}
<1>1. PICK S : S = {GrabJob(s, "pass") : s \in Sources}
  OBVIOUS
<1>2. IsFiniteSet(S)
  <2>1. PICK f : f = [s \in Sources |-> GrabJob(s, "pass")]
    OBVIOUS
  <2>2. S = {f[s] : s \in Sources} /\ f = [s \in Sources |-> f[s]]
    BY <1>1, <2>1
  <2> QED
    BY <2>2, SourceAssumption, ImageFinite
<1>3. S \subseteq Listed
  BY <1>1, NewJobs
<1>4. SetToSeq(S) \in Seq(S)
  BY <1>2, ListFacts
<1>5. ToSet(SetToSeq(S)) = S
  BY <1>2, SetOfListing
<1> QED
  BY <1>1, <1>3, <1>4, <1>5, SeqMono DEF PassJobs

\* The jobs of a retry that found an output failed.
LEMMA FailFacts ==
  ASSUME NEW S, S = {[op |-> "fail", of |-> s] : s \in Sources}
  PROVE  SetToSeq(S) \in Seq(Listed) /\ ToSet(SetToSeq(S)) = S
<1>1. IsFiniteSet(S)
  <2>1. PICK f : f = [s \in Sources |-> [op |-> "fail", of |-> s]]
    OBVIOUS
  <2>2. S = {f[s] : s \in Sources} /\ f = [s \in Sources |-> f[s]]
    BY <2>1
  <2> QED
    BY <2>2, SourceAssumption, ImageFinite
<1>2. S \subseteq Listed
  BY NewJobs
<1>3. SetToSeq(S) \in Seq(S) /\ ToSet(SetToSeq(S)) = S
  BY <1>1, ListFacts, SetOfListing
<1> QED
  BY <1>2, <1>3, SeqMono

-----------------------------------------------------------------------------
(* Handling reports *)

States == [dev : DevSet, fwd : FwdSet, incomplete : BOOLEAN]

\* Handling reports changes neither the descriptor nor the grab, and of the
\* outputs only what they hold.
Alike(h, st) ==
  /\ h.dev.fd = st.dev.fd /\ h.dev.grabbed = st.dev.grabbed /\ h.dev.ready = st.dev.ready
  /\ h.fwd.open = st.fwd.open /\ h.fwd.failed = st.fwd.failed
  /\ st.incomplete => h.incomplete

\* One report.
LEMMA HandledFacts ==
  ASSUME NEW st \in States, NEW e \in Reports, NEW passes \in BOOLEAN, NEW refused \in BOOLEAN
  PROVE  LET h == Handled(st, e, passes, refused)
         IN h \in States /\ Alike(h, st)
<1> DEFINE d == st.dev
           release == ~e.down /\ e.key \in d.owed /\ ~d.grabbed /\ ~refused
           awaited == IF e.key \in Contacts THEN d.awaited
                      ELSE IF e.down THEN d.awaited \cup {e.key} ELSE d.awaited \ {e.key}
           ends == d.deferred /\ awaited = {}
           owed == IF release THEN d.owed \ {e.key} ELSE d.owed
           waits == IF d.deferred THEN awaited ELSE d.awaited
           held == IF release \/ (d.grabbed /\ ~e.down) THEN st.fwd.held \ {e.key}
                   ELSE IF d.grabbed /\ e.down /\ passes /\ st.fwd.open THEN st.fwd.held \cup {e.key}
                   ELSE st.fwd.held
           nd == [d EXCEPT !.owed = owed, !.awaited = waits, !.deferred = d.deferred /\ ~ends]
           nf == [st.fwd EXCEPT !.held = held]
<1>1. d \in DevSet /\ st.fwd \in FwdSet /\ st.incomplete \in BOOLEAN /\ e.key \in Keys
  BY DEF States, Reports
<1>2. owed \in SUBSET Keys /\ awaited \in SUBSET Keys /\ waits \in SUBSET Keys
  BY <1>1 DEF DevSet
<1>3. held \in SUBSET Keys
  BY <1>1 DEF FwdSet
<1>4. ends \in BOOLEAN /\ (d.deferred /\ ~ends) \in BOOLEAN /\ (st.incomplete \/ ends) \in BOOLEAN
  OBVIOUS
<1>5. Handled(st, e, passes, refused) = [dev |-> nd, fwd |-> nf, incomplete |-> st.incomplete \/ ends]
  BY DEF Handled
<1> HIDE DEF owed, awaited, waits, held, ends, release
<1>6. PICK b \in BOOLEAN : b = (d.deferred /\ ~ends)
  BY <1>4
<1>7. nd = [d EXCEPT !.owed = owed, !.awaited = waits, !.deferred = b]
  BY <1>6
<1>8. nd \in DevSet /\ nd.fd = d.fd /\ nd.grabbed = d.grabbed /\ nd.ready = d.ready
  BY <1>1, <1>2, <1>7 DEF DevSet
<1>9. nf \in FwdSet /\ nf.open = st.fwd.open /\ nf.failed = st.fwd.failed
  BY <1>1, <1>3 DEF FwdSet
<1> HIDE DEF nd, nf
<1> QED
  BY <1>4, <1>5, <1>8, <1>9 DEF States, Alike

\* The recursive function in Drained exists.
IsDrain(f, st, q, passes, n) ==
  f = [i \in 0..n |-> IF i = 0 THEN st ELSE Handled(f[i - 1], q[i], i \in passes, FALSE)]

\* A drain of n reports extends one of n - 1.
LEMMA DrainExists ==
  ASSUME NEW st, NEW q, NEW passes, NEW n \in Nat
  PROVE  \E f : IsDrain(f, st, q, passes, n)
<1> USE DEF IsDrain
<1> DEFINE Is(f, k) == IsDrain(f, st, q, passes, k)
           N == {k \in Nat : \E f : Is(f, k)}
<1>1. 0 \in N
  <2>1. Is([i \in 0..0 |-> st], 0)
    OBVIOUS
  <2> QED
    BY <2>1
<1>2. ASSUME NEW k \in Nat, k \in N PROVE k + 1 \in N
  <2>1. PICK f : Is(f, k)
    BY <1>2
  <2>2. PICK last : last = Handled(f[k], q[k + 1], k + 1 \in passes, FALSE)
    OBVIOUS
  <2>3. PICK g : g = [i \in 0..(k + 1) |-> IF i = k + 1 THEN last ELSE f[i]]
    OBVIOUS
  <2>4. g[k + 1] = last /\ \A i \in 0..k : g[i] = f[i]
    BY <2>3
  <2>5. f[0] = st /\ \A i \in 1..k : f[i] = Handled(f[i - 1], q[i], i \in passes, FALSE)
    <3>1. \A i \in 0..k : f[i] = IF i = 0 THEN st ELSE Handled(f[i - 1], q[i], i \in passes, FALSE)
      BY <2>1, Zenon
    <3>2. 0 \in 0..k /\ \A i \in 1..k : i \in 0..k /\ i # 0
      OBVIOUS
    <3> QED
      BY <3>1, <3>2, Zenon
  <2>6. g[0] = st
    BY <2>4, <2>5
  <2>7. ASSUME NEW i \in 1..(k + 1) PROVE g[i] = Handled(g[i - 1], q[i], i \in passes, FALSE)
    <3>1. CASE i = k + 1
      <4>1. i - 1 = k /\ g[k] = f[k]
        BY <3>1, <2>4
      <4> QED
        BY <3>1, <4>1, <2>2, <2>4
    <3>2. CASE i # k + 1
      <4>1. i \in 1..k /\ i \in 0..k /\ i - 1 \in 0..k
        BY <3>2
      <4>2. g[i] = f[i] /\ g[i - 1] = f[i - 1]
        BY <4>1, <2>4
      <4> QED
        BY <4>1, <4>2, <2>5
    <3> QED
      BY <3>1, <3>2
  <2>8. g = [i \in 0..(k + 1) |-> g[i]]
    BY <2>3
  <2>9. \A i \in 0..(k + 1) : g[i] = IF i = 0 THEN st ELSE Handled(g[i - 1], q[i], i \in passes, FALSE)
    <3>1. \A i \in 0..(k + 1) : i = 0 \/ i \in 1..(k + 1)
      OBVIOUS
    <3> QED
      BY <3>1, <2>6, <2>7, Zenon
  <2>10. Is(g, k + 1)
    BY <2>8, <2>9, Zenon
  <2> HIDE DEF IsDrain, Is
  <2> QED
    BY <2>10
<1>3. Nat \subseteq N
  <2> HIDE DEF N
  <2> QED
    BY <1>1, <1>2, NatInduct
<1> HIDE DEF IsDrain
<1> QED
  BY <1>3

\* All that is queued.
LEMMA DrainedFacts ==
  ASSUME TypeOK, NEW s \in Sources, NEW passes
  PROVE  LET st == Drained(s, passes)
         IN /\ st \in States /\ st.dev.fd = dev[s].fd /\ st.dev.grabbed = dev[s].grabbed
            /\ Alike(st, [dev |-> dev[s], fwd |-> fwd[s], incomplete |-> incomplete])
<1> DEFINE st0 == [dev |-> dev[s], fwd |-> fwd[s], incomplete |-> incomplete]
           q == src[s].queue
           Is(f) == f = [i \in 0..Len(q) |-> IF i = 0 THEN st0
                                            ELSE Handled(f[i - 1], q[i], i \in passes, FALSE)]
<1>0. q \in Seq(Reports)
  BY DEF TypeOK, OutsideOK, SrcSet
<1>1. PICK n \in Nat : n = Len(q)
  <2>1. Len(q) \in Nat
    BY <1>0, SeqFacts
  <2> QED
    BY <2>1
<1>2. \E f : Is(f)
  <2>1. \E f : IsDrain(f, st0, q, passes, n)
    BY DrainExists
  <2> QED
    BY <1>1, <2>1, Zenon DEF IsDrain
<1>3. PICK g : g = CHOOSE f : Is(f)
  OBVIOUS
<1>4. Drained(s, passes) = g[n]
  BY <1>1, <1>3 DEF Drained
<1>5. Is(g)
  <2> HIDE DEF Is
  <2> QED
    BY <1>2, <1>3
<1>6. g[0] = st0 /\ \A i \in 1..n : g[i] = Handled(g[i - 1], q[i], i \in passes, FALSE)
  <2>1. \A i \in 0..n : g[i] = IF i = 0 THEN st0 ELSE Handled(g[i - 1], q[i], i \in passes, FALSE)
    BY <1>1, <1>5, Zenon
  <2>2. 0 \in 0..n /\ \A i \in 1..n : i \in 0..n /\ i # 0
    OBVIOUS
  <2> QED
    BY <2>1, <2>2, Zenon
<1> HIDE DEF Is
<1> DEFINE Good(x) == x \in States /\ Alike(x, st0)
           N == {m \in Nat : m <= n => Good(g[m])}
<1>7. Good(g[0])
  <2>1. dev[s] \in DevSet /\ fwd[s] \in FwdSet /\ incomplete \in BOOLEAN
    BY DEF TypeOK, ReaderOK, OutsideOK
  <2> QED
    BY <2>1, <1>6 DEF States, Alike
<1>8. ASSUME NEW m \in Nat, m + 1 <= n, Good(g[m]) PROVE Good(g[m + 1])
  <2>1. m + 1 \in 1..n /\ (m + 1) - 1 = m
    BY <1>8
  <2>2. q[m + 1] \in Reports
    BY <1>0, <1>1, <2>1, SeqFacts
  <2>3. PICK p \in BOOLEAN : p = (m + 1 \in passes)
    <3>1. (m + 1 \in passes) \in BOOLEAN
      OBVIOUS
    <3> QED
      BY <3>1
  <2>4. g[m + 1] = Handled(g[m], q[m + 1], p, FALSE)
    BY <1>6, <2>1, <2>3
  <2>5. PICK x : x = g[m]
    OBVIOUS
  <2>6. x \in States /\ Alike(x, st0)
    BY <1>8, <2>5
  <2>7. PICK h : h = Handled(x, q[m + 1], p, FALSE)
    OBVIOUS
  <2>8. h \in States /\ Alike(h, x)
    BY <2>2, <2>6, <2>7, HandledFacts
  <2>9. Alike(h, st0)
    BY <2>6, <2>8 DEF Alike
  <2> QED
    BY <2>4, <2>5, <2>7, <2>8, <2>9
<1> HIDE DEF Good
<1>9. 0 \in N /\ \A m \in Nat : m \in N => m + 1 \in N
  BY <1>7, <1>8
<1>10. Nat \subseteq N
  <2> HIDE DEF N
  <2> QED
    BY <1>9, NatInduct
<1>11. Good(g[n])
  BY <1>10
<1>12. g[n].dev.fd = dev[s].fd /\ g[n].dev.grabbed = dev[s].grabbed
  BY <1>11 DEF Good, Alike
<1> QED
  BY <1>4, <1>11, <1>12 DEF Good

\* Settling owed releases changes no more than that.
LEMMA SettledFacts ==
  ASSUME TypeOK, NEW s \in Sources, NEW st \in States
  PROVE  LET h == Settled(st, s)
         IN h \in States /\ h.dev.fd = st.dev.fd /\ h.dev.grabbed = st.dev.grabbed
            /\ h.incomplete = st.incomplete /\ Alike(h, st)
<1> DEFINE over == st.dev.owed \ src[s].down
<1>1. st.dev \in DevSet /\ st.fwd \in FwdSet /\ st.incomplete \in BOOLEAN
  BY DEF States
<1>2. PICK o \in SUBSET Keys : o = st.dev.owed \ over
  BY <1>1 DEF DevSet
<1>3. PICK h \in SUBSET Keys : h = st.fwd.held \ over
  BY <1>1 DEF FwdSet
<1>4. PICK x : x = [st EXCEPT !.dev.owed = o, !.fwd.held = h]
  OBVIOUS
<1>5. x = [dev |-> [st.dev EXCEPT !.owed = o], fwd |-> [st.fwd EXCEPT !.held = h],
           incomplete |-> st.incomplete]
  BY <1>4 DEF States
<1>6. PICK d : d = [st.dev EXCEPT !.owed = o]
  OBVIOUS
<1>7. d \in DevSet /\ d.fd = st.dev.fd /\ d.grabbed = st.dev.grabbed /\ d.ready = st.dev.ready
  BY <1>1, <1>6 DEF DevSet
<1>8. PICK f : f = [st.fwd EXCEPT !.held = h]
  OBVIOUS
<1>9. f \in FwdSet /\ f.open = st.fwd.open /\ f.failed = st.fwd.failed
  BY <1>1, <1>8 DEF FwdSet
<1>10. x = [dev |-> d, fwd |-> f, incomplete |-> st.incomplete]
  BY <1>5, <1>6, <1>8
<1>11. x \in States /\ x.dev = d /\ x.fwd = f /\ x.incomplete = st.incomplete
  BY <1>1, <1>7, <1>9, <1>10 DEF States
<1>12. Settled(st, s) \in {st, x}
  BY <1>2, <1>3, <1>4 DEF Settled
<1>13. Alike(st, st) /\ Alike(x, st)
  BY <1>7, <1>9, <1>11 DEF Alike
<1> QED
  BY <1>7, <1>11, <1>12, <1>13

-----------------------------------------------------------------------------
(* What keeps a source steady *)

\* Nothing about it changes, or the change of its grab ends.
LEMMA SteadyKept ==
  ASSUME NEW x, NEW d, NEW stage, Steady(x, d, stage),
         NEW e, e.fd = d.fd, e.grabbed = d.grabbed,
         NEW next, next = stage \/ next \in {"none", "enter"}
  PROVE  Steady(x, e, next)
  BY DEF Steady, Owned, Arrived, Shown

\* Its descriptor is closed, which ends our grab.
LEMMA SteadyClosed ==
  ASSUME NEW x \in SrcSet, NEW d, NEW stage, Steady(x, d, stage),
         NEW y \in SrcSet, y.queue = <<>>, y.owner = (IF x.owner = "us" THEN "none" ELSE x.owner),
         y.down = x.down, y.desk = x.desk, y.slipped = x.slipped,
         NEW e, e.fd # "open", ~e.grabbed, NEW next \in {"none", "enter"}
  PROVE  Steady(y, e, next)
<1>1. Len(y.queue) = 0
  OBVIOUS
<1>2. y.owner # "us" /\ (y.owner = "other" => x.owner = "other")
  BY DEF SrcSet
<1> QED
  BY <1>1, <1>2 DEF Steady, Owned, Arrived, Shown

\* What was queued is handled.
LEMMA SteadyDrained ==
  ASSUME NEW x \in SrcSet, NEW d, NEW stage, Steady(x, d, stage),
         NEW y, y = [x EXCEPT !.queue = <<>>],
         NEW e, e.fd = d.fd, e.grabbed = d.grabbed,
         NEW next \in {"none", "enter", "release", "rerelease"}
  PROVE  Steady(y, e, next)
<1>1. /\ y.queue = <<>> /\ Len(y.queue) = 0
      /\ y.owner = x.owner /\ y.down = x.down /\ y.desk = x.desk /\ y.slipped = x.slipped
  BY DEF SrcSet
<1> QED
  BY <1>1 DEF Steady, Owned, Arrived, Shown

\* ... and nothing is held, so a grab leaves nothing pressed that did not slip in.
LEMMA SteadyReleased ==
  ASSUME NEW x \in SrcSet, NEW d, NEW stage, Steady(x, d, stage), ~d.grabbed,
         x.down \ Contacts = {},
         NEW y, y = [x EXCEPT !.queue = <<>>, !.slipped = @ \cap x.desk],
         NEW e, e.fd = d.fd, e.grabbed = d.grabbed
  PROVE  Steady(y, e, "grab")
<1>1. /\ y.queue = <<>> /\ Len(y.queue) = 0 /\ y.owner = x.owner
      /\ y.down = x.down /\ y.desk = x.desk /\ y.slipped = x.slipped \cap x.desk
  BY DEF SrcSet
<1> QED
  BY <1>1 DEF Steady, Owned, Arrived, Shown

\* One source changes, and the jobs that follow have not begun.
LEMMA SteadyFocus ==
  ASSUME IInv, NEW s \in Sources,
         \A t \in Sources \ {s} :
           /\ src'[t] = src[t] /\ dev'[t].fd = dev[t].fd /\ dev'[t].grabbed = dev[t].grabbed
           /\ StageOf(jobs', t) = StageOf(jobs, t) \/ StageOf(jobs', t) \in {"none", "enter"},
         Steady(src'[s], dev'[s], StageOf(jobs', s))
  PROVE  AllSteady'
<1> SUFFICES ASSUME NEW t \in Sources PROVE Steady(src'[t], dev'[t], StageOf(jobs', t))
  BY DEF AllSteady
<1>1. CASE t = s
  BY <1>1
<1>2. CASE t # s
  <2>1. /\ t \in Sources \ {s} /\ src'[t] = src[t]
        /\ dev'[t].fd = dev[t].fd /\ dev'[t].grabbed = dev[t].grabbed
    BY <1>2
  <2>2. StageOf(jobs', t) = StageOf(jobs, t) \/ StageOf(jobs', t) \in {"none", "enter"}
    BY <1>2
  <2>3. Steady(src[t], dev[t], StageOf(jobs, t))
    BY DEF IInv, AllSteady
  <2>4. Steady(src[t], dev'[t], StageOf(jobs', t))
    BY <2>1, <2>2, <2>3, SteadyKept
  <2> QED
    BY <2>1, <2>4
<1> QED
  BY <1>1, <1>2

\* No source changes, as far as this goes.
LEMMA SteadyFrame ==
  ASSUME IInv,
         \A t \in Sources :
           /\ src'[t] = src[t] /\ dev'[t].fd = dev[t].fd /\ dev'[t].grabbed = dev[t].grabbed
           /\ StageOf(jobs', t) = StageOf(jobs, t) \/ StageOf(jobs', t) \in {"none", "enter"}
  PROVE  AllSteady'
<1> SUFFICES ASSUME NEW t \in Sources PROVE Steady(src'[t], dev'[t], StageOf(jobs', t))
  BY DEF AllSteady
<1>1. Steady(src[t], dev[t], StageOf(jobs, t))
  BY DEF IInv, AllSteady
<1>2. Steady(src[t], dev'[t], StageOf(jobs', t))
  BY <1>1, SteadyKept
<1> QED
  BY <1>2

-----------------------------------------------------------------------------
(* The pieces of the reader's handlers *)

Passes == [probe : {-1, 0, 1}, again : BOOLEAN]

\* What a step of a grab's change may change.
GrabStep ==
  /\ src' \in [Sources -> SrcSet] /\ dev' \in [Sources -> DevSet]
  /\ fwd' \in [Sources -> FwdSet] /\ tapped' \in SUBSET (Sources \cup {"sink"})
  /\ JobsOK(jobs') /\ pass' \in Passes /\ incomplete' \in BOOLEAN
  /\ AllSteady'

\* The job the reader is at.
LEMMA AtJob ==
  ASSUME TypeOK, NEW op, Job(op)
  PROVE  /\ jobs # <<>> /\ Head(jobs) \in Jobs /\ Head(jobs).op = op /\ Tail(jobs) \in Seq(Listed)
         /\ JobsOK(Tail(jobs))
         /\ \A s \in Sources : StageOf(Tail(jobs), s) \in {"none", "enter"}
  BY JobFacts DEF TypeOK, ReaderOK, Job

\* The source whose grab changes, and the stage.
LEMMA AtGrab ==
  ASSUME TypeOK, NEW stage, Grabbing(stage)
  PROVE  /\ Job("grab") /\ Head(jobs).of \in Sources /\ Head(jobs).stage = stage
         /\ StageOf(jobs, Head(jobs).of) = stage
         /\ \A t \in Sources \ {Head(jobs).of} : StageOf(jobs, t) = "none"
<1>1. Job("grab") /\ Head(jobs).stage = stage
  BY DEF Grabbing
<1>2. jobs # <<>> /\ Head(jobs) \in Jobs /\ Head(jobs).op = "grab"
  BY <1>1, AtJob
<1> QED
  BY <1>1, <1>2, GrabFacts DEF StageOf

\* A grab's change ends.
LEMMA DoneFacts ==
  ASSUME TypeOK, Job("grab"), NEW d, NEW failed, NEW r \in BOOLEAN, NEW probe \in {-1, 0, 1},
         Done(d, failed, r, probe)
  PROVE  /\ JobsOK(jobs') /\ pass' \in Passes /\ incomplete' \in BOOLEAN
         /\ \A t \in Sources : StageOf(jobs', t) \in {"none", "enter"}
<1>1. jobs' = Tail(jobs)
  BY DEF Done
<1>2. JobsOK(jobs') /\ \A t \in Sources : StageOf(jobs', t) \in {"none", "enter"}
  BY <1>1, AtJob
<1>3. pass' \in Passes
  BY DEF Done, Passes
<1>4. Head(jobs).within \in {"track", "pass", "fail"}
  BY AtJob, GrabFacts
<1>5. incomplete' \in BOOLEAN
  BY <1>4 DEF Done, TypeOK, ReaderOK
<1> QED
  BY <1>2, <1>3, <1>5

\* It goes on to another stage.
LEMMA AtFacts ==
  ASSUME TypeOK, Job("grab"), NEW stage \in Stages, At(stage)
  PROVE  /\ JobsOK(jobs') /\ StageOf(jobs', Head(jobs).of) = stage
         /\ \A t \in Sources \ {Head(jobs).of} : StageOf(jobs', t) = "none"
<1>1. Head(jobs) \in Jobs /\ Head(jobs).op = "grab" /\ Tail(jobs) \in Seq(Listed)
  BY AtJob
<1>2. PICK j : j = [Head(jobs) EXCEPT !.stage = stage]
  OBVIOUS
<1>3. j \in Jobs /\ j.op = "grab" /\ j.of = Head(jobs).of /\ j.stage = stage /\ Head(jobs).of \in Sources
  BY <1>1, <1>2, GrabFacts
<1>4. jobs' = <<j>> \o Tail(jobs)
  BY <1>2 DEF At
<1> QED
  BY <1>1, <1>3, <1>4, ConsJobs

\* A device is closed.
LEMMA CloseFacts ==
  ASSUME IInv, NEW s \in Sources, NEW fd \in {"none", "closed"}, Close(s, fd)
  PROVE  /\ src' \in [Sources -> SrcSet] /\ dev' \in [Sources -> DevSet]
         /\ fwd' \in [Sources -> FwdSet] /\ tapped' \in SUBSET (Sources \cup {"sink"})
         /\ \A t \in Sources \ {s} : src'[t] = src[t] /\ dev'[t] = dev[t]
         /\ \A stage \in {"none", "enter"} : Steady(src'[s], dev'[s], stage)
<1> USE DEF TypeOK, OutsideOK, ReaderOK
<1>0. TypeOK /\ src[s] \in SrcSet /\ dev[s] \in DevSet /\ fwd[s] \in FwdSet
  BY DEF IInv
<1>1. PICK d : d = [Untracked EXCEPT !.fd = fd]
  OBVIOUS
<1>2. d \in DevSet /\ d.fd = fd /\ ~d.grabbed
  BY <1>1 DEF Untracked, DevSet
<1>3. dev' = [dev EXCEPT ![s] = d]
  BY <1>1 DEF Close
<1>4. dev' \in [Sources -> DevSet] /\ dev'[s] = d /\ \A t \in Sources \ {s} : dev'[t] = dev[t]
  BY <1>0, <1>2, <1>3
<1>5. PICK y : y = [src[s] EXCEPT !.owner = IF @ = "us" THEN "none" ELSE @, !.queue = <<>>]
  OBVIOUS
<1>6. /\ y \in SrcSet /\ y.queue = <<>>
      /\ y.owner = (IF src[s].owner = "us" THEN "none" ELSE src[s].owner)
      /\ y.down = src[s].down /\ y.desk = src[s].desk /\ y.slipped = src[s].slipped
  <2>1. PICK o \in {"none", "us", "other"} : o = (IF src[s].owner = "us" THEN "none" ELSE src[s].owner)
    BY <1>0 DEF SrcSet
  <2>2. PICK q \in Seq(Reports) : q = <<>>
    <3>1. <<>> \in Seq(Reports)
      OBVIOUS
    <3> QED
      BY <3>1
  <2>3. y = [src[s] EXCEPT !.owner = o, !.queue = q]
    BY <1>5, <2>1, <2>2
  <2>4. /\ y \in SrcSet /\ y.queue = q /\ y.owner = o
        /\ y.down = src[s].down /\ y.desk = src[s].desk /\ y.slipped = src[s].slipped
    BY <1>0, <2>3 DEF SrcSet
  <2> QED
    BY <2>1, <2>2, <2>4
<1>7. src' = [src EXCEPT ![s] = y]
  BY <1>0, <1>5 DEF Close
<1>8. src' \in [Sources -> SrcSet] /\ src'[s] = y /\ \A t \in Sources \ {s} : src'[t] = src[t]
  BY <1>0, <1>6, <1>7
<1>9. fwd' \in [Sources -> FwdSet]
  <2>1. NoForward(fwd[s].id) \in FwdSet
    BY <1>0 DEF NoForward, FwdSet
  <2> QED
    BY <1>0, <2>1 DEF Close
<1>10. tapped' \in SUBSET (Sources \cup {"sink"})
  BY <1>0 DEF Close
<1>11. Steady(src[s], dev[s], StageOf(jobs, s))
  BY DEF IInv, AllSteady
<1>12. fd # "open"
  OBVIOUS
<1>13. ASSUME NEW stage \in {"none", "enter"} PROVE Steady(y, d, stage)
  BY <1>0, <1>2, <1>6, <1>11, <1>12, SteadyClosed
<1> QED
  BY <1>4, <1>8, <1>9, <1>10, <1>13

\* Forwarding is ensured, which touches no descriptor and no grab.
LEMMA EnsureFacts ==
  ASSUME TypeOK, NEW D \in [Sources -> DevSet], NEW S, EnsureForwarding(D, S)
  PROVE  /\ dev' \in [Sources -> DevSet] /\ fwd' \in [Sources -> FwdSet]
         /\ tapped' \in SUBSET (Sources \cup {"sink"}) /\ faults' \in 0..MaxFaults
         /\ \A t \in Sources : dev'[t].fd = D[t].fd /\ dev'[t].grabbed = D[t].grabbed
<1>1. PICK unable \in SUBSET Wants(D, S) :
         /\ unable # {} => faults < MaxFaults
         /\ faults' = faults + IF unable = {} THEN 0 ELSE 1
         /\ fwd' = EnsuredForward(D, S, unable)
         /\ dev' = [s \in Sources |->
                     IF s \notin Wants(D, S) THEN D[s]
                     ELSE [D[s] EXCEPT !.owed = {}, !.ready = fwd'[s].open /\ ~HasClone(s)]]
         /\ tapped' = tapped \ Wants(D, S)
  BY DEF EnsureForwarding
<1>2. faults' \in 0..MaxFaults
  <2>1. faults \in 0..MaxFaults /\ MaxFaults \in Nat
    BY BoundAssumption DEF TypeOK, OutsideOK
  <2>4. (unable # {} => faults < MaxFaults) /\ faults' = faults + IF unable = {} THEN 0 ELSE 1
    BY <1>1, Zenon
  <2>2. CASE unable = {}
    BY <2>1, <2>2, <2>4
  <2>3. CASE unable # {}
    BY <2>1, <2>3, <2>4
  <2> QED
    BY <2>2, <2>3
<1>3. tapped' \in SUBSET (Sources \cup {"sink"})
  BY <1>1 DEF TypeOK, OutsideOK
<1>4. ASSUME NEW s \in Sources PROVE fwd'[s] \in FwdSet
  <2>1. fwd[s] \in FwdSet /\ fwd[s].id \in Nat
    BY DEF TypeOK, OutsideOK, FwdSet
  <2>2. NoForward(fwd[s].id) \in FwdSet /\ NoForward(fwd[s].id + 1) \in FwdSet
    BY <2>1 DEF NoForward, FwdSet
  <2>3. PICK node \in {"none", "raw"} : node = (IF HasClone(s) THEN "raw" ELSE "none")
    OBVIOUS
  <2>4. [NoForward(fwd[s].id + 1) EXCEPT !.open = TRUE, !.node = node] \in FwdSet
    BY <2>2 DEF FwdSet
  <2>5. fwd'[s] \in {fwd[s], NoForward(fwd[s].id),
                     [NoForward(fwd[s].id + 1) EXCEPT !.open = TRUE, !.node = node]}
    BY <1>1, <2>3 DEF EnsuredForward
  <2> QED
    BY <2>1, <2>2, <2>4, <2>5
<1>5. fwd' \in [Sources -> FwdSet]
  <2>1. fwd' = [s \in Sources |-> fwd'[s]]
    BY <1>1 DEF EnsuredForward
  <2> QED
    BY <1>4, <2>1
<1>6. ASSUME NEW s \in Sources
      PROVE  dev'[s] \in DevSet /\ dev'[s].fd = D[s].fd /\ dev'[s].grabbed = D[s].grabbed
  <2>1. D[s] \in DevSet
    OBVIOUS
  <2>2. PICK ready \in BOOLEAN : ready = (fwd'[s].open /\ ~HasClone(s))
    <3>1. (fwd'[s].open /\ ~HasClone(s)) \in BOOLEAN
      OBVIOUS
    <3> QED
      BY <3>1
  <2>3. PICK e : e = [D[s] EXCEPT !.owed = {}, !.ready = ready]
    OBVIOUS
  <2>4. e \in DevSet /\ e.fd = D[s].fd /\ e.grabbed = D[s].grabbed
    BY <2>1, <2>3 DEF DevSet
  <2>5. dev'[s] = D[s] \/ dev'[s] = e
    BY <1>1, <2>2, <2>3
  <2> QED
    BY <2>1, <2>4, <2>5
<1>7. dev' \in [Sources -> DevSet]
  <2>1. dev' = [s \in Sources |-> dev'[s]]
    BY <1>1
  <2> QED
    BY <1>6, <2>1
<1> QED
  BY <1>2, <1>3, <1>5, <1>6, <1>7
-----------------------------------------------------------------------------
(* The stages of a grab's change *)

\* The outcome of a step of the change that leaves the kernel's side alone.
LEMMA LeaveFacts ==
  ASSUME IInv, Job("grab"), NEW s \in Sources, s = Head(jobs).of,
         NEW d \in DevSet, d.fd = dev[s].fd, d.grabbed = dev[s].grabbed,
         NEW failed, Leave(s, d, failed)
  PROVE  GrabStep
<1>0. TypeOK /\ dev \in [Sources -> DevSet] /\ incomplete \in BOOLEAN /\ pass.probe \in {-1, 0, 1}
  BY DEF IInv, TypeOK, ReaderOK
<1>1. dev' = [dev EXCEPT ![s] = d] /\ src' = src /\ fwd' = fwd /\ tapped' = tapped
  BY DEF Leave
<1>2. Done(d, failed, incomplete, pass.probe)
  BY DEF Leave
<1>3. /\ JobsOK(jobs') /\ pass' \in Passes /\ incomplete' \in BOOLEAN
      /\ \A t \in Sources : StageOf(jobs', t) \in {"none", "enter"}
  BY <1>0, <1>2, DoneFacts
<1>4. dev' \in [Sources -> DevSet] /\ dev'[s] = d /\ \A t \in Sources \ {s} : dev'[t] = dev[t]
  BY <1>0, <1>1
<1>5. ASSUME NEW t \in Sources
      PROVE  /\ src'[t] = src[t] /\ dev'[t].fd = dev[t].fd /\ dev'[t].grabbed = dev[t].grabbed
             /\ StageOf(jobs', t) = StageOf(jobs, t) \/ StageOf(jobs', t) \in {"none", "enter"}
  BY <1>1, <1>3, <1>4
<1>6. AllSteady'
  BY <1>5, SteadyFrame
<1> QED
  BY <1>0, <1>1, <1>3, <1>4, <1>6 DEF GrabStep, TypeOK, OutsideOK

\* The keys that hold the grab off are noted.
LEMMA DeferredFacts ==
  ASSUME TypeOK, NEW s \in Sources, NEW d \in DevSet
  PROVE  LET e == Deferred(d, s) IN e \in DevSet /\ e.fd = d.fd /\ e.grabbed = d.grabbed /\ e.owed = d.owed
                                     /\ e.ready = d.ready
<1>1. Pressed(s) \in SUBSET Keys
  BY DEF TypeOK, OutsideOK, SrcSet, Pressed
<1>2. PICK b \in BOOLEAN : b = (d.fd = "open" /\ Pressed(s) # {})
  <2>1. (d.fd = "open" /\ Pressed(s) # {}) \in BOOLEAN
    OBVIOUS
  <2> QED
    BY <2>1
<1>3. PICK a \in SUBSET Keys : a = (IF d.fd = "open" THEN Pressed(s) ELSE d.awaited)
  BY <1>1 DEF DevSet
<1>4. Deferred(d, s) = [d EXCEPT !.deferred = b, !.awaited = a]
  BY <1>2, <1>3 DEF Deferred
<1> QED
  BY <1>4 DEF DevSet

\* The change of the grab goes on to a stage that asks nothing new of a source.
LEMMA GoesOn ==
  ASSUME IInv, Job("grab"), NEW s \in Sources, s = Head(jobs).of,
         NEW stage \in Stages, At(stage),
         dev' \in [Sources -> DevSet], src' \in [Sources -> SrcSet],
         \A t \in Sources \ {s} : src'[t] = src[t] /\ dev'[t] = dev[t],
         Steady(src'[s], dev'[s], stage)
  PROVE  AllSteady' /\ JobsOK(jobs')
<1>0. TypeOK
  BY DEF IInv
<1>1. /\ JobsOK(jobs') /\ StageOf(jobs', s) = stage
      /\ \A t \in Sources \ {s} : StageOf(jobs', t) = "none"
  BY <1>0, AtFacts
<1>2. Steady(src'[s], dev'[s], StageOf(jobs', s))
  BY <1>1
<1>3. ASSUME NEW t \in Sources \ {s}
      PROVE  /\ src'[t] = src[t] /\ dev'[t].fd = dev[t].fd /\ dev'[t].grabbed = dev[t].grabbed
             /\ StageOf(jobs', t) = StageOf(jobs, t) \/ StageOf(jobs', t) \in {"none", "enter"}
  BY <1>1
<1> QED
  BY <1>1, <1>2, <1>3, SteadyFocus

\* The change of the grab ends with a change of its source.
LEMMA EndsWith ==
  ASSUME IInv, Job("grab"), NEW s \in Sources,
         NEW d, NEW failed, NEW r \in BOOLEAN, NEW probe \in {-1, 0, 1}, Done(d, failed, r, probe),
         \A t \in Sources \ {s} : src'[t] = src[t] /\ dev'[t] = dev[t],
         \A stage \in {"none", "enter"} : Steady(src'[s], dev'[s], stage)
  PROVE  AllSteady' /\ JobsOK(jobs') /\ pass' \in Passes /\ incomplete' \in BOOLEAN
<1>0. TypeOK
  BY DEF IInv
<1>1. /\ JobsOK(jobs') /\ pass' \in Passes /\ incomplete' \in BOOLEAN
      /\ \A t \in Sources : StageOf(jobs', t) \in {"none", "enter"}
  BY <1>0, DoneFacts
<1>2. Steady(src'[s], dev'[s], StageOf(jobs', s))
  BY <1>1
<1>3. ASSUME NEW t \in Sources \ {s}
      PROVE  /\ src'[t] = src[t] /\ dev'[t].fd = dev[t].fd /\ dev'[t].grabbed = dev[t].grabbed
             /\ StageOf(jobs', t) = StageOf(jobs, t) \/ StageOf(jobs', t) \in {"none", "enter"}
  BY <1>1
<1> QED
  BY <1>1, <1>2, <1>3, SteadyFocus

\* The outputs and the keys are looked at.
LEMMA TryGrabFacts ==
  ASSUME IInv, Job("grab"), NEW s \in Sources, s = Head(jobs).of, ~dev[s].grabbed, TryGrab(s)
  PROVE  GrabStep
<1>0. /\ TypeOK /\ dev \in [Sources -> DevSet] /\ dev[s] \in DevSet /\ src \in [Sources -> SrcSet]
      /\ fwd \in [Sources -> FwdSet] /\ tapped \in SUBSET (Sources \cup {"sink"})
      /\ pass \in Passes /\ incomplete \in BOOLEAN
  BY DEF IInv, TypeOK, ReaderOK, OutsideOK, Passes
<1>1. PICK e : e = Deferred(dev[s], s)
  OBVIOUS
<1>2. e \in DevSet /\ e.fd = dev[s].fd /\ e.grabbed = dev[s].grabbed
  BY <1>0, <1>1, DeferredFacts
<1>3. CASE Leave(s, dev[s], Failed(s))
  BY <1>0, <1>3, LeaveFacts
<1>4. CASE Leave(s, Deferred(dev[s], s), FALSE)
  <2>1. Leave(s, e, FALSE)
    BY <1>1, <1>4
  <2> QED
    BY <1>2, <2>1, LeaveFacts
<1>5. CASE /\ At("probe")
           /\ dev' = [dev EXCEPT ![s] = Deferred(@, s)]
           /\ UNCHANGED <<src, fwd, tapped, incomplete, pass>>
  <2>1. dev' = [dev EXCEPT ![s] = e]
    BY <1>0, <1>1, <1>5
  <2>2. dev' \in [Sources -> DevSet] /\ dev'[s] = e /\ \A t \in Sources \ {s} : dev'[t] = dev[t]
    BY <1>0, <1>2, <2>1
  <2>3. Steady(src[s], dev[s], StageOf(jobs, s))
    BY DEF IInv, AllSteady
  <2>4. Steady(src[s], e, "none")
    BY <1>2, <2>3, SteadyKept
  <2>5. Steady(src[s], e, "probe")
    BY <1>2, <2>4 DEF Steady, Owned, Arrived, Shown
  <2>6. Steady(src'[s], dev'[s], "probe")
    BY <1>5, <2>2, <2>5
  <2>7. "probe" \in Stages /\ src' = src /\ fwd' = fwd /\ tapped' = tapped /\ incomplete' = incomplete
        /\ pass' = pass /\ At("probe")
    BY <1>5 DEF Stages
  <2>8. AllSteady' /\ JobsOK(jobs')
    BY <1>0, <2>2, <2>6, <2>7, GoesOn
  <2> QED
    BY <1>0, <2>2, <2>7, <2>8 DEF GrabStep
<1> QED
  BY <1>3, <1>4, <1>5 DEF TryGrab

\* A device that is gone is closed.
LEMMA GoneFacts ==
  ASSUME IInv, Job("grab"), NEW s \in Sources, s = Head(jobs).of, NEW failed,
         GoneWhileDrained(s, failed)
  PROVE  GrabStep
<1>0. TypeOK /\ incomplete \in BOOLEAN /\ pass.probe \in {-1, 0, 1}
  BY DEF IInv, TypeOK, ReaderOK
<1>1. Close(s, "closed") /\ Done(Untracked, failed, incomplete, pass.probe)
  BY DEF GoneWhileDrained
<1>2. /\ src' \in [Sources -> SrcSet] /\ dev' \in [Sources -> DevSet]
      /\ fwd' \in [Sources -> FwdSet] /\ tapped' \in SUBSET (Sources \cup {"sink"})
      /\ \A t \in Sources \ {s} : src'[t] = src[t] /\ dev'[t] = dev[t]
      /\ \A stage \in {"none", "enter"} : Steady(src'[s], dev'[s], stage)
  BY <1>1, CloseFacts
<1>3. AllSteady' /\ JobsOK(jobs') /\ pass' \in Passes /\ incomplete' \in BOOLEAN
  BY <1>0, <1>1, <1>2, EndsWith
<1> QED
  BY <1>2, <1>3 DEF GrabStep

\* What is queued is handled before a release.
LEMMA DrainFirstFacts ==
  ASSUME IInv, Job("grab"), NEW s \in Sources, s = Head(jobs).of,
         NEW stage \in {"release", "rerelease"}, DrainFirst(s, stage)
  PROVE  GrabStep
<1>0. /\ TypeOK /\ dev \in [Sources -> DevSet] /\ src \in [Sources -> SrcSet] /\ src[s] \in SrcSet
      /\ fwd \in [Sources -> FwdSet] /\ tapped \in SUBSET (Sources \cup {"sink"})
      /\ pass \in Passes /\ incomplete \in BOOLEAN
  BY DEF IInv, TypeOK, ReaderOK, OutsideOK, Passes
<1>1. CASE GoneWhileDrained(s, stage = "rerelease")
  BY <1>1, GoneFacts
<1>2. CASE /\ At(stage)
           /\ \E passes \in SUBSET (1..Len(src[s].queue)) :
                LET st == Drained(s, passes)
                IN /\ dev' = [dev EXCEPT ![s] = st.dev]
                   /\ fwd' = [fwd EXCEPT ![s] = st.fwd]
                   /\ incomplete' = st.incomplete
           /\ src' = [src EXCEPT ![s].queue = <<>>]
           /\ UNCHANGED <<pass, tapped>>
  <2>1. PICK passes, st :
           /\ st = Drained(s, passes)
           /\ dev' = [dev EXCEPT ![s] = st.dev] /\ fwd' = [fwd EXCEPT ![s] = st.fwd]
           /\ incomplete' = st.incomplete
    BY <1>2
  <2>2. st \in States /\ st.dev.fd = dev[s].fd /\ st.dev.grabbed = dev[s].grabbed
    BY <1>0, <2>1, DrainedFacts
  <2>3. PICK d : d = st.dev
    OBVIOUS
  <2>4. d \in DevSet /\ d.fd = dev[s].fd /\ d.grabbed = dev[s].grabbed /\ st.fwd \in FwdSet
        /\ st.incomplete \in BOOLEAN
    BY <2>2, <2>3 DEF States
  <2>5. dev' \in [Sources -> DevSet] /\ dev'[s] = d /\ \A t \in Sources \ {s} : dev'[t] = dev[t]
    BY <1>0, <2>1, <2>3, <2>4
  <2>6. fwd' \in [Sources -> FwdSet] /\ incomplete' \in BOOLEAN /\ pass' = pass /\ tapped' = tapped
    BY <1>0, <1>2, <2>1, <2>4
  <2>7. PICK y : y = [src[s] EXCEPT !.queue = <<>>]
    OBVIOUS
  <2>8. y \in SrcSet
    <3>1. <<>> \in Seq(Reports)
      OBVIOUS
    <3> QED
      BY <1>0, <2>7, <3>1 DEF SrcSet
  <2>9. src' \in [Sources -> SrcSet] /\ src'[s] = y /\ \A t \in Sources \ {s} : src'[t] = src[t]
    BY <1>0, <1>2, <2>7, <2>8
  <2>10. Steady(src[s], dev[s], StageOf(jobs, s))
    BY DEF IInv, AllSteady
  <2>11. Steady(y, d, stage)
    BY <1>0, <2>4, <2>7, <2>10, SteadyDrained
  <2>12. AllSteady' /\ JobsOK(jobs')
    <3>1. stage \in Stages /\ At(stage) /\ Steady(src'[s], dev'[s], stage)
      BY <1>2, <2>5, <2>9, <2>11 DEF Stages
    <3> QED
      BY <2>5, <2>9, <3>1, GoesOn
  <2> QED
    BY <1>0, <2>5, <2>6, <2>9, <2>12 DEF GrabStep
<1> QED
  BY <1>1, <1>2 DEF DrainFirst

\* set_device_grab's first steps keep the invariant.
LEMMA EnterGrabKeeps ==
  ASSUME IInv, EnterGrab
  PROVE  IInv'
<1>0. TypeOK /\ Grabbing("enter")
  BY DEF IInv, EnterGrab
<1>1. PICK s : s = Head(jobs).of
  OBVIOUS
<1>2. s \in Sources /\ Job("grab")
  BY <1>0, <1>1, AtGrab
<1>3. PICK d : d = dev[s]
  OBVIOUS
<1>4. d \in DevSet
  BY <1>0, <1>2, <1>3 DEF TypeOK, ReaderOK
<1>5. GrabStep
  <2>1. PICK e : e = [d EXCEPT !.deferred = FALSE]
    OBVIOUS
  <2>2. e \in DevSet /\ e.fd = d.fd /\ e.grabbed = d.grabbed
    BY <1>4, <2>1 DEF DevSet
  <2>3. PICK f : f = [d EXCEPT !.deferred = FALSE, !.tail = FALSE, !.foreign = FALSE]
    OBVIOUS
  <2>4. f \in DevSet /\ f.fd = d.fd /\ f.grabbed = d.grabbed
    BY <1>4, <2>3 DEF DevSet
  <2>5. CASE Leave(s, e, FALSE)
    BY <1>1, <1>2, <1>3, <2>2, <2>5, LeaveFacts
  <2>6. CASE Leave(s, d, FALSE)
    BY <1>1, <1>2, <1>3, <1>4, <2>6, LeaveFacts
  <2>7. CASE Leave(s, f, FALSE)
    BY <1>1, <1>2, <1>3, <2>4, <2>7, LeaveFacts
  <2>8. CASE DrainFirst(s, "release")
    BY <1>1, <1>2, <2>8, DrainFirstFacts
  <2>9. CASE DrainFirst(s, "rerelease")
    BY <1>1, <1>2, <2>9, DrainFirstFacts
  <2>10. CASE ~dev[s].grabbed /\ TryGrab(s)
    BY <1>1, <1>2, <2>10, TryGrabFacts
  <2> QED
    BY <1>1, <1>3, <2>1, <2>3, <2>5, <2>6, <2>7, <2>8, <2>9, <2>10 DEF EnterGrab
<1>6. UNCHANGED <<udev, inputs, sink, failure, sinks, masks, torn, mode, faults>>
  BY DEF EnterGrab
<1> QED
  BY <1>0, <1>5, <1>6 DEF IInv, TypeOK, ReaderOK, OutsideOK, GrabStep, Passes

\* So does trying again after a release.
LEMMA RegrabKeeps ==
  ASSUME IInv, Regrab
  PROVE  IInv'
<1>0. TypeOK /\ Grabbing("regrab")
  BY DEF IInv, Regrab
<1>1. PICK s : s = Head(jobs).of
  OBVIOUS
<1>2. s \in Sources /\ Job("grab") /\ StageOf(jobs, s) = "regrab"
  BY <1>0, <1>1, AtGrab
<1>3. ~dev[s].grabbed
  BY <1>2 DEF IInv, AllSteady, Steady, Shown
<1>4. GrabStep
  BY <1>1, <1>2, <1>3, TryGrabFacts DEF Regrab
<1>5. UNCHANGED <<udev, inputs, sink, failure, sinks, masks, torn, mode, faults>>
  BY DEF Regrab
<1> QED
  BY <1>0, <1>4, <1>5 DEF IInv, TypeOK, ReaderOK, OutsideOK, GrabStep, Passes

\* Probing our outputs touches no descriptor and no grab.
LEMMA ProbeKeeps ==
  ASSUME IInv, Probe
  PROVE  IInv'
<1>0. /\ TypeOK /\ Grabbing("probe") /\ dev \in [Sources -> DevSet] /\ pass \in Passes
      /\ incomplete \in BOOLEAN /\ src \in [Sources -> SrcSet]
  BY DEF IInv, Probe, TypeOK, ReaderOK, OutsideOK, Passes
<1>1. PICK s : s = Head(jobs).of
  OBVIOUS
<1>2. s \in Sources /\ Job("grab") /\ StageOf(jobs, s) = "probe"
  BY <1>0, <1>1, AtGrab
<1>3. PICK probe : probe = (IF dev[s].foreign \/ pass.probe # -1 THEN pass.probe
                            ELSE IF OutputTapped THEN 1 ELSE 0)
  OBVIOUS
<1>4. probe \in {-1, 0, 1}
  BY <1>0, <1>3 DEF Passes
<1>5. \/ dev' = [dev EXCEPT ![s].tail = TRUE] /\ Done(dev'[s], FALSE, incomplete, probe)
      \/ At("settle") /\ pass' = [pass EXCEPT !.probe = probe] /\ UNCHANGED <<dev, incomplete>>
  BY <1>1, <1>3 DEF Probe
<1>6. UNCHANGED <<kernel, outputs, sinks, masks, torn, mode, faults>>
  BY DEF Probe
<1>7. src' = src
  BY <1>6 DEF kernel
<1>8. Steady(src[s], dev[s], "probe")
  BY <1>2 DEF IInv, AllSteady
<1>9. /\ AllSteady' /\ JobsOK(jobs') /\ pass' \in Passes /\ incomplete' \in BOOLEAN
      /\ dev' \in [Sources -> DevSet]
  <2>1. CASE dev' = [dev EXCEPT ![s].tail = TRUE] /\ Done(dev'[s], FALSE, incomplete, probe)
    <3>1. PICK e : e = [dev[s] EXCEPT !.tail = TRUE]
      OBVIOUS
    <3>2. dev[s] \in DevSet
      BY <1>0, <1>2
    <3>3. e \in DevSet /\ e.fd = dev[s].fd /\ e.grabbed = dev[s].grabbed
      BY <3>1, <3>2 DEF DevSet
    <3>4. dev' \in [Sources -> DevSet] /\ dev'[s] = e /\ \A t \in Sources \ {s} : dev'[t] = dev[t]
      BY <1>0, <1>2, <2>1, <3>1, <3>3
    <3>5. ASSUME NEW stage \in {"none", "enter"} PROVE Steady(src'[s], dev'[s], stage)
      <4>1. Steady(src[s], e, stage)
        BY <1>8, <3>3, SteadyKept
      <4> QED
        BY <4>1, <1>7, <3>4
    <3>6. PICK no : no = FALSE /\ Done(e, no, incomplete, probe)
      BY <2>1, <3>4
    <3>7. \A t \in Sources \ {s} : src'[t] = src[t] /\ dev'[t] = dev[t]
      BY <1>7, <3>4
    <3> QED
      BY <1>0, <1>2, <1>4, <3>4, <3>5, <3>6, <3>7, EndsWith
  <2>2. CASE At("settle") /\ pass' = [pass EXCEPT !.probe = probe] /\ UNCHANGED <<dev, incomplete>>
    <3>1. Steady(src[s], dev[s], "settle")
      BY <1>8 DEF Steady, Owned, Arrived, Shown
    <3>2. /\ Steady(src'[s], dev'[s], "settle") /\ dev' \in [Sources -> DevSet]
          /\ src' \in [Sources -> SrcSet] /\ At("settle") /\ "settle" \in Stages
          /\ \A t \in Sources \ {s} : src'[t] = src[t] /\ dev'[t] = dev[t]
      BY <1>0, <1>7, <2>2, <3>1 DEF Stages
    <3>3. AllSteady' /\ JobsOK(jobs')
      BY <1>1, <1>2, <3>2, GoesOn
    <3>4. pass' \in Passes
      BY <1>0, <1>4, <2>2 DEF Passes
    <3> QED
      BY <1>0, <2>2, <3>2, <3>3, <3>4
  <2> QED
    BY <1>5, <2>1, <2>2
<1> QED
  BY <1>0, <1>6, <1>9 DEF IInv, TypeOK, ReaderOK, OutsideOK, Passes, kernel, outputs

\* The last look at the keys: when nothing is held, the desktop holds nothing that
\* the grab would leave pressed.
LEMMA SettleKeeps ==
  ASSUME IInv, Settle
  PROVE  IInv'
<1>0. /\ TypeOK /\ Grabbing("settle") /\ dev \in [Sources -> DevSet] /\ pass \in Passes
      /\ incomplete \in BOOLEAN /\ src \in [Sources -> SrcSet] /\ fwd \in [Sources -> FwdSet]
      /\ tapped \in SUBSET (Sources \cup {"sink"})
  BY DEF IInv, Settle, TypeOK, ReaderOK, OutsideOK, Passes
<1>1. PICK s : s = Head(jobs).of
  OBVIOUS
<1>2. s \in Sources /\ Job("grab") /\ StageOf(jobs, s) = "settle"
  BY <1>0, <1>1, AtGrab
<1>3. Steady(src[s], dev[s], "settle") /\ ~dev[s].grabbed /\ src[s] \in SrcSet /\ pass.probe \in {-1, 0, 1}
  BY <1>0, <1>2 DEF IInv, AllSteady, Steady, Shown, Passes
<1>4. PICK dr : dr = Drained(s, {})
  OBVIOUS
<1>5. dr \in States /\ dr.dev.fd = dev[s].fd /\ dr.dev.grabbed = dev[s].grabbed
  BY <1>0, <1>2, <1>4, DrainedFacts
<1>6. PICK st : st = Settled(dr, s)
  OBVIOUS
<1>7. st \in States /\ st.dev.fd = dev[s].fd /\ st.dev.grabbed = dev[s].grabbed
  BY <1>0, <1>2, <1>5, <1>6, SettledFacts
<1>8. PICK c : c = st.dev
  OBVIOUS
<1>9. c \in DevSet /\ c.fd = dev[s].fd /\ c.grabbed = dev[s].grabbed /\ st.fwd \in FwdSet
      /\ st.incomplete \in BOOLEAN
  BY <1>7, <1>8 DEF States
<1>10. PICK d : d = Deferred(c, s)
  OBVIOUS
<1>11. d \in DevSet /\ d.fd = dev[s].fd /\ d.grabbed = dev[s].grabbed
  BY <1>0, <1>2, <1>9, <1>10, DeferredFacts
<1>12. CASE GoneWhileDrained(s, FALSE)
  <2>1. GrabStep
    BY <1>1, <1>2, <1>12, GoneFacts
  <2>2. UNCHANGED <<udev, inputs, sink, failure, sinks, masks, torn, mode, faults>>
    BY DEF Settle
  <2> QED
    BY <1>0, <2>1, <2>2 DEF IInv, TypeOK, ReaderOK, OutsideOK, GrabStep, Passes
<1>13. CASE /\ dev' = [dev EXCEPT ![s] = d]
            /\ fwd' = [fwd EXCEPT ![s] = st.fwd]
            /\ IF Pressed(s) # {} \/ d.owed # {}
               THEN /\ Done(d, FALSE, st.incomplete, pass.probe)
                    /\ src' = [src EXCEPT ![s].queue = <<>>]
               ELSE /\ At("grab")
                    /\ incomplete' = st.incomplete
                    /\ src' = [src EXCEPT ![s].queue = <<>>, ![s].slipped = @ \cap src[s].desk]
                    /\ UNCHANGED pass
            /\ UNCHANGED tapped
  <2>1. dev' \in [Sources -> DevSet] /\ dev'[s] = d /\ \A t \in Sources \ {s} : dev'[t] = dev[t]
    BY <1>0, <1>2, <1>11, <1>13
  <2>2. fwd' \in [Sources -> FwdSet] /\ tapped' = tapped
    BY <1>0, <1>9, <1>13
  <2>3. <<>> \in Seq(Reports)
    OBVIOUS
  <2>4. /\ src' \in [Sources -> SrcSet] /\ AllSteady' /\ JobsOK(jobs') /\ pass' \in Passes
        /\ incomplete' \in BOOLEAN
    <3>1. CASE Pressed(s) # {} \/ d.owed # {}
      <4>1. PICK y : y = [src[s] EXCEPT !.queue = <<>>]
        OBVIOUS
      <4>2. y \in SrcSet
        BY <1>3, <2>3, <4>1 DEF SrcSet
      <4>3. src' = [src EXCEPT ![s].queue = <<>>] /\ Done(d, FALSE, st.incomplete, pass.probe)
        BY <1>13, <3>1
      <4>4. src' \in [Sources -> SrcSet] /\ src'[s] = y /\ \A t \in Sources \ {s} : src'[t] = src[t]
        BY <1>0, <1>2, <4>1, <4>2, <4>3
      <4>5. ASSUME NEW stage \in {"none", "enter"} PROVE Steady(src'[s], dev'[s], stage)
        <5>1. Steady(y, d, stage)
          BY <1>3, <1>11, <4>1, SteadyDrained
        <5> QED
          BY <2>1, <4>4, <5>1
      <4>6. \A t \in Sources \ {s} : src'[t] = src[t] /\ dev'[t] = dev[t]
        BY <2>1, <4>4
      <4>7. PICK no, r \in BOOLEAN : r = st.incomplete /\ Done(d, no, r, pass.probe)
        BY <1>9, <4>3
      <4> QED
        BY <1>2, <1>3, <4>4, <4>5, <4>6, <4>7, EndsWith
    <3>2. CASE ~(Pressed(s) # {} \/ d.owed # {})
      <4>1. PICK y : y = [src[s] EXCEPT !.queue = <<>>, !.slipped = @ \cap src[s].desk]
        OBVIOUS
      <4>2. y \in SrcSet
        BY <1>3, <2>3, <4>1 DEF SrcSet
      <4>3. /\ src' = [src EXCEPT ![s].queue = <<>>, ![s].slipped = @ \cap src[s].desk]
            /\ At("grab") /\ incomplete' = st.incomplete /\ pass' = pass
        BY <1>13, <3>2
      <4>4. src' \in [Sources -> SrcSet] /\ src'[s] = y /\ \A t \in Sources \ {s} : src'[t] = src[t]
        BY <1>0, <1>2, <4>1, <4>2, <4>3
      <4>5. src[s].down \ Contacts = {}
        BY <3>2 DEF Pressed
      <4>6. Steady(y, d, "grab")
        BY <1>3, <1>11, <4>1, <4>5, SteadyReleased
      <4>7. Steady(src'[s], dev'[s], "grab") /\ "grab" \in Stages
        BY <2>1, <4>4, <4>6 DEF Stages
      <4>8. \A t \in Sources \ {s} : src'[t] = src[t] /\ dev'[t] = dev[t]
        BY <2>1, <4>4
      <4>9. AllSteady' /\ JobsOK(jobs')
        BY <1>1, <1>2, <2>1, <4>3, <4>4, <4>7, <4>8, GoesOn
      <4> QED
        BY <1>0, <1>9, <4>3, <4>4, <4>9
    <3> QED
      BY <3>1, <3>2
  <2>5. UNCHANGED <<udev, inputs, sink, failure, sinks, masks, torn, mode, faults>>
    BY DEF Settle
  <2> QED
    BY <1>0, <2>1, <2>2, <2>4, <2>5 DEF IInv, TypeOK, ReaderOK, OutsideOK, Passes
<1> QED
  BY <1>1, <1>4, <1>6, <1>8, <1>10, <1>12, <1>13 DEF Settle

\* EVIOCGRAB(on): what is still queued came too late, and the desktop holds only
\* what slipped in.
LEMMA GrabKeeps ==
  ASSUME IInv, Grab
  PROVE  IInv'
<1>0. /\ TypeOK /\ Grabbing("grab") /\ dev \in [Sources -> DevSet] /\ pass.probe \in {-1, 0, 1}
      /\ incomplete \in BOOLEAN /\ src \in [Sources -> SrcSet]
  BY DEF IInv, Grab, TypeOK, ReaderOK, OutsideOK
<1>1. PICK s : s = Head(jobs).of
  OBVIOUS
<1>2. s \in Sources /\ Job("grab") /\ StageOf(jobs, s) = "grab"
  BY <1>0, <1>1, AtGrab
<1>3. PICK works \in BOOLEAN : works = (dev[s].fd = "open" /\ src[s].owner = "none")
  <2>1. (dev[s].fd = "open" /\ src[s].owner = "none") \in BOOLEAN
    OBVIOUS
  <2> QED
    BY <2>1
<1>4. PICK foreign \in BOOLEAN : foreign = (dev[s].fd = "open" /\ src[s].owner = "other")
  <2>1. (dev[s].fd = "open" /\ src[s].owner = "other") \in BOOLEAN
    OBVIOUS
  <2> QED
    BY <2>1
<1>5. PICK tail \in BOOLEAN : tail = (dev[s].tail /\ ~works)
  <2>1. (dev[s].tail /\ ~works) \in BOOLEAN
    OBVIOUS
  <2> QED
    BY <2>1
<1>6. PICK d : d = [dev[s] EXCEPT !.grabbed = works, !.tail = tail, !.foreign = foreign]
  OBVIOUS
<1>7. dev[s] \in DevSet /\ src[s] \in SrcSet
  BY <1>0, <1>2
<1>8. d \in DevSet /\ d.fd = dev[s].fd /\ d.grabbed = works
  BY <1>6, <1>7 DEF DevSet
<1>9. PICK y : y = [src[s] EXCEPT !.owner = IF works THEN "us" ELSE @]
  OBVIOUS
<1>10. /\ y \in SrcSet /\ y.queue = src[s].queue /\ y.down = src[s].down
       /\ y.desk = src[s].desk /\ y.slipped = src[s].slipped
       /\ works => y.owner = "us"
       /\ ~works => y.owner = src[s].owner
  <2>1. PICK o \in {"none", "us", "other"} : o = (IF works THEN "us" ELSE src[s].owner)
    BY <1>7 DEF SrcSet
  <2>2. y = [src[s] EXCEPT !.owner = o]
    BY <1>9, <2>1
  <2> QED
    BY <1>7, <2>1, <2>2 DEF SrcSet
<1>11. /\ dev' = [dev EXCEPT ![s] = d]
       /\ src' = [src EXCEPT ![s].owner = IF works THEN "us" ELSE @]
       /\ Done(d, ~works, incomplete, pass.probe)
  BY <1>1, <1>3, <1>4, <1>5, <1>6 DEF Grab
<1>12. /\ dev' \in [Sources -> DevSet] /\ dev'[s] = d /\ src' \in [Sources -> SrcSet] /\ src'[s] = y
       /\ \A t \in Sources \ {s} : src'[t] = src[t] /\ dev'[t] = dev[t]
  BY <1>0, <1>2, <1>8, <1>9, <1>10, <1>11
<1>13. Steady(src[s], dev[s], "grab")
  BY <1>2 DEF IInv, AllSteady
<1>14. ASSUME NEW stage \in {"none", "enter"} PROVE Steady(y, d, stage)
  <2>1. Owned(y, d)
    BY <1>3, <1>8, <1>10, <1>13 DEF Steady, Owned, Shown
  <2>2. Arrived(y, d, stage)
    BY <1>8, <1>10, <1>13 DEF Steady, Arrived
  <2>3. Shown(y, d, stage)
    BY <1>3, <1>8, <1>10, <1>13 DEF Steady, Shown
  <2> QED
    BY <2>1, <2>2, <2>3 DEF Steady
<1>15. PICK failed : Done(d, failed, incomplete, pass.probe)
  BY <1>11
<1>16. AllSteady' /\ JobsOK(jobs') /\ pass' \in Passes /\ incomplete' \in BOOLEAN
  BY <1>0, <1>2, <1>12, <1>14, <1>15, EndsWith
<1>17. UNCHANGED <<outputs, tapped, udev, inputs, sinks, masks, torn, mode, faults>>
  BY DEF Grab
<1> QED
  BY <1>0, <1>12, <1>16, <1>17 DEF IInv, TypeOK, ReaderOK, OutsideOK, Passes, outputs

\* EVIOCGRAB(off), or closing the descriptor: what is still queued came too late.
LEMMA ReleaseKeeps ==
  ASSUME IInv, Release
  PROVE  IInv'
<1>0. /\ TypeOK /\ dev \in [Sources -> DevSet] /\ pass \in Passes /\ pass.probe \in {-1, 0, 1}
      /\ incomplete \in BOOLEAN /\ src \in [Sources -> SrcSet] /\ fwd \in [Sources -> FwdSet]
      /\ tapped \in SUBSET (Sources \cup {"sink"}) /\ faults \in 0..MaxFaults
  BY DEF IInv, TypeOK, ReaderOK, OutsideOK, Passes
<1>1. PICK s : s = Head(jobs).of
  OBVIOUS
<1>2. PICK stage \in {"release", "rerelease"} : Grabbing(stage)
  BY DEF Release
<1>3. s \in Sources /\ Job("grab") /\ StageOf(jobs, s) = stage /\ Head(jobs).stage = stage
  BY <1>0, <1>1, <1>2, AtGrab
<1>4. Steady(src[s], dev[s], stage) /\ src[s] \in SrcSet /\ dev[s] \in DevSet /\ fwd[s] \in FwdSet
  BY <1>0, <1>3 DEF IInv, AllSteady
<1>5. UNCHANGED <<udev, inputs, sink, failure, sinks, masks, torn, mode>>
  BY DEF Release
<1>6. PICK d : d = [dev[s] EXCEPT !.grabbed = FALSE, !.deferred = FALSE, !.tail = FALSE,
                      !.foreign = FALSE, !.owed = fwd[s].held]
  OBVIOUS
<1>7. d \in DevSet /\ d.fd = dev[s].fd /\ ~d.grabbed
  <2>1. PICK held \in SUBSET Keys : held = fwd[s].held
    BY <1>4 DEF FwdSet
  <2> QED
    BY <1>4, <1>6, <2>1 DEF DevSet
<1>8. CASE /\ dev[s].fd = "open"
           /\ src' = [src EXCEPT ![s].owner = "none"]
           /\ dev' = [dev EXCEPT ![s] = d]
           /\ IF Head(jobs).stage = "release" THEN Done(d, FALSE, incomplete, pass.probe)
              ELSE At("regrab") /\ UNCHANGED <<incomplete, pass>>
           /\ UNCHANGED <<fwd, tapped, faults>>
  <2>1. PICK y : y = [src[s] EXCEPT !.owner = "none"]
    OBVIOUS
  <2>2. /\ y \in SrcSet /\ y.queue = src[s].queue /\ y.down = src[s].down
        /\ y.desk = src[s].desk /\ y.slipped = src[s].slipped /\ y.owner = "none"
    BY <1>4, <2>1 DEF SrcSet
  <2>3. /\ dev' \in [Sources -> DevSet] /\ dev'[s] = d /\ src' \in [Sources -> SrcSet] /\ src'[s] = y
        /\ \A t \in Sources \ {s} : src'[t] = src[t] /\ dev'[t] = dev[t]
    BY <1>0, <1>3, <1>7, <1>8, <2>1, <2>2
  <2>4. ASSUME NEW next \in {"none", "enter", "regrab"} PROVE Steady(y, d, next)
    <3>1. Owned(y, d)
      BY <1>7, <1>8, <2>2 DEF Owned
    <3>2. Arrived(y, d, next)
      BY <1>4, <2>2 DEF Steady, Arrived
    <3>3. Shown(y, d, next)
      BY <1>4, <1>7, <2>2 DEF Steady, Shown
    <3> QED
      BY <3>1, <3>2, <3>3 DEF Steady
  <2>5. AllSteady' /\ JobsOK(jobs') /\ pass' \in Passes /\ incomplete' \in BOOLEAN
    <3>1. CASE stage = "release"
      <4>1. PICK no : Done(d, no, incomplete, pass.probe)
        BY <1>3, <1>8, <3>1
      <4>2. \A next \in {"none", "enter"} : Steady(src'[s], dev'[s], next)
        BY <2>3, <2>4
      <4> QED
        BY <1>0, <1>3, <2>3, <4>1, <4>2, EndsWith
    <3>2. CASE stage = "rerelease"
      <4>1. At("regrab") /\ incomplete' = incomplete /\ pass' = pass /\ "regrab" \in Stages
        BY <1>3, <1>8, <3>2 DEF Stages
      <4>2. Steady(src'[s], dev'[s], "regrab")
        BY <2>3, <2>4
      <4>3. AllSteady' /\ JobsOK(jobs')
        BY <1>1, <1>3, <2>3, <4>1, <4>2, GoesOn
      <4> QED
        BY <1>0, <4>1, <4>3
    <3> QED
      BY <3>1, <3>2
  <2> QED
    BY <1>0, <1>5, <1>8, <2>3, <2>5 DEF IInv, TypeOK, ReaderOK, OutsideOK, Passes
<1>9. CASE /\ dev[s].fd = "stale" \/ faults < MaxFaults
           /\ faults' = faults + IF dev[s].fd = "stale" THEN 0 ELSE 1
           /\ Close(s, "closed")
           /\ Done(Untracked, TRUE, incomplete, pass.probe)
  <2>1. faults' \in 0..MaxFaults
    BY <1>0, <1>9, BoundAssumption
  <2>2. /\ src' \in [Sources -> SrcSet] /\ dev' \in [Sources -> DevSet]
        /\ fwd' \in [Sources -> FwdSet] /\ tapped' \in SUBSET (Sources \cup {"sink"})
        /\ \A t \in Sources \ {s} : src'[t] = src[t] /\ dev'[t] = dev[t]
        /\ \A next \in {"none", "enter"} : Steady(src'[s], dev'[s], next)
    BY <1>3, <1>9, CloseFacts
  <2>3. PICK failed, e : Done(e, failed, incomplete, pass.probe)
    BY <1>9
  <2>4. AllSteady' /\ JobsOK(jobs') /\ pass' \in Passes /\ incomplete' \in BOOLEAN
    BY <1>0, <1>3, <2>2, <2>3, EndsWith
  <2> QED
    BY <1>0, <1>5, <2>1, <2>2, <2>4 DEF IInv, TypeOK, ReaderOK, OutsideOK, Passes
<1> QED
  BY <1>1, <1>6, <1>8, <1>9 DEF Release

-----------------------------------------------------------------------------
(* Reading and tracking *)

\* One event is handled, or a device that is gone is closed.
LEMMA ReadKeeps ==
  ASSUME IInv, NEW s \in Sources, Read(s)
  PROVE  IInv'
<1>0. /\ TypeOK /\ dev \in [Sources -> DevSet] /\ dev[s] \in DevSet /\ fwd[s] \in FwdSet
      /\ incomplete \in BOOLEAN /\ src \in [Sources -> SrcSet] /\ src[s] \in SrcSet
      /\ fwd \in [Sources -> FwdSet] /\ tapped \in SUBSET (Sources \cup {"sink"})
      /\ faults \in 0..MaxFaults /\ src[s].queue \in Seq(Reports)
  BY DEF IInv, TypeOK, ReaderOK, OutsideOK, SrcSet
<1>1. UNCHANGED <<sink, sinks, failure, udev, jobs, pass, masks, torn, mode, inputs>> /\ jobs = <<>>
  BY DEF Read
<1>2. \A t \in Sources : StageOf(jobs, t) = "none" /\ StageOf(jobs', t) = "none"
  BY <1>1 DEF StageOf
<1>3. Steady(src[s], dev[s], "none")
  BY <1>2 DEF IInv, AllSteady
<1>4. CASE dev[s].fd = "stale" /\ Close(s, "closed") /\ UNCHANGED <<incomplete, faults>>
  <2>1. /\ src' \in [Sources -> SrcSet] /\ dev' \in [Sources -> DevSet]
        /\ fwd' \in [Sources -> FwdSet] /\ tapped' \in SUBSET (Sources \cup {"sink"})
        /\ \A t \in Sources \ {s} : src'[t] = src[t] /\ dev'[t] = dev[t]
        /\ \A next \in {"none", "enter"} : Steady(src'[s], dev'[s], next)
    BY <1>4, CloseFacts
  <2>2. AllSteady'
    BY <1>2, <2>1, SteadyFocus
  <2> QED
    BY <1>0, <1>1, <1>4, <2>1, <2>2 DEF IInv, TypeOK, ReaderOK, OutsideOK
<1>5. CASE /\ dev[s].fd = "open" /\ src[s].queue # <<>>
           /\ \E passes, refused \in BOOLEAN :
                LET st == Handled([dev |-> dev[s], fwd |-> fwd[s], incomplete |-> incomplete],
                                  Head(src[s].queue), passes, refused)
                IN /\ refused => faults < MaxFaults /\ dev[s].owed # {}
                   /\ faults' = faults + IF refused THEN 1 ELSE 0
                   /\ dev' = [dev EXCEPT ![s] = st.dev]
                   /\ fwd' = [fwd EXCEPT ![s] = st.fwd]
                   /\ incomplete' = st.incomplete
           /\ src' = [src EXCEPT ![s].queue = Tail(@)]
           /\ UNCHANGED tapped
  <2>1. PICK st0 : st0 = [dev |-> dev[s], fwd |-> fwd[s], incomplete |-> incomplete]
    OBVIOUS
  <2>2. st0 \in States /\ st0.dev = dev[s]
    BY <1>0, <2>1 DEF States
  <2>3. PICK passes, refused, st :
           /\ passes \in BOOLEAN /\ refused \in BOOLEAN
           /\ st = Handled(st0, Head(src[s].queue), passes, refused)
           /\ refused => faults < MaxFaults
           /\ faults' = faults + IF refused THEN 1 ELSE 0
           /\ dev' = [dev EXCEPT ![s] = st.dev]
           /\ fwd' = [fwd EXCEPT ![s] = st.fwd]
           /\ incomplete' = st.incomplete
    BY <1>5, <2>1
  <2>4. Head(src[s].queue) \in Reports /\ Tail(src[s].queue) \in Seq(Reports)
    BY <1>0, <1>5, SeqFacts
  <2>5. st \in States /\ st.dev.fd = dev[s].fd /\ st.dev.grabbed = dev[s].grabbed
    <3>1. st \in States /\ Alike(st, st0)
      BY <2>2, <2>3, <2>4, HandledFacts
    <3> QED
      BY <2>2, <3>1 DEF Alike
  <2>6. PICK d : d = st.dev
    OBVIOUS
  <2>7. d \in DevSet /\ d.fd = dev[s].fd /\ d.grabbed = dev[s].grabbed
        /\ st.fwd \in FwdSet /\ st.incomplete \in BOOLEAN
    BY <2>5, <2>6 DEF States
  <2>8. PICK y : y = [src[s] EXCEPT !.queue = Tail(@)]
    OBVIOUS
  <2>9. /\ y \in SrcSet /\ y.queue = Tail(src[s].queue) /\ y.down = src[s].down
        /\ y.desk = src[s].desk /\ y.slipped = src[s].slipped /\ y.owner = src[s].owner
    BY <1>0, <2>4, <2>8 DEF SrcSet
  <2>10. /\ dev' \in [Sources -> DevSet] /\ dev'[s] = d /\ src' \in [Sources -> SrcSet] /\ src'[s] = y
         /\ \A t \in Sources \ {s} : src'[t] = src[t] /\ dev'[t] = dev[t]
    BY <1>0, <1>5, <2>3, <2>6, <2>7, <2>8, <2>9
  <2>11. fwd' \in [Sources -> FwdSet] /\ incomplete' \in BOOLEAN /\ tapped' = tapped
    BY <1>0, <1>5, <2>3, <2>7
  <2>12. faults' \in 0..MaxFaults
    BY <1>0, <2>3, BoundAssumption
  <2>13. Steady(y, d, "none")
    <3>1. Owned(y, d)
      BY <1>3, <1>5, <2>7, <2>9 DEF Steady, Owned
    <3>2. Arrived(y, d, "none")
      <4>1. ASSUME NEW i \in 1..Len(y.queue) PROVE y.queue[i].late \/ y.queue[i].seen = ~d.grabbed
        <5>1. i + 1 \in 1..Len(src[s].queue) /\ y.queue[i] = src[s].queue[i + 1]
          BY <1>0, <1>5, <2>9, SeqFacts
        <5> QED
          BY <1>3, <2>7, <5>1 DEF Steady, Arrived
      <4> QED
        BY <4>1 DEF Arrived
    <3>3. Shown(y, d, "none")
      BY <1>3, <2>9 DEF Steady, Shown
    <3> QED
      BY <3>1, <3>2, <3>3 DEF Steady
  <2>14. AllSteady'
    <3>1. Steady(src'[s], dev'[s], StageOf(jobs', s))
      BY <1>2, <2>10, <2>13
    <3> QED
      BY <1>2, <2>10, <3>1, SteadyFocus
  <2> QED
    BY <1>0, <1>1, <2>10, <2>11, <2>12, <2>14 DEF IInv, TypeOK, ReaderOK, OutsideOK
<1> QED
  BY <1>4, <1>5 DEF Read

\* An action that leaves sources, devices and the jobs that have begun alone.
LEMMA SteadyJobs ==
  ASSUME IInv, src' = src, dev' = dev, jobs' \in Seq(Listed)
  PROVE  AllSteady' /\ JobsOK(jobs')
<1>1. JobsOK(jobs') /\ \A s \in Sources : StageOf(jobs', s) \in {"none", "enter"}
  BY ListedJobs
<1>2. \A t \in Sources :
        /\ src'[t] = src[t] /\ dev'[t].fd = dev[t].fd /\ dev'[t].grabbed = dev[t].grabbed
        /\ StageOf(jobs', t) = StageOf(jobs, t) \/ StageOf(jobs', t) \in {"none", "enter"}
  BY <1>1
<1> QED
  BY <1>1, <1>2, SteadyFrame

\* ... and one that leaves the jobs alone too.
LEMMA SteadyOutside ==
  ASSUME IInv, src' = src, dev' = dev, jobs' = jobs
  PROVE  AllSteady'
  BY DEF IInv, AllSteady

\* Starting keeps the invariant.
LEMMA StartKeeps ==
  ASSUME IInv, Start
  PROVE  IInv'
<1>0. TypeOK
  BY DEF IInv
<1>1. jobs' \in Seq(Listed) /\ src' = src /\ dev' = dev
  BY <1>0, ScanFacts DEF Start
<1>2. AllSteady' /\ JobsOK(jobs')
  BY <1>1, SteadyJobs
<1>3. PICK monitor \in BOOLEAN :
        /\ monitor \/ faults < MaxFaults
        /\ faults' = faults + IF monitor THEN 0 ELSE 1
        /\ mode' = [mode EXCEPT !.started = TRUE, !.monitor = monitor]
  BY DEF Start
<1>4. faults' \in 0..MaxFaults
  BY <1>0, <1>3, BoundAssumption DEF TypeOK, OutsideOK
<1>5. mode' \in [started : BOOLEAN, monitor : BOOLEAN, forwarding : BOOLEAN]
  BY <1>0, <1>3 DEF TypeOK, ReaderOK
<1>6. udev' \in Seq([act : {"add", "remove"}, node : Nodes])
  <2>1. udev' = <<>>
    BY DEF Start
  <2> QED
    BY <2>1
<1>7. UNCHANGED <<src, tapped, inputs, outputs, dev, sinks, pass, incomplete, masks, torn>>
  BY DEF Start
<1> QED
  BY <1>0, <1>2, <1>4, <1>5, <1>6, <1>7 DEF IInv, TypeOK, ReaderOK, OutsideOK, outputs

\* So does creating the synthesis devices.
LEMMA EnableForwardingKeeps ==
  ASSUME IInv, EnableForwarding
  PROVE  IInv'
<1>0. TypeOK
  BY DEF IInv
<1>1. /\ jobs' \in Seq(Listed)
      /\ UNCHANGED <<kernel, fwd, failure, dev, sinks, pass, incomplete, masks, torn, faults>>
  BY <1>0, ScanFacts DEF EnableForwarding
<1>2. AllSteady' /\ JobsOK(jobs')
  BY <1>1, SteadyJobs DEF kernel
<1>3. mode' \in [started : BOOLEAN, monitor : BOOLEAN, forwarding : BOOLEAN]
  BY <1>0 DEF TypeOK, ReaderOK, EnableForwarding
<1>4. sink' \in SinkSet
  BY <1>0 DEF TypeOK, OutsideOK, EnableForwarding, SinkSet
<1> QED
  BY <1>0, <1>1, <1>2, <1>3, <1>4 DEF IInv, TypeOK, ReaderOK, OutsideOK, kernel

\* A udev event adds a job, closes a source that is gone or forgets a sink node.
LEMMA UdevKeeps ==
  ASSUME IInv, Udev
  PROVE  IInv'
<1>0. TypeOK
  BY DEF IInv
<1>1. PICK u : u = Head(udev)
  OBVIOUS
<1>2. u.node \in Nodes /\ Tail(udev) \in Seq([act : {"add", "remove"}, node : Nodes])
  <2>1. PICK E : E = [act : {"add", "remove"}, node : Nodes]
    OBVIOUS
  <2>2. udev \in Seq(E) /\ udev # <<>>
    BY <1>0, <2>1 DEF TypeOK, OutsideOK, Udev
  <2>3. u \in E /\ Tail(udev) \in Seq(E)
    BY <1>1, <2>2, SeqFacts
  <2> QED
    BY <2>1, <2>3
<1>3. PICK n : n = u.node
  OBVIOUS
<1>4. n \in Nodes /\ (n.kind # "sink" => n.of \in Sources)
  BY <1>0, <1>2, <1>3, NodeFacts
<1>5. udev' \in Seq([act : {"add", "remove"}, node : Nodes])
  BY <1>2 DEF Udev
<1>6. UNCHANGED <<sink, failure, pass, incomplete, masks, torn, mode, inputs, faults>> /\ jobs = <<>>
  BY DEF Udev
<1>7. CASE jobs' = <<[SeeJob(n) EXCEPT !.scan = FALSE]>> /\ UNCHANGED <<src, tapped, fwd, dev, sinks>>
  <2>1. jobs' \in Seq(Listed)
    <3>1. PICK j \in Listed : j = [SeeJob(n) EXCEPT !.scan = FALSE]
      BY <1>4, NewJobs
    <3> QED
      BY <1>7, <3>1
  <2>2. AllSteady' /\ JobsOK(jobs')
    BY <1>7, <2>1, SteadyJobs
  <2> QED
    BY <1>0, <1>5, <1>6, <1>7, <2>2 DEF IInv, TypeOK, ReaderOK, OutsideOK
<1>8. CASE n.kind = "source" /\ Close(n.of, "none") /\ UNCHANGED <<jobs, sinks>>
  <2>1. PICK s \in Sources : s = n.of
    BY <1>4, <1>8
  <2>2. /\ src' \in [Sources -> SrcSet] /\ dev' \in [Sources -> DevSet]
        /\ fwd' \in [Sources -> FwdSet] /\ tapped' \in SUBSET (Sources \cup {"sink"})
        /\ \A t \in Sources \ {s} : src'[t] = src[t] /\ dev'[t] = dev[t]
        /\ \A next \in {"none", "enter"} : Steady(src'[s], dev'[s], next)
    BY <1>8, <2>1, CloseFacts
  <2>3. \A t \in Sources : StageOf(jobs', t) = "none"
    BY <1>6, <1>8 DEF StageOf
  <2>4. AllSteady'
    BY <2>2, <2>3, SteadyFocus
  <2> QED
    BY <1>0, <1>5, <1>6, <1>8, <2>2, <2>4 DEF IInv, TypeOK, ReaderOK, OutsideOK
<1>9. CASE sinks' = {k \in sinks : k.id # n.id} /\ UNCHANGED <<src, tapped, fwd, dev, jobs>>
  <2>1. AllSteady'
    BY <1>9, SteadyOutside
  <2>2. sinks' \in SUBSET [id : Nat, gen : Nat]
    BY <1>0, <1>9 DEF TypeOK, ReaderOK
  <2> QED
    BY <1>0, <1>5, <1>6, <1>9, <2>1, <2>2 DEF IInv, TypeOK, ReaderOK, OutsideOK
<1> QED
  BY <1>1, <1>3, <1>7, <1>8, <1>9 DEF Udev

\* A node is looked at: a source that was not open has no grab and an empty queue.
LEMMA SeeKeeps ==
  ASSUME IInv, See
  PROVE  IInv'
<1>0. /\ TypeOK /\ dev \in [Sources -> DevSet] /\ JobsOK(jobs) /\ incomplete \in BOOLEAN
      /\ torn \in BOOLEAN /\ sink.gen \in Nat /\ sinks \in SUBSET [id : Nat, gen : Nat]
  BY DEF IInv, TypeOK, ReaderOK, OutsideOK, SinkSet
<1>1. Job("see")
  BY DEF See
<1>2. PICK n : n = Head(jobs).node
  OBVIOUS
<1>3. /\ Head(jobs) \in Jobs /\ Head(jobs).op = "see" /\ Tail(jobs) \in Seq(Listed)
      /\ n \in Nodes
  BY <1>0, <1>1, <1>2, AtJob, OtherFacts
<1>4. (n.kind # "sink" => n.of \in Sources) /\ n.id \in Nat
  BY <1>0, <1>3, NodeFacts
<1>5. UNCHANGED <<src, udev, inputs, sink, failure, pass, masks, mode>>
  BY DEF See
<1>6. \A t \in Sources : StageOf(jobs, t) = "none"
  BY <1>3 DEF StageOf
<1>7. CASE jobs' = Tail(jobs) /\ UNCHANGED <<tapped, fwd, dev, sinks, incomplete, torn, faults>>
  <2>1. AllSteady' /\ JobsOK(jobs')
    BY <1>3, <1>5, <1>7, SteadyJobs
  <2> QED
    BY <1>0, <1>5, <1>7, <2>1 DEF IInv, TypeOK, ReaderOK, OutsideOK
<1>8. CASE /\ n.kind = "source"
           /\ EnsureForwarding(IF Open(dev[n.of]) THEN dev
                               ELSE [dev EXCEPT ![n.of] = [Untracked EXCEPT !.fd = "open"]],
                               {n.of})
           /\ jobs' = <<GrabJob(n.of, "track")>> \o Tail(jobs)
           /\ UNCHANGED <<sinks, incomplete, torn>>
  <2>1. PICK s \in Sources : s = n.of
    BY <1>4, <1>8
  <2>2. PICK new : new = [Untracked EXCEPT !.fd = "open"]
    OBVIOUS
  <2>3. new \in DevSet /\ new.fd = "open" /\ ~new.grabbed
    BY <2>2 DEF Untracked, DevSet
  <2>4. PICK D : D = IF Open(dev[s]) THEN dev ELSE [dev EXCEPT ![s] = new]
    OBVIOUS
  <2>5. /\ D \in [Sources -> DevSet] /\ \A t \in Sources \ {s} : D[t] = dev[t]
        /\ D[s] = dev[s] \/ (D[s] = new /\ ~Open(dev[s]))
    BY <1>0, <2>3, <2>4
  <2>6. PICK S : EnsureForwarding(D, S)
    BY <1>8, <2>1, <2>2, <2>4
  <2>7. /\ dev' \in [Sources -> DevSet] /\ fwd' \in [Sources -> FwdSet]
        /\ tapped' \in SUBSET (Sources \cup {"sink"}) /\ faults' \in 0..MaxFaults
        /\ \A t \in Sources : dev'[t].fd = D[t].fd /\ dev'[t].grabbed = D[t].grabbed
    BY <1>0, <2>5, <2>6, EnsureFacts
  <2>8. PICK j \in Listed : j = GrabJob(s, "track")
    BY NewJobs
  <2>9. j \in Jobs /\ j.op = "grab" /\ j.of = s /\ j.stage = "enter" /\ jobs' = <<j>> \o Tail(jobs)
    BY <1>8, <2>1, <2>8 DEF GrabJob, Jobs, Listed, GrabJobs, Stages
  <2>10. /\ JobsOK(jobs')
         /\ \A t \in Sources : StageOf(jobs', t) \in {"none", "enter"}
    BY <1>3, <2>9, ConsJobs
  <2>11. Steady(src[s], D[s], "none")
    <3>1. Steady(src[s], dev[s], "none")
      BY <1>6 DEF IInv, AllSteady
    <3>2. CASE D[s] = dev[s]
      BY <3>1, <3>2
    <3>3. CASE D[s] = new /\ ~Open(dev[s])
      <4>1. src[s].owner # "us" /\ src[s].queue = <<>> /\ Len(src[s].queue) = 0
        BY <3>1, <3>3 DEF Steady, Owned, Open
      <4> QED
        BY <2>3, <3>1, <3>3, <4>1 DEF Steady, Owned, Arrived, Shown
    <3> QED
      BY <2>5, <3>2, <3>3
  <2>12. Steady(src[s], dev'[s], StageOf(jobs', s))
    BY <2>7, <2>10, <2>11, SteadyKept
  <2>13. AllSteady'
    <3>1. Steady(src'[s], dev'[s], StageOf(jobs', s))
      BY <1>5, <2>12
    <3>2. \A t \in Sources \ {s} :
            /\ src'[t] = src[t] /\ dev'[t].fd = dev[t].fd /\ dev'[t].grabbed = dev[t].grabbed
            /\ StageOf(jobs', t) = StageOf(jobs, t) \/ StageOf(jobs', t) \in {"none", "enter"}
      BY <1>5, <2>5, <2>7, <2>10
    <3> QED
      BY <3>1, <3>2, SteadyFocus
  <2> QED
    BY <1>0, <1>5, <1>8, <2>7, <2>10, <2>13 DEF IInv, TypeOK, ReaderOK, OutsideOK
<1>9. CASE /\ n.kind = "clone"
           /\ dev' = [dev EXCEPT ![n.of].ready = TRUE]
           /\ incomplete' = (incomplete \/ ~dev[n.of].ready)
           /\ jobs' = Tail(jobs)
           /\ UNCHANGED <<tapped, fwd, sinks, torn, faults>>
  <2>1. PICK s \in Sources : s = n.of
    BY <1>4, <1>9
  <2>2. PICK d : d = [dev[s] EXCEPT !.ready = TRUE]
    OBVIOUS
  <2>3. d \in DevSet /\ d.fd = dev[s].fd /\ d.grabbed = dev[s].grabbed
    <3>1. dev[s] \in DevSet
      BY <1>0
    <3> QED
      BY <2>2, <3>1 DEF DevSet
  <2>4. dev' \in [Sources -> DevSet] /\ dev'[s] = d /\ \A t \in Sources \ {s} : dev'[t] = dev[t]
    BY <1>0, <1>9, <2>1, <2>2, <2>3
  <2>5. JobsOK(jobs') /\ \A t \in Sources : StageOf(jobs', t) \in {"none", "enter"}
    BY <1>3, <1>9, ListedJobs
  <2>6. \A t \in Sources :
          /\ src'[t] = src[t] /\ dev'[t].fd = dev[t].fd /\ dev'[t].grabbed = dev[t].grabbed
          /\ StageOf(jobs', t) = StageOf(jobs, t) \/ StageOf(jobs', t) \in {"none", "enter"}
    BY <1>5, <2>3, <2>4, <2>5
  <2>7. AllSteady'
    BY <2>6, SteadyFrame
  <2>8. incomplete' \in BOOLEAN
    BY <1>9
  <2> QED
    BY <1>0, <1>5, <1>9, <2>4, <2>5, <2>7, <2>8 DEF IInv, TypeOK, ReaderOK, OutsideOK
<1>10. CASE /\ \E new \in BOOLEAN :
                 /\ sinks' = IF new THEN sinks \cup {[id |-> n.id, gen |-> sink.gen]} ELSE sinks
                 /\ incomplete' = (incomplete \/ new)
                 /\ torn' = (torn \/ (new /\ sink.gen # n.id))
            /\ jobs' = Tail(jobs)
            /\ UNCHANGED <<tapped, fwd, dev, faults>>
  <2>1. AllSteady' /\ JobsOK(jobs')
    BY <1>3, <1>5, <1>10, SteadyJobs
  <2>2. incomplete' \in BOOLEAN /\ torn' \in BOOLEAN
    BY <1>10
  <2>3. sinks' \in SUBSET [id : Nat, gen : Nat]
    BY <1>0, <1>4, <1>10
  <2> QED
    BY <1>0, <1>5, <1>10, <2>1, <2>2, <2>3 DEF IInv, TypeOK, ReaderOK, OutsideOK
<1>11. PICK new \in BOOLEAN : new = (\A k \in sinks : k.id # n.id)
  <2>1. (\A k \in sinks : k.id # n.id) \in BOOLEAN
    OBVIOUS
  <2> QED
    BY <2>1
<1> QED
  BY <1>2, <1>7, <1>8, <1>9, <1>10, <1>11 DEF See

\* The rest of the jobs goes on after one that has no part in a grab's change.
LEMMA RestListed ==
  ASSUME IInv, NEW op, Job(op)
  PROVE  Tail(jobs) \in Seq(Listed) /\ Head(jobs) \in Jobs /\ Head(jobs).op = op
  BY AtJob DEF IInv

\* Two lists of jobs make a list.
LEMMA ConcatListed ==
  ASSUME NEW p \in Seq(Listed), NEW q \in Seq(Listed)
  PROVE  p \o q \in Seq(Listed)
OBVIOUS

\* The empty list, and one job.
LEMMA ShortListed ==
  /\ <<>> \in Seq(Listed)
  /\ \A j \in Listed : <<j>> \in Seq(Listed)
OBVIOUS

\* Registering forwarding again touches no descriptor and no grab.
LEMMA EnsureKeeps ==
  ASSUME IInv, Ensure
  PROVE  IInv'
<1>0. TypeOK /\ dev \in [Sources -> DevSet]
  BY DEF IInv, TypeOK, ReaderOK
<1>1. Job("ensure") /\ jobs' = Tail(jobs) /\ UNCHANGED <<src, udev, inputs, sink, failure, sinks, pass, incomplete, masks, torn, mode>>
  BY DEF Ensure
<1>2. PICK S : EnsureForwarding(dev, S)
  BY DEF Ensure
<1>3. /\ dev' \in [Sources -> DevSet] /\ fwd' \in [Sources -> FwdSet]
      /\ tapped' \in SUBSET (Sources \cup {"sink"}) /\ faults' \in 0..MaxFaults
      /\ \A t \in Sources : dev'[t].fd = dev[t].fd /\ dev'[t].grabbed = dev[t].grabbed
  BY <1>0, <1>2, EnsureFacts
<1>4. JobsOK(jobs') /\ \A t \in Sources : StageOf(jobs', t) \in {"none", "enter"}
  BY <1>1, RestListed, ListedJobs
<1>5. \A t \in Sources :
        /\ src'[t] = src[t] /\ dev'[t].fd = dev[t].fd /\ dev'[t].grabbed = dev[t].grabbed
        /\ StageOf(jobs', t) = StageOf(jobs, t) \/ StageOf(jobs', t) \in {"none", "enter"}
  BY <1>1, <1>3, <1>4
<1>6. AllSteady'
  BY <1>5, SteadyFrame
<1> QED
  BY <1>0, <1>1, <1>3, <1>4, <1>6 DEF IInv, TypeOK, ReaderOK, OutsideOK

\* New demand starts a pass.
LEMMA SetMasksKeeps ==
  ASSUME IInv, NEW demand \in Demands, SetMasks(demand)
  PROVE  IInv'
<1>0. TypeOK
  BY DEF IInv
<1>1. /\ jobs' \in Seq(Listed) /\ masks' = demand /\ inputs < MaxInputs /\ inputs' = inputs + 1
      /\ UNCHANGED <<src, tapped, udev, outputs, dev, sinks, pass, incomplete, torn, mode, faults>>
  BY PassFacts DEF SetMasks
<1>2. AllSteady' /\ JobsOK(jobs')
  BY <1>1, SteadyJobs
<1>3. inputs' \in 0..MaxInputs
  BY <1>0, <1>1, BoundAssumption DEF TypeOK, OutsideOK
<1> QED
  BY <1>0, <1>1, <1>2, <1>3 DEF IInv, TypeOK, ReaderOK, OutsideOK, outputs

\* Settling the owed releases of every source touches no descriptor and no grab.
LEMMA SettledAllFacts ==
  ASSUME TypeOK, NEW s \in Sources
  PROVE  LET h == SettledAll[s]
         IN /\ h.dev \in DevSet /\ h.dev.fd = dev[s].fd /\ h.dev.grabbed = dev[s].grabbed
            /\ h.dev.ready = dev[s].ready
            /\ h.fwd \in FwdSet /\ h.fwd.open = fwd[s].open /\ h.fwd.failed = fwd[s].failed
<1>1. PICK st : st = [dev |-> dev[s], fwd |-> fwd[s]]
  OBVIOUS
<1>2. SettledAll[s] = Settled(st, s)
  BY <1>1 DEF SettledAll
<1>3. dev[s] \in DevSet /\ fwd[s] \in FwdSet
  BY DEF TypeOK, ReaderOK, OutsideOK
<1>4. PICK over : over = dev[s].owed \ src[s].down
  OBVIOUS
<1>5. PICK o \in SUBSET Keys : o = dev[s].owed \ over
  BY <1>3 DEF DevSet
<1>6. PICK h \in SUBSET Keys : h = fwd[s].held \ over
  BY <1>3 DEF FwdSet
<1>7. PICK d : d = [dev[s] EXCEPT !.owed = o]
  OBVIOUS
<1>8. d \in DevSet /\ d.fd = dev[s].fd /\ d.grabbed = dev[s].grabbed /\ d.ready = dev[s].ready
  BY <1>3, <1>7 DEF DevSet
<1>9. PICK f : f = [fwd[s] EXCEPT !.held = h]
  OBVIOUS
<1>10. f \in FwdSet /\ f.open = fwd[s].open /\ f.failed = fwd[s].failed
  BY <1>3, <1>9 DEF FwdSet
<1>11. Settled(st, s) = st \/ Settled(st, s) = [st EXCEPT !.dev.owed = o, !.fwd.held = h]
  BY <1>1, <1>4, <1>5, <1>6 DEF Settled
<1>12. [st EXCEPT !.dev.owed = o, !.fwd.held = h] = [dev |-> d, fwd |-> f]
  <2>1. st \in [dev : DevSet, fwd : FwdSet] /\ st.dev = dev[s] /\ st.fwd = fwd[s]
    BY <1>1, <1>3
  <2>2. PICK x : x = [st EXCEPT !.dev.owed = o, !.fwd.held = h]
    OBVIOUS
  <2>3. x = [dev |-> [st.dev EXCEPT !.owed = o], fwd |-> [st.fwd EXCEPT !.held = h]]
    BY <2>1, <2>2
  <2> QED
    BY <1>7, <1>9, <2>1, <2>2, <2>3
<1>13. PICK y : y = SettledAll[s]
  OBVIOUS
<1>14. \/ y.dev = dev[s] /\ y.fwd = fwd[s]
       \/ y.dev = d /\ y.fwd = f
  BY <1>1, <1>2, <1>11, <1>12, <1>13
<1> QED
  BY <1>3, <1>8, <1>10, <1>13, <1>14

\* The periodic retry settles owed releases and looks at failed outputs.
LEMMA RetryKeeps ==
  ASSUME IInv, Retry
  PROVE  IInv'
<1>0. TypeOK /\ dev \in [Sources -> DevSet] /\ fwd \in [Sources -> FwdSet]
  BY DEF IInv, TypeOK, ReaderOK, OutsideOK
<1>1. /\ dev' = [s \in Sources |-> SettledAll[s].dev] /\ fwd' = [s \in Sources |-> SettledAll[s].fwd]
      /\ failure' = FALSE
      /\ jobs' = (IF failure THEN SetToSeq({[op |-> "fail", of |-> s] : s \in Sources}) ELSE <<>>)
                 \o <<[op |-> "gate"]>>
      /\ UNCHANGED <<kernel, sink, sinks, pass, incomplete, masks, torn, mode, faults>>
  BY DEF Retry
<1>2. jobs' \in Seq(Listed)
  <2>1. PICK S : S = {[op |-> "fail", of |-> s] : s \in Sources}
    OBVIOUS
  <2>2. PICK p : p = (IF failure THEN SetToSeq(S) ELSE <<>>)
    OBVIOUS
  <2>3. p \in Seq(Listed)
    BY <2>1, <2>2, FailFacts, ShortListed
  <2>4. PICK q \in Seq(Listed) : q = <<[op |-> "gate"]>>
    BY NewJobs, ShortListed
  <2>5. jobs' = p \o q
    BY <1>1, <2>1, <2>2, <2>4
  <2> QED
    BY <2>3, <2>4, <2>5, ConcatListed
<1>3. ASSUME NEW s \in Sources
      PROVE  /\ dev'[s] \in DevSet /\ fwd'[s] \in FwdSet
             /\ dev'[s].fd = dev[s].fd /\ dev'[s].grabbed = dev[s].grabbed
  BY <1>0, <1>1, SettledAllFacts
<1>4. dev' \in [Sources -> DevSet] /\ fwd' \in [Sources -> FwdSet]
  BY <1>1, <1>3
<1>5. JobsOK(jobs') /\ \A s \in Sources : StageOf(jobs', s) \in {"none", "enter"}
  BY <1>2, ListedJobs
<1>6. AllSteady'
  <2>1. src' = src
    BY <1>1 DEF kernel
  <2>2. \A t \in Sources :
          /\ src'[t] = src[t] /\ dev'[t].fd = dev[t].fd /\ dev'[t].grabbed = dev[t].grabbed
          /\ StageOf(jobs', t) = StageOf(jobs, t) \/ StageOf(jobs', t) \in {"none", "enter"}
    BY <1>3, <1>5, <2>1
  <2> QED
    BY <2>2, SteadyFrame
<1>7. failure' \in BOOLEAN
  BY <1>1
<1> QED
  BY <1>0, <1>1, <1>4, <1>5, <1>6, <1>7 DEF IInv, TypeOK, ReaderOK, OutsideOK, kernel

\* Failing open adds jobs.
LEMMA FailOpenKeeps ==
  ASSUME IInv, FailOpen
  PROVE  IInv'
<1>0. TypeOK /\ incomplete \in BOOLEAN
  BY DEF IInv, TypeOK, ReaderOK
<1>1. PICK s : s = Head(jobs).of
  OBVIOUS
<1>2. s \in Sources /\ Tail(jobs) \in Seq(Listed)
  BY <1>1, RestListed, OtherFacts DEF FailOpen
<1> DEFINE cloneFailed == fwd[s].open /\ fwd[s].failed
           dead == cloneFailed \/ (dev[s].grabbed /\ NeedsForwarding(s) /\ ~Usable(s))
<1>9. PICK p : p = (IF dead /\ dev[s].grabbed THEN <<GrabJob(s, "fail")>> ELSE <<>>)
  OBVIOUS
<1>10. PICK q : q = (IF cloneFailed THEN <<[op |-> "retire", of |-> s]>> ELSE <<>>)
  OBVIOUS
<1>3. /\ p \in {<<>>, <<GrabJob(s, "fail")>>}
      /\ q \in {<<>>, <<[op |-> "retire", of |-> s]>>}
      /\ jobs' = (p \o q) \o Tail(jobs)
  <2>1. p \in {<<>>, <<GrabJob(s, "fail")>>} /\ q \in {<<>>, <<[op |-> "retire", of |-> s]>>}
    <3> HIDE DEF dead, cloneFailed
    <3> QED
      BY <1>9, <1>10
  <2>2. jobs' = (p \o q) \o Tail(jobs)
    BY <1>1, <1>9, <1>10, Zenon DEF FailOpen
  <2> QED
    BY <2>1, <2>2
<1> HIDE DEF dead, cloneFailed
<1>4. p \in Seq(Listed) /\ q \in Seq(Listed)
  <2>1. GrabJob(s, "fail") \in Listed /\ [op |-> "retire", of |-> s] \in Listed
    BY <1>2, NewJobs
  <2> QED
    BY <1>3, <2>1, ShortListed
<1>5. jobs' \in Seq(Listed)
  BY <1>2, <1>3, <1>4, ConcatListed
<1>6. UNCHANGED <<kernel, outputs, dev, sinks, pass, masks, torn, mode, faults>>
  BY DEF FailOpen
<1>7. AllSteady' /\ JobsOK(jobs')
  BY <1>5, <1>6, SteadyJobs DEF kernel
<1>8. incomplete' \in BOOLEAN
  BY <1>0 DEF FailOpen
<1> QED
  BY <1>0, <1>6, <1>7, <1>8 DEF IInv, TypeOK, ReaderOK, OutsideOK, kernel, outputs

\* A failed clone is closed, which touches no descriptor and no grab.
LEMMA RetireKeeps ==
  ASSUME IInv, Retire
  PROVE  IInv'
<1>0. TypeOK /\ dev \in [Sources -> DevSet] /\ fwd \in [Sources -> FwdSet] /\ tapped \in SUBSET (Sources \cup {"sink"})
  BY DEF IInv, TypeOK, ReaderOK, OutsideOK
<1>1. PICK s : s = Head(jobs).of
  OBVIOUS
<1>2. s \in Sources /\ Tail(jobs) \in Seq(Listed)
  BY <1>1, RestListed, OtherFacts DEF Retire
<1>3. /\ fwd' = [fwd EXCEPT ![s] = NoForward(@.id)]
      /\ dev' = [dev EXCEPT ![s].owed = {}, ![s].ready = FALSE]
      /\ tapped' = tapped \ {s}
      /\ jobs' = Tail(jobs)
      /\ UNCHANGED <<src, udev, inputs, sink, failure, sinks, pass, incomplete, masks, torn, mode, faults>>
  BY <1>1 DEF Retire
<1>4. PICK d : d = [dev[s] EXCEPT !.owed = {}, !.ready = FALSE]
  OBVIOUS
<1>5. d \in DevSet /\ d.fd = dev[s].fd /\ d.grabbed = dev[s].grabbed
  <2>1. dev[s] \in DevSet
    BY <1>0, <1>2
  <2> QED
    BY <1>4, <2>1 DEF DevSet
<1>6. dev' \in [Sources -> DevSet] /\ dev'[s] = d /\ \A t \in Sources \ {s} : dev'[t] = dev[t]
  BY <1>0, <1>2, <1>3, <1>4, <1>5
<1>7. fwd' \in [Sources -> FwdSet]
  <2>1. fwd[s] \in FwdSet
    BY <1>0, <1>2
  <2>2. NoForward(fwd[s].id) \in FwdSet
    BY <2>1 DEF NoForward, FwdSet
  <2> QED
    BY <1>0, <1>2, <1>3, <2>2
<1>8. JobsOK(jobs') /\ \A t \in Sources : StageOf(jobs', t) \in {"none", "enter"}
  BY <1>2, <1>3, ListedJobs
<1>9. AllSteady'
  <2>1. \A t \in Sources :
          /\ src'[t] = src[t] /\ dev'[t].fd = dev[t].fd /\ dev'[t].grabbed = dev[t].grabbed
          /\ StageOf(jobs', t) = StageOf(jobs, t) \/ StageOf(jobs', t) \in {"none", "enter"}
    BY <1>3, <1>5, <1>6, <1>8
  <2> QED
    BY <2>1, SteadyFrame
<1>10. tapped' \in SUBSET (Sources \cup {"sink"})
  BY <1>0, <1>3
<1> QED
  BY <1>0, <1>3, <1>6, <1>7, <1>8, <1>9, <1>10 DEF IInv, TypeOK, ReaderOK, OutsideOK

\* The gate adds a pass, and a scan without a monitor.
LEMMA GateKeeps ==
  ASSUME IInv, Gate
  PROVE  IInv'
<1>0. TypeOK
  BY DEF IInv
<1>1. UNCHANGED <<kernel, outputs, dev, sinks, pass, incomplete, masks, torn, mode, faults>>
  BY DEF Gate
<1>2. jobs' \in Seq(Listed)
  <2>1. PICK p : p = (IF mode.forwarding /\ ~mode.monitor THEN ScanJobs ELSE <<>>)
    OBVIOUS
  <2>2. p \in Seq(Listed)
    BY <1>0, <2>1, ScanFacts, ShortListed
  <2>3. PICK q \in Seq(Listed) : q = <<[op |-> "ensure"]>>
    BY NewJobs, ShortListed
  <2>4. p \o q \in Seq(Listed)
    BY <2>2, <2>3, ConcatListed
  <2>5. (p \o q) \o PassJobs \in Seq(Listed)
    BY <2>4, PassFacts, ConcatListed
  <2>6. jobs' = <<>> \/ jobs' = (p \o q) \o PassJobs
    BY <2>1, <2>3 DEF Gate
  <2> QED
    BY <2>5, <2>6, ShortListed
<1>3. AllSteady' /\ JobsOK(jobs')
  BY <1>1, <1>2, SteadyJobs DEF kernel
<1> QED
  BY <1>0, <1>1, <1>3 DEF IInv, TypeOK, ReaderOK, OutsideOK, kernel, outputs

\* Stopping closes every device.
LEMMA StopKeeps ==
  ASSUME IInv, Stop
  PROVE  IInv'
<1>0. /\ TypeOK /\ src \in [Sources -> SrcSet] /\ fwd \in [Sources -> FwdSet]
      /\ tapped \in SUBSET (Sources \cup {"sink"})
      /\ mode \in [started : BOOLEAN, monitor : BOOLEAN, forwarding : BOOLEAN]
  BY DEF IInv, TypeOK, ReaderOK, OutsideOK
<1>1. UNCHANGED <<sink, failure, pass, incomplete, masks, torn, inputs, faults>>
  BY DEF Stop
<1>2. jobs' \in Seq(Listed)
  BY NewJobs, ShortListed DEF Stop
<1>3. JobsOK(jobs') /\ \A s \in Sources : StageOf(jobs', s) \in {"none", "enter"}
  BY <1>2, ListedJobs
<1>4. Untracked \in DevSet /\ Untracked.fd = "none" /\ ~Untracked.grabbed
  BY DEF Untracked, DevSet
<1>5. dev' \in [Sources -> DevSet] /\ \A s \in Sources : dev'[s] = Untracked
  BY <1>4 DEF Stop
<1>6. ASSUME NEW s \in Sources PROVE src'[s] \in SrcSet /\ fwd'[s] \in FwdSet /\ Steady(src'[s], dev'[s], StageOf(jobs', s))
  <2>1. src[s] \in SrcSet /\ fwd[s] \in FwdSet
    BY <1>0
  <2>2. PICK y : y = [src[s] EXCEPT !.owner = IF @ = "us" THEN "none" ELSE @, !.queue = <<>>]
    OBVIOUS
  <2>3. src'[s] = y
    BY <2>2 DEF Stop
  <2>4. PICK o \in {"none", "us", "other"} : o = (IF src[s].owner = "us" THEN "none" ELSE src[s].owner)
    BY <2>1 DEF SrcSet
  <2>5. PICK q \in Seq(Reports) : q = <<>>
    <3>1. <<>> \in Seq(Reports)
      OBVIOUS
    <3> QED
      BY <3>1
  <2>6. y = [src[s] EXCEPT !.owner = o, !.queue = q]
    BY <2>2, <2>4, <2>5
  <2>7. /\ y \in SrcSet /\ y.queue = q /\ y.owner = o
        /\ y.down = src[s].down /\ y.desk = src[s].desk /\ y.slipped = src[s].slipped
    BY <2>1, <2>6 DEF SrcSet
  <2>8. Steady(src[s], dev[s], StageOf(jobs, s))
    BY DEF IInv, AllSteady
  <2>9. Steady(y, Untracked, StageOf(jobs', s))
    <3>1. PICK e : e = Untracked
      OBVIOUS
    <3>2. e.fd # "open" /\ ~e.grabbed /\ StageOf(jobs', s) \in {"none", "enter"}
      BY <1>3, <1>4, <3>1
    <3>3. y.queue = <<>> /\ y.owner = (IF src[s].owner = "us" THEN "none" ELSE src[s].owner)
      BY <2>4, <2>5, <2>7
    <3>4. Steady(y, e, StageOf(jobs', s))
      BY <2>1, <2>7, <2>8, <3>2, <3>3, SteadyClosed
    <3> QED
      BY <3>1, <3>4
  <2>10. NoForward(fwd[s].id) \in FwdSet
    BY <2>1 DEF NoForward, FwdSet
  <2>11. fwd'[s] = NoForward(fwd[s].id)
    BY DEF Stop
  <2> QED
    BY <1>5, <2>3, <2>7, <2>9, <2>10, <2>11
<1>7. src' \in [Sources -> SrcSet] /\ fwd' \in [Sources -> FwdSet]
  <2>1. src' = [s \in Sources |-> src'[s]] /\ fwd' = [s \in Sources |-> fwd'[s]]
    BY DEF Stop
  <2> QED
    BY <1>6, <2>1
<1>8. AllSteady'
  BY <1>6 DEF AllSteady
<1>9. tapped' \in SUBSET (Sources \cup {"sink"}) /\ sinks' \in SUBSET [id : Nat, gen : Nat]
  BY <1>0 DEF Stop
<1>10. udev' \in Seq([act : {"add", "remove"}, node : Nodes])
  <2>1. udev' = <<>>
    BY DEF Stop
  <2> QED
    BY <2>1
<1>11. mode' \in [started : BOOLEAN, monitor : BOOLEAN, forwarding : BOOLEAN]
  BY <1>0 DEF Stop
<1> QED
  BY <1>0, <1>1, <1>3, <1>5, <1>7, <1>8, <1>9, <1>10, <1>11 DEF IInv, TypeOK, ReaderOK, OutsideOK
-----------------------------------------------------------------------------
(* The world outside *)

\* An announcement is an event.
LEMMA AnnounceFacts ==
  ASSUME TypeOK, NEW act \in {"add", "remove"}, NEW n \in Nodes, Announce(act, n)
  PROVE  udev' \in Seq([act : {"add", "remove"}, node : Nodes])
<1>1. PICK E : E = [act : {"add", "remove"}, node : Nodes]
  OBVIOUS
<1>2. udev \in Seq(E)
  BY <1>1 DEF TypeOK, OutsideOK
<1>3. PICK e \in E : e = [act |-> act, node |-> n]
  BY <1>1
<1>4. udev' = Append(udev, e) \/ udev' = udev
  BY <1>3 DEF Announce
<1>5. udev' \in Seq(E)
  BY <1>2, <1>4, AppendFacts
<1> QED
  BY <1>1, <1>5

\* The environment's and the faults' counters.
LEMMA CounterFacts ==
  ASSUME TypeOK
  PROVE  /\ Input => inputs' \in 0..MaxInputs
         /\ Fault => faults' \in 0..MaxFaults
  BY BoundAssumption DEF TypeOK, OutsideOK, Input, Fault

\* A source changes on the kernel's side alone.
LEMMA SteadyKernel ==
  ASSUME IInv, NEW s \in Sources, NEW y \in SrcSet, src' = [src EXCEPT ![s] = y],
         dev' \in [Sources -> DevSet], \A t \in Sources \ {s} : dev'[t] = dev[t],
         jobs' = jobs, Steady(y, dev'[s], StageOf(jobs, s))
  PROVE  AllSteady' /\ src' \in [Sources -> SrcSet]
<1>1. src \in [Sources -> SrcSet]
  BY DEF IInv, TypeOK, OutsideOK
<1>2. src' \in [Sources -> SrcSet] /\ src'[s] = y /\ \A t \in Sources \ {s} : src'[t] = src[t]
  BY <1>1
<1>3. \A t \in Sources \ {s} :
        /\ src'[t] = src[t] /\ dev'[t].fd = dev[t].fd /\ dev'[t].grabbed = dev[t].grabbed
        /\ StageOf(jobs', t) = StageOf(jobs, t) \/ StageOf(jobs', t) \in {"none", "enter"}
  BY <1>2
<1>4. Steady(src'[s], dev'[s], StageOf(jobs', s))
  BY <1>2
<1> QED
  BY <1>2, <1>3, <1>4, SteadyFocus

\* A source is plugged in, initialized or moved to another seat.
LEMMA PlugKeeps ==
  ASSUME IInv, NEW s \in Sources, Plug(s) \/ Initialized(s) \/ Reseat(s)
  PROVE  IInv'
<1>0. TypeOK /\ src \in [Sources -> SrcSet] /\ src[s] \in SrcSet /\ dev \in [Sources -> DevSet]
  BY DEF IInv, TypeOK, OutsideOK, ReaderOK
<1>1. PICK plug \in {"raw", "ready", "away"} : src' = [src EXCEPT ![s].plug = plug]
  BY DEF Plug, Initialized, Reseat
<1>2. UNCHANGED <<tapped, outputs, reader, faults>>
  BY DEF Plug, Initialized, Reseat
<1>3. dev' = dev /\ jobs' = jobs
  BY <1>2 DEF reader
<1>4. PICK y : y = [src[s] EXCEPT !.plug = plug]
  OBVIOUS
<1>5. /\ y \in SrcSet /\ y.queue = src[s].queue /\ y.owner = src[s].owner
      /\ y.down = src[s].down /\ y.desk = src[s].desk /\ y.slipped = src[s].slipped
  BY <1>0, <1>4 DEF SrcSet
<1>6. src' = [src EXCEPT ![s] = y]
  BY <1>0, <1>1, <1>4
<1>7. Steady(src[s], dev[s], StageOf(jobs, s))
  BY DEF IInv, AllSteady
<1>8. Steady(y, dev[s], StageOf(jobs, s))
  BY <1>5, <1>7 DEF Steady, Owned, Arrived, Shown
<1>9. AllSteady' /\ src' \in [Sources -> SrcSet]
  BY <1>0, <1>3, <1>5, <1>6, <1>8, SteadyKernel
<1>10. udev' \in Seq([act : {"add", "remove"}, node : Nodes])
  <2>1. CASE Plug(s)
    BY <1>0, <2>1 DEF TypeOK, OutsideOK, Plug
  <2>2. CASE Initialized(s) \/ Reseat(s)
    <3>1. PICK act \in {"add", "remove"} : Announce(act, SourceNode(s))
      BY <2>2 DEF Initialized, Reseat
    <3> QED
      BY <1>0, <3>1, NodeFacts, AnnounceFacts
  <2> QED
    BY <2>1, <2>2
<1>11. inputs' \in 0..MaxInputs
  BY <1>0, CounterFacts DEF Plug, Initialized, Reseat, TypeOK, OutsideOK
<1> QED
  BY <1>0, <1>2, <1>9, <1>10, <1>11 DEF IInv, TypeOK, ReaderOK, OutsideOK, outputs, reader

\* An unplugged source holds nothing and has nothing queued.
LEMMA UnplugKeeps ==
  ASSUME IInv, NEW s \in Sources, Unplug(s)
  PROVE  IInv'
<1>0. TypeOK /\ src \in [Sources -> SrcSet] /\ dev \in [Sources -> DevSet] /\ dev[s] \in DevSet
  BY DEF IInv, TypeOK, OutsideOK, ReaderOK
<1>1. PICK fd \in {"none", "stale", "closed"} : fd = (IF dev[s].fd = "open" THEN "stale" ELSE dev[s].fd)
  BY <1>0 DEF DevSet
<1>2. PICK d : d = [dev[s] EXCEPT !.fd = fd]
  OBVIOUS
<1>3. d \in DevSet /\ d.fd = fd /\ d.grabbed = dev[s].grabbed
  BY <1>0, <1>2 DEF DevSet
<1>4. dev' = [dev EXCEPT ![s] = d]
  BY <1>0, <1>1, <1>2 DEF Unplug
<1>5. dev' \in [Sources -> DevSet] /\ dev'[s] = d /\ \A t \in Sources \ {s} : dev'[t] = dev[t]
  BY <1>0, <1>3, <1>4
<1>6. PICK y : y = Unplugged
  OBVIOUS
<1>7. y \in SrcSet /\ y.queue = <<>> /\ Len(y.queue) = 0 /\ y.owner = "none" /\ y.desk = {}
  <2>1. <<>> \in Seq(Reports) /\ Len(<<>>) = 0
    OBVIOUS
  <2> QED
    BY <1>6, <2>1 DEF Unplugged, SrcSet
<1>8. UNCHANGED <<tapped, outputs, sinks, jobs, pass, incomplete, masks, torn, mode, faults>>
      /\ src' = [src EXCEPT ![s] = y]
  BY <1>6 DEF Unplug
<1>9. Steady(src[s], dev[s], StageOf(jobs, s))
  BY DEF IInv, AllSteady
<1>10. Steady(y, d, StageOf(jobs, s))
  <2>1. fd # "open"
    OBVIOUS
  <2> QED
    BY <1>3, <1>7, <1>9, <2>1 DEF Steady, Owned, Arrived, Shown
<1>11. AllSteady' /\ src' \in [Sources -> SrcSet]
  BY <1>5, <1>7, <1>8, <1>10, SteadyKernel
<1>12. udev' \in Seq([act : {"add", "remove"}, node : Nodes])
  <2>1. udev' = udev \/ Announce("remove", SourceNode(s))
    BY DEF Unplug
  <2>2. ASSUME Announce("remove", SourceNode(s)) PROVE udev' \in Seq([act : {"add", "remove"}, node : Nodes])
    <3>1. PICK act \in {"add", "remove"} : Announce(act, SourceNode(s))
      BY <2>2
    <3> QED
      BY <1>0, <3>1, NodeFacts, AnnounceFacts
  <2> QED
    BY <1>0, <2>1, <2>2 DEF TypeOK, OutsideOK
<1>13. inputs' \in 0..MaxInputs
  BY <1>0, CounterFacts DEF Unplug
<1> QED
  BY <1>0, <1>5, <1>8, <1>11, <1>12, <1>13 DEF IInv, TypeOK, ReaderOK, OutsideOK, outputs

\* Another interceptor takes a source nobody holds, or lets its own go.
LEMMA ForeignKeeps ==
  ASSUME IInv, NEW s \in Sources, Foreign(s)
  PROVE  IInv'
<1>0. TypeOK /\ src \in [Sources -> SrcSet] /\ src[s] \in SrcSet /\ dev \in [Sources -> DevSet]
  BY DEF IInv, TypeOK, OutsideOK, ReaderOK
<1>1. UNCHANGED <<tapped, udev, outputs, reader, faults>>
  BY DEF Foreign
<1>2. dev' = dev /\ jobs' = jobs
  BY <1>1 DEF reader
<1>3. Steady(src[s], dev[s], StageOf(jobs, s))
  BY DEF IInv, AllSteady
<1>4. PICK y \in SrcSet : src' = [src EXCEPT ![s] = y] /\ Steady(y, dev[s], StageOf(jobs, s))
  <2>1. CASE src[s].owner = "none" /\ src' = [src EXCEPT ![s].owner = "other", ![s].desk = {}]
    <3>1. PICK y : y = [src[s] EXCEPT !.owner = "other", !.desk = {}]
      OBVIOUS
    <3>2. /\ y \in SrcSet /\ y.queue = src[s].queue /\ y.owner = "other"
          /\ y.down = src[s].down /\ y.desk = {} /\ y.slipped = src[s].slipped
      BY <1>0, <3>1 DEF SrcSet
    <3>3. src' = [src EXCEPT ![s] = y]
      BY <1>0, <2>1, <3>1
    <3>4. Steady(y, dev[s], StageOf(jobs, s))
      BY <1>3, <2>1, <3>2 DEF Steady, Owned, Arrived, Shown
    <3> QED
      BY <3>2, <3>3, <3>4
  <2>2. CASE src[s].owner = "other" /\ src' = [src EXCEPT ![s].owner = "none"]
    <3>1. PICK y : y = [src[s] EXCEPT !.owner = "none"]
      OBVIOUS
    <3>2. /\ y \in SrcSet /\ y.queue = src[s].queue /\ y.owner = "none"
          /\ y.down = src[s].down /\ y.desk = src[s].desk /\ y.slipped = src[s].slipped
      BY <1>0, <3>1 DEF SrcSet
    <3>3. src' = [src EXCEPT ![s] = y]
      BY <1>0, <2>2, <3>1
    <3>4. Steady(y, dev[s], StageOf(jobs, s))
      BY <1>3, <2>2, <3>2 DEF Steady, Owned, Arrived, Shown
    <3> QED
      BY <3>2, <3>3, <3>4
  <2> QED
    BY <2>1, <2>2 DEF Foreign
<1>5. AllSteady' /\ src' \in [Sources -> SrcSet]
  BY <1>0, <1>2, <1>4, SteadyKernel
<1>6. inputs' \in 0..MaxInputs
  BY <1>0, CounterFacts DEF Foreign, TypeOK, OutsideOK
<1> QED
  BY <1>0, <1>1, <1>5, <1>6 DEF IInv, TypeOK, ReaderOK, OutsideOK, outputs, reader

\* A key moves: the desktop sees it unless someone holds the source, the reader
\* unless another program does, and after the last look at the keys it is late.
LEMMA KeyKeeps ==
  ASSUME IInv, NEW s \in Sources, NEW k \in Keys, Key(s, k)
  PROVE  IInv'
<1>0. /\ TypeOK /\ src \in [Sources -> SrcSet] /\ src[s] \in SrcSet /\ dev \in [Sources -> DevSet]
      /\ inputs \in 0..MaxInputs
  BY DEF IInv, TypeOK, OutsideOK, ReaderOK
<1>1. /\ UNCHANGED <<tapped, udev, outputs, reader, faults>>
      /\ k \notin src[s].down => inputs < MaxInputs
      /\ inputs' = inputs + IF k \in src[s].down THEN 0 ELSE 1
  BY DEF Key
<1>2. dev' = dev /\ jobs' = jobs
  BY <1>1 DEF reader
<1>3. PICK stage : stage = StageOf(jobs, s)
  OBVIOUS
<1>4. PICK x \in SrcSet : x = src[s]
  BY <1>0
<1>5. PICK d : d = dev[s]
  OBVIOUS
<1>6. Steady(x, d, stage)
  BY <1>3, <1>4, <1>5 DEF IInv, AllSteady
<1>7. PICK press \in BOOLEAN : press = (k \notin x.down)
  <2>1. (k \notin x.down) \in BOOLEAN
    OBVIOUS
  <2> QED
    BY <2>1
<1>8. PICK e : e = Report(k, press, s)
  OBVIOUS
<1>9. /\ e \in Reports /\ (e.seen <=> x.owner = "none")
      /\ (e.late <=> stage \in {"grab", "release", "rerelease"})
  <2>1. PICK seen \in BOOLEAN : seen = (x.owner = "none")
    <3>1. (x.owner = "none") \in BOOLEAN
      OBVIOUS
    <3> QED
      BY <3>1
  <2> DEFINE isLate == jobs # <<>> /\ Head(jobs).op = "grab" /\ Head(jobs).of = s
                       /\ Head(jobs).stage \in {"grab", "release", "rerelease"}
  <2>2. PICK late \in BOOLEAN : late = isLate
    <3>1. isLate \in BOOLEAN
      OBVIOUS
    <3> QED
      BY <3>1
  <2>3. e = [key |-> k, down |-> press, seen |-> seen, late |-> late]
    BY <1>4, <1>8, <2>1, <2>2 DEF Report
  <2>4. late <=> stage \in {"grab", "release", "rerelease"}
    BY <1>3, <2>2 DEF StageOf
  <2> HIDE DEF isLate
  <2> QED
    BY <2>1, <2>3, <2>4 DEF Reports
<1>10. PICK down : down = (IF press THEN x.down \cup {k} ELSE x.down \ {k})
  OBVIOUS
<1>11. PICK desk : desk = (IF e.seen THEN (IF press THEN x.desk \cup {k} ELSE x.desk \ {k}) ELSE x.desk)
  OBVIOUS
<1>12. PICK queue : queue = (IF d.fd = "open" /\ x.owner # "other" THEN Append(x.queue, e) ELSE x.queue)
  OBVIOUS
<1>13. PICK slipped : slipped = (IF e.late /\ press THEN x.slipped \cup {k} ELSE x.slipped)
  OBVIOUS
<1>14. PICK y : y = [x EXCEPT !.down = down, !.desk = desk, !.queue = queue, !.slipped = slipped]
  OBVIOUS
<1>15. x.queue \in Seq(Reports) /\ x.down \in SUBSET Keys /\ x.desk \in SUBSET Keys /\ x.slipped \in SUBSET Keys
       /\ x.owner \in {"none", "us", "other"}
  BY DEF SrcSet
<1>16. queue \in Seq(Reports)
  BY <1>9, <1>12, <1>15, AppendFacts
<1>17. down \in SUBSET Keys /\ desk \in SUBSET Keys /\ slipped \in SUBSET Keys
  BY <1>10, <1>11, <1>13, <1>15
<1>18. /\ y \in SrcSet /\ y.queue = queue /\ y.owner = x.owner
       /\ y.down = down /\ y.desk = desk /\ y.slipped = slipped
  BY <1>14, <1>16, <1>17 DEF SrcSet
<1>19. src' = [src EXCEPT ![s] = y]
  <2>1. src' = [src EXCEPT ![s].down = down, ![s].desk = desk, ![s].queue = queue, ![s].slipped = slipped]
    BY <1>0, <1>4, <1>5, <1>7, <1>8, <1>10, <1>11, <1>12, <1>13 DEF Key
  <2> QED
    BY <1>0, <1>4, <1>14, <2>1
<1>20. Steady(y, d, stage)
  <2>1. Owned(y, d)
    BY <1>6, <1>12, <1>18 DEF Steady, Owned
  <2>2. Arrived(y, d, stage)
    <3>1. ASSUME NEW i \in 1..Len(queue)
          PROVE  \/ queue[i] = e /\ d.fd = "open" /\ x.owner # "other"
                 \/ i \in 1..Len(x.queue) /\ queue[i] = x.queue[i]
      BY <1>9, <1>12, <1>15, AppendFacts
    <3>2. d.fd = "open" /\ x.owner # "other" => e.seen = ~d.grabbed
      <4>1. d.fd = "open" => (d.grabbed <=> x.owner = "us")
        BY <1>6 DEF Steady, Owned
      <4>2. e.seen \in BOOLEAN /\ d.grabbed \in BOOLEAN
        BY <1>0, <1>5, <1>9 DEF Reports, DevSet
      <4> QED
        BY <1>9, <1>15, <4>1, <4>2
    <3>3. ASSUME NEW i \in 1..Len(queue) PROVE queue[i].late \/ queue[i].seen = ~d.grabbed
      BY <1>6, <3>1, <3>2 DEF Steady, Arrived
    <3>4. ASSUME stage \in {"grab", "release", "rerelease"}, NEW i \in 1..Len(queue) PROVE queue[i].late
      BY <1>6, <1>9, <3>1, <3>4 DEF Steady, Arrived
    <3> QED
      BY <1>18, <3>3, <3>4 DEF Arrived
  <2>3. Shown(y, d, stage)
    <3>1. desk \ Contacts \subseteq down \cup slipped
      BY <1>6, <1>7, <1>9, <1>10, <1>11, <1>13, <1>15 DEF Steady, Shown
    <3>2. x.owner = "us" => desk \ Contacts \subseteq slipped
      BY <1>6, <1>9, <1>11, <1>13 DEF Steady, Shown
    <3>3. x.owner = "other" => desk = {}
      BY <1>6, <1>9, <1>11 DEF Steady, Shown
    <3>4. stage = "grab" => desk \ Contacts \subseteq slipped
      BY <1>6, <1>9, <1>11, <1>13 DEF Steady, Shown
    <3>5. stage \in {"probe", "settle", "grab", "regrab"} => ~d.grabbed
      BY <1>6 DEF Steady, Shown
    <3> QED
      BY <1>18, <3>1, <3>2, <3>3, <3>4, <3>5 DEF Shown
  <2> QED
    BY <2>1, <2>2, <2>3 DEF Steady
<1>21. AllSteady' /\ src' \in [Sources -> SrcSet]
  <2>1. Steady(y, dev'[s], StageOf(jobs, s))
    BY <1>2, <1>3, <1>5, <1>20
  <2> QED
    BY <1>0, <1>2, <1>18, <1>19, <2>1, SteadyKernel
<1>22. inputs' \in 0..MaxInputs
  BY <1>0, <1>1, BoundAssumption
<1> QED
  BY <1>0, <1>1, <1>21, <1>22 DEF IInv, TypeOK, ReaderOK, OutsideOK, outputs, reader

\* Outputs initialized, failing, tapped, destroyed and recreated: no source changes.
LEMMA OutputKeeps ==
  ASSUME IInv,
         \/ SinkInitialized \/ SinkFails \/ Detach \/ Destroy \/ Recreate
         \/ \E s \in Sources : CloneInitialized(s) \/ CloneFails(s)
         \/ \E o \in Sources \cup {"sink"} : Tap(o)
  PROVE  IInv'
<1>0. /\ TypeOK /\ fwd \in [Sources -> FwdSet] /\ sink \in SinkSet /\ failure \in BOOLEAN
      /\ tapped \in SUBSET (Sources \cup {"sink"})
      /\ udev \in Seq([act : {"add", "remove"}, node : Nodes])
      /\ inputs \in 0..MaxInputs /\ faults \in 0..MaxFaults
  BY DEF IInv, TypeOK, OutsideOK
<1>1. src' = src /\ reader' = reader
  BY DEF SinkInitialized, SinkFails, Detach, Destroy, Recreate, CloneInitialized, CloneFails, Tap, kernel
<1>2. AllSteady'
  BY <1>1, SteadyOutside DEF reader
<1>3. ReaderOK'
  BY <1>0, <1>1 DEF TypeOK, ReaderOK, reader
<1>4. sink' \in SinkSet
  <2>1. CASE SinkInitialized
    BY <1>0, <2>1 DEF SinkInitialized, SinkSet
  <2>2. CASE SinkFails
    BY <1>0, <2>2 DEF SinkFails, SinkSet
  <2>3. CASE Detach
    BY <1>0, <2>3 DEF Detach, SinkSet
  <2>4. CASE Destroy
    BY <1>0, <2>4 DEF Destroy, SinkSet
  <2>5. CASE Recreate
    BY <1>0, <2>5 DEF Recreate, SinkSet
  <2>6. CASE sink' = sink
    BY <1>0, <2>6
  <2> QED
    BY <2>1, <2>2, <2>3, <2>4, <2>5, <2>6 DEF CloneInitialized, CloneFails, Tap, outputs
<1>5. fwd' \in [Sources -> FwdSet]
  <2>1. CASE \E s \in Sources : CloneInitialized(s) \/ CloneFails(s)
    <3>1. PICK s \in Sources : CloneInitialized(s) \/ CloneFails(s)
      BY <2>1
    <3>2. fwd[s] \in FwdSet
      BY <1>0
    <3>3. PICK f : f \in {[fwd[s] EXCEPT !.node = "ready"], [fwd[s] EXCEPT !.failed = TRUE]}
                   /\ fwd' = [fwd EXCEPT ![s] = f]
      BY <1>0, <3>1 DEF CloneInitialized, CloneFails
    <3>4. f \in FwdSet
      BY <3>2, <3>3 DEF FwdSet
    <3> QED
      BY <1>0, <3>3, <3>4
  <2>2. CASE fwd' = fwd
    BY <1>0, <2>2
  <2> QED
    BY <2>1, <2>2 DEF SinkInitialized, SinkFails, Detach, Destroy, Recreate, Tap, outputs
<1>6. failure' \in BOOLEAN
  BY <1>0 DEF SinkInitialized, SinkFails, Detach, Destroy, Recreate, CloneInitialized, CloneFails, Tap, outputs
<1>7. tapped' \in SUBSET (Sources \cup {"sink"})
  BY <1>0 DEF SinkInitialized, SinkFails, Detach, Destroy, Recreate, CloneInitialized, CloneFails, Tap, kernel
<1>8. udev' \in Seq([act : {"add", "remove"}, node : Nodes])
  <2>1. \/ udev' = udev
        \/ \E act \in {"add", "remove"}, n \in Nodes : Announce(act, n)
    BY <1>0, NodeFacts DEF SinkInitialized, SinkFails, Detach, Destroy, Recreate, CloneInitialized, CloneFails,
                           Tap, kernel
  <2> QED
    BY <1>0, <2>1, AnnounceFacts
<1>9. inputs' \in 0..MaxInputs
  BY <1>0, CounterFacts DEF SinkInitialized, SinkFails, Detach, Destroy, Recreate, CloneInitialized,
                            CloneFails, Tap, kernel
<1>10. faults' \in 0..MaxFaults
  BY <1>0, CounterFacts DEF SinkInitialized, SinkFails, Detach, Destroy, Recreate, CloneInitialized,
                            CloneFails, Tap, kernel
<1> QED
  BY <1>1, <1>2, <1>3, <1>4, <1>5, <1>6, <1>7, <1>8, <1>9, <1>10, <1>0 DEF IInv, TypeOK, OutsideOK

-----------------------------------------------------------------------------
(* Theorems *)

\* At first nothing is tracked, grabbed or queued.
LEMMA InitHolds == Init => IInv
<1> SUFFICES ASSUME Init PROVE IInv
  OBVIOUS
<1>1. ASSUME NEW s \in Sources PROVE src[s] \in SrcSet /\ src[s].queue = <<>> /\ Len(src[s].queue) = 0
                                     /\ src[s].owner = "none" /\ src[s].desk = {}
  <2>1. <<>> \in Seq(Reports) /\ Len(<<>>) = 0
    OBVIOUS
  <2>2. PICK x : x = src[s]
    OBVIOUS
  <2>3. x = Unplugged \/ x = [Unplugged EXCEPT !.plug = "ready"]
    BY <2>2 DEF Init
  <2>4. PICK q \in Seq(Reports) : q = <<>> /\ Len(q) = 0
    BY <2>1
  <2>5. PICK plug \in {"absent", "ready"} :
           x = [plug |-> plug, owner |-> "none", down |-> {}, desk |-> {}, queue |-> q, slipped |-> {}]
    BY <2>3, <2>4 DEF Unplugged
  <2>6. x \in SrcSet /\ x.queue = q /\ x.owner = "none" /\ x.desk = {}
    BY <2>5 DEF SrcSet
  <2> QED
    BY <2>2, <2>4, <2>6
<1>2. src \in [Sources -> SrcSet]
  BY <1>1 DEF Init
<1>3. Untracked \in DevSet /\ Untracked.fd = "none" /\ ~Untracked.grabbed
  BY DEF Untracked, DevSet
<1>4. NoForward(0) \in FwdSet
  BY DEF NoForward, FwdSet
<1>5. jobs \in Seq(Listed) /\ jobs = <<>>
  BY ShortListed DEF Init
<1>6. JobsOK(jobs)
  BY <1>5, ListedJobs
<1>7. ReaderOK
  BY <1>3, <1>6, DemandAssumption DEF Init, ReaderOK
<1>8. OutsideOK
  <2>1. sink \in SinkSet
    BY DEF Init, SinkSet
  <2>2. udev \in Seq([act : {"add", "remove"}, node : Nodes])
    <3>1. udev = <<>>
      BY DEF Init
    <3> QED
      BY <3>1
  <2>3. inputs \in 0..MaxInputs /\ faults \in 0..MaxFaults
    BY BoundAssumption DEF Init
  <2> QED
    BY <1>2, <1>4, <2>1, <2>2, <2>3 DEF Init, OutsideOK
<1>9. ASSUME NEW s \in Sources PROVE Steady(src[s], dev[s], StageOf(jobs, s))
  <2>1. StageOf(jobs, s) = "none"
    BY <1>5 DEF StageOf
  <2>2. dev[s].fd = "none" /\ ~dev[s].grabbed
    BY <1>3 DEF Init
  <2> QED
    BY <1>1, <2>1, <2>2 DEF Steady, Owned, Arrived, Shown
<1> QED
  BY <1>7, <1>8, <1>9 DEF IInv, TypeOK, AllSteady

\* Every step keeps the invariant.
LEMMA NextKeeps == IInv /\ [Next]_vars => IInv'
<1> SUFFICES ASSUME IInv, [Next]_vars PROVE IInv'
  OBVIOUS
<1>1. CASE UNCHANGED vars
  BY <1>1 DEF IInv, TypeOK, ReaderOK, OutsideOK, AllSteady, vars, kernel, outputs, reader
<1>2. CASE Start
  BY <1>2, StartKeeps
<1>3. CASE EnableForwarding
  BY <1>3, EnableForwardingKeeps
<1>4. CASE Udev
  BY <1>4, UdevKeeps
<1>5. CASE Retry
  BY <1>5, RetryKeeps
<1>6. CASE Stop
  BY <1>6, StopKeeps
<1>7. CASE Step
  BY <1>7, SeeKeeps, EnsureKeeps, EnterGrabKeeps, RegrabKeeps, ProbeKeeps, SettleKeeps, GrabKeeps,
     ReleaseKeeps, FailOpenKeeps, RetireKeeps, GateKeeps DEF Step
<1>8. CASE Initialize
  BY <1>8, OutputKeeps, PlugKeeps DEF Initialize
<1>9. CASE SinkFails \/ Detach \/ Destroy \/ Recreate
  BY <1>9, OutputKeeps
<1>10. CASE \E demand \in Demands : SetMasks(demand)
  BY <1>10, SetMasksKeeps
<1>11. CASE \E o \in Sources \cup {"sink"} : Tap(o)
  BY <1>11, OutputKeeps
<1>12. ASSUME NEW s \in Sources,
              \/ Read(s) \/ Plug(s) \/ Unplug(s) \/ Reseat(s) \/ Foreign(s) \/ CloneFails(s)
              \/ \E k \in Keys : Key(s, k)
       PROVE  IInv'
  BY <1>12, ReadKeeps, PlugKeeps, UnplugKeeps, ForeignKeeps, OutputKeeps, KeyKeeps
<1> QED
  BY <1>1, <1>2, <1>3, <1>4, <1>5, <1>6, <1>7, <1>8, <1>9, <1>10, <1>11, <1>12 DEF Next

\* The invariant holds in every state of the reader, the kernel and the outputs.
THEOREM InductiveInvariant == Spec => []IInv
  BY InitHolds, NextKeeps, PTL DEF Spec

\* Every variable keeps its type; of the reader's jobs only the first has begun.
THEOREM TypesHold == Spec => []TypeOK
<1>1. IInv => TypeOK
  BY DEF IInv
<1> QED
  BY <1>1, InductiveInvariant, PTL

\* A grab leaves nothing pressed on the desktop but what went down between the
\* last look at the keys and EVIOCGRAB, whoever else grabs, plugs or presses.
THEOREM GrabsLeaveNothingPressed == Spec => []NothingLeftPressed
<1>1. IInv => NothingLeftPressed
  BY DEF IInv, AllSteady, Steady, Owned, Shown, NothingLeftPressed
<1> QED
  BY <1>1, InductiveInvariant, PTL

\* A queued report is handled under the grab state it arrived in, unless it came
\* between the drain and the switch.
THEOREM ReportsHandledAsArrived == Spec => []HandledAsArrived
<1>1. IInv => HandledAsArrived
  BY DEF IInv, AllSteady, Steady, Arrived, HandledAsArrived
<1> QED
  BY <1>1, InductiveInvariant, PTL
-----------------------------------------------------------------------------
(* Failing open and remembering: what the jobs to come still do *)

\* Stages of a grab that is being taken, after the outputs were looked at.
Taking == {"probe", "settle", "grab"}

\* A job to come looks at the outputs of s, switches its grab, ...
CheckTodo(q, s) ==
  \E j \in ToSet(q) :
    \/ j.op = "fail" /\ j.of = s
    \/ j.op = "grab" /\ j.of = s /\ j.stage \notin Taking
GrabTodo(q, s) == \E j \in ToSet(q) : j.op = "grab" /\ j.of = s

\* ... looks for it, or lets a source go whose outputs failed.
IsSource(n, s) == n.kind = "source" /\ n.of = s
SeeTodo(q, s) == \E j \in ToSet(q) : j.op = "see" /\ IsSource(j.node, s)
FailTodo(q) == \E j \in ToSet(q) : j.op = "grab" /\ j.within = "fail"

\* A pass over the masks, and one that has all the sources to go through.
IsPass(j) == j.op = "grab" /\ j.within = "pass"
InPass(q) == \E j \in ToSet(q) : IsPass(j)
AllPass(q) == \A s \in Sources : GrabJob(s, "pass") \in ToSet(q)

\* The gate is a handler's last job, and a pass is followed by nothing else.
Ordered(q) ==
  \A i, k \in 1..Len(q) : i < k => q[i].op # "gate" /\ (IsPass(q[i]) => IsPass(q[k]))

\* A clone is retired right after its source failed open.
NoRetire(q) == \A j \in ToSet(q) : j.op # "retire"
FailingOpen(j, s) ==
  j.op = "grab" /\ j.of = s /\ j.within = "fail" /\ j.stage \in {"enter", "release"}
RetireOK ==
  jobs # <<>> =>
    \/ /\ NoRetire(Tail(jobs))
       /\ Head(jobs).op = "retire" => ~dev[Head(jobs).of].grabbed
    \/ /\ Tail(jobs) # <<>> /\ Head(Tail(jobs)).op = "retire"
       /\ FailingOpen(Head(jobs), Head(Tail(jobs)).of)
       /\ NoRetire(Tail(Tail(jobs)))

\* A pass that has not begun is whole, and a source that fails open is tried again.
PassWhole == jobs # <<>> /\ InPass(jobs) /\ ~IsPass(Head(jobs)) => AllPass(jobs)
FailNoted == FailTodo(jobs) => incomplete

JobsInOrder == Ordered(jobs) /\ RetireOK /\ PassWhole /\ FailNoted

\* The generations of the sink and of its nodes, the tracked ones and those
\* whose removal is announced.
SinkInOrder ==
  /\ sink.id <= sink.gen
  /\ \A k \in sinks : k.gen <= sink.gen /\ k.id <= sink.id /\ (~torn => k.gen = k.id)
  /\ \A e \in ToSet(udev) : e.act = "remove" /\ e.node.kind = "sink" => e.node.id < sink.gen

\* A source that is grabbed, or about to be, on outputs that do not work has
\* raised failure_pending, or a job to come looks at it.
Bad(s) == NeedsForwarding(s) /\ ~Usable(s)
Watched(s) ==
  Bad(s) /\ (dev[s].grabbed \/ StageOf(jobs, s) \in Taking)
    => failure \/ torn \/ CheckTodo(jobs, s)

\* A source that is demanded and not grabbed: its grab is to come, or to be
\* tried again.
Missed(s) == ShouldGrab(s) /\ Open(dev[s]) /\ ~dev[s].grabbed
Retried(s) ==
  Missed(s) => \/ GrabTodo(jobs, s)
               \/ InPass(jobs) /\ pass.again
               \/ ~InPass(jobs) /\ incomplete

\* A source that is there and not tracked is still to be looked at.
Heard(s) == mode.started /\ mode.monitor /\ src[s].plug = "ready"
AddTodo(u, s) == \E e \in ToSet(u) : e.act = "add" /\ IsSource(e.node, s)
Found(s) == Heard(s) /\ dev[s].fd = "none" => SeeTodo(jobs, s) \/ AddTodo(udev, s)

\* A source that left and came back: its return is announced last.
Returned(u, s) ==
  \A i \in 1..Len(u) : u[i].act = "remove" /\ IsSource(u[i].node, s) =>
    \E k \in 1..Len(u) : i < k /\ u[k].act = "add" /\ IsSource(u[k].node, s)
ReturnLast(s) == Heard(s) => Returned(udev, s)

Released(s) == dev[s].grabbed => Open(dev[s])

Outlook ==
  /\ SinkInOrder /\ JobsInOrder
  /\ \A s \in Sources : Released(s) /\ Watched(s) /\ Retried(s) /\ Found(s) /\ ReturnLast(s)

-----------------------------------------------------------------------------
(* Lists of jobs as sets *)

\* A first job and the rest.
LEMMA SetOfCons ==
  ASSUME NEW S, NEW a \in S, NEW q \in Seq(S)
  PROVE  ToSet(<<a>> \o q) = {a} \cup ToSet(q)
<1>1. PICK p : p = <<a>> \o q
  OBVIOUS
<1>2. /\ p \in Seq(S) /\ Len(p) = Len(q) + 1 /\ Len(q) \in Nat
      /\ p[1] = a /\ \A i \in 1..Len(q) : p[i + 1] = q[i]
  BY <1>1
<1>3. DOMAIN p = 1..(Len(q) + 1) /\ DOMAIN q = 1..Len(q)
  BY <1>2
<1>4. ASSUME NEW x \in ToSet(p) PROVE x = a \/ x \in ToSet(q)
  <2>1. PICK i \in 1..(Len(q) + 1) : x = p[i]
    BY <1>3 DEF ToSet
  <2>2. CASE i = 1
    BY <2>1, <2>2, <1>2
  <2>3. CASE i # 1
    <3>1. i - 1 \in 1..Len(q) /\ (i - 1) + 1 = i
      BY <2>3, <1>2
    <3>2. x = q[i - 1]
      BY <2>1, <3>1, <1>2
    <3> QED
      BY <3>1, <3>2, <1>3 DEF ToSet
  <2> QED
    BY <2>2, <2>3
<1>5. a \in ToSet(p)
  <2>1. 1 \in DOMAIN p
    BY <1>2, <1>3
  <2> QED
    BY <2>1, <1>2 DEF ToSet
<1>6. ASSUME NEW x \in ToSet(q) PROVE x \in ToSet(p)
  <2>1. PICK i \in 1..Len(q) : x = q[i]
    BY <1>3 DEF ToSet
  <2>2. i + 1 \in DOMAIN p /\ x = p[i + 1]
    BY <2>1, <1>2, <1>3
  <2> QED
    BY <2>2 DEF ToSet
<1> QED
  BY <1>1, <1>4, <1>5, <1>6

\* The same, taken apart.
LEMMA SetOfRest ==
  ASSUME NEW S, NEW q \in Seq(S), q # <<>>
  PROVE  ToSet(q) = {Head(q)} \cup ToSet(Tail(q))
<1>1. PICK a \in S : a = Head(q)
  BY SeqFacts
<1>2. PICK r \in Seq(S) : r = Tail(q)
  BY SeqFacts
<1>3. PICK p : p = <<a>> \o r
  OBVIOUS
<1>4. p \in Seq(S) /\ Len(p) = Len(q) /\ \A i \in 1..Len(q) : p[i] = q[i]
  BY <1>1, <1>2, <1>3
<1>5. p = q
  BY <1>4
<1>6. ToSet(p) = {a} \cup ToSet(r)
  BY <1>3, SetOfCons
<1> QED
  BY <1>1, <1>2, <1>5, <1>6

\* Two lists.
LEMMA SetOfConcat ==
  ASSUME NEW S, NEW p \in Seq(S), NEW q \in Seq(S)
  PROVE  ToSet(p \o q) = ToSet(p) \cup ToSet(q)
<1>1. PICK r : r = p \o q
  OBVIOUS
<1>2. /\ r \in Seq(S) /\ Len(r) = Len(p) + Len(q) /\ Len(q) \in Nat /\ Len(p) \in Nat
      /\ \A i \in 1..Len(p) : r[i] = p[i]
      /\ \A i \in 1..Len(q) : r[Len(p) + i] = q[i]
  BY <1>1
<1>3. DOMAIN r = 1..(Len(p) + Len(q)) /\ DOMAIN p = 1..Len(p) /\ DOMAIN q = 1..Len(q)
  BY <1>2
<1>4. ASSUME NEW x \in ToSet(r) PROVE x \in ToSet(p) \cup ToSet(q)
  <2>1. PICK i \in 1..(Len(p) + Len(q)) : x = r[i]
    BY <1>3 DEF ToSet
  <2>2. CASE i <= Len(p)
    BY <2>1, <2>2, <1>2, <1>3 DEF ToSet
  <2>3. CASE ~(i <= Len(p))
    <3>1. i - Len(p) \in 1..Len(q) /\ Len(p) + (i - Len(p)) = i
      BY <2>3, <1>2
    <3>2. x = q[i - Len(p)]
      BY <2>1, <3>1, <1>2
    <3> QED
      BY <3>1, <3>2, <1>3 DEF ToSet
  <2> QED
    BY <2>2, <2>3
<1>5. ASSUME NEW x \in ToSet(p) PROVE x \in ToSet(r)
  <2>1. PICK i \in 1..Len(p) : x = p[i]
    BY <1>3 DEF ToSet
  <2>2. i \in DOMAIN r /\ x = r[i]
    BY <2>1, <1>2, <1>3
  <2> QED
    BY <2>2 DEF ToSet
<1>6. ASSUME NEW x \in ToSet(q) PROVE x \in ToSet(r)
  <2>1. PICK i \in 1..Len(q) : x = q[i]
    BY <1>3 DEF ToSet
  <2>2. Len(p) + i \in DOMAIN r /\ x = r[Len(p) + i]
    BY <2>1, <1>2, <1>3
  <2> QED
    BY <2>2 DEF ToSet
<1> QED
  BY <1>1, <1>4, <1>5, <1>6

\* No job, and one.
LEMMA SetOfShort ==
  /\ ToSet(<<>>) = {}
  /\ \A a : ToSet(<<a>>) = {a}
  BY DEF ToSet

\* The rest of an ordered list.
LEMMA OrderedRest ==
  ASSUME NEW S, NEW q \in Seq(S), q # <<>>, Ordered(q)
  PROVE  /\ Ordered(Tail(q))
         /\ Head(q).op = "gate" => Tail(q) = <<>>
         /\ IsPass(Head(q)) => \A j \in ToSet(Tail(q)) : IsPass(j)
<1>1. PICK r : r = Tail(q)
  OBVIOUS
<1>2. /\ r \in Seq(S) /\ Len(r) \in Nat /\ Len(q) = Len(r) + 1 /\ Head(q) = q[1]
      /\ \A i \in 1..Len(r) : r[i] = q[i + 1]
  BY <1>1, SeqFacts
<1>3. DOMAIN r = 1..Len(r)
  BY <1>2
<1>4. Ordered(r)
  <2> SUFFICES ASSUME NEW i \in 1..Len(r), NEW k \in 1..Len(r), i < k
               PROVE  r[i].op # "gate" /\ (IsPass(r[i]) => IsPass(r[k]))
    BY DEF Ordered
  <2>1. i + 1 \in 1..Len(q) /\ k + 1 \in 1..Len(q) /\ i + 1 < k + 1
    BY <1>2
  <2>2. q[i + 1].op # "gate" /\ (IsPass(q[i + 1]) => IsPass(q[k + 1]))
    BY <2>1 DEF Ordered
  <2> QED
    BY <2>2, <1>2
<1>5. ASSUME NEW k \in 1..Len(r) PROVE q[1].op # "gate" /\ (IsPass(q[1]) => IsPass(r[k]))
  <2>1. 1 \in 1..Len(q) /\ k + 1 \in 1..Len(q) /\ 1 < k + 1
    BY <1>2
  <2>2. q[1].op # "gate" /\ (IsPass(q[1]) => IsPass(q[k + 1]))
    BY <2>1 DEF Ordered
  <2> QED
    BY <2>2, <1>2
<1>6. IsPass(Head(q)) => \A j \in ToSet(r) : IsPass(j)
  <2> SUFFICES ASSUME IsPass(q[1]), NEW j \in ToSet(r) PROVE IsPass(j)
    BY <1>2
  <2>1. PICK k \in 1..Len(r) : j = r[k]
    BY <1>3 DEF ToSet
  <2> QED
    BY <2>1, <1>5
<1>7. Head(q).op = "gate" => r = <<>>
  <2> SUFFICES ASSUME r # <<>> PROVE q[1].op # "gate"
    BY <1>2
  <2>1. 1 \in 1..Len(r)
    BY <1>2
  <2> QED
    BY <2>1, <1>5
<1> QED
  BY <1>1, <1>4, <1>6, <1>7

\* A first job that may go before the others.
LEMMA OrderedCons ==
  ASSUME NEW S, NEW j \in S, NEW q \in Seq(S), Ordered(q), j.op # "gate",
         IsPass(j) => \A k \in ToSet(q) : IsPass(k)
  PROVE  Ordered(<<j>> \o q)
<1>1. PICK p : p = <<j>> \o q
  OBVIOUS
<1>2. /\ p \in Seq(S) /\ Len(p) = Len(q) + 1 /\ Len(q) \in Nat
      /\ p[1] = j /\ \A i \in 1..Len(q) : p[i + 1] = q[i]
  BY <1>1
<1>3. DOMAIN q = 1..Len(q)
  OBVIOUS
<1> SUFFICES ASSUME NEW i \in 1..Len(p), NEW k \in 1..Len(p), i < k
             PROVE  p[i].op # "gate" /\ (IsPass(p[i]) => IsPass(p[k]))
  BY <1>1 DEF Ordered
<1>4. k - 1 \in 1..Len(q) /\ p[k] = q[k - 1] /\ q[k - 1] \in ToSet(q)
  <2>1. k - 1 \in 1..Len(q) /\ (k - 1) + 1 = k
    BY <1>2
  <2> QED
    BY <2>1, <1>2, <1>3 DEF ToSet
<1>5. CASE i = 1
  BY <1>2, <1>4, <1>5
<1>6. CASE i # 1
  <2>1. i - 1 \in 1..Len(q) /\ (i - 1) + 1 = i /\ i - 1 < k - 1
    BY <1>2, <1>6
  <2>2. p[i] = q[i - 1]
    BY <2>1, <1>2
  <2>3. q[i - 1].op # "gate" /\ (IsPass(q[i - 1]) => IsPass(q[k - 1]))
    BY <2>1, <1>4 DEF Ordered
  <2> QED
    BY <2>2, <2>3, <1>4
<1> QED
  BY <1>5, <1>6

\* Jobs that are neither the gate nor part of a pass may go before others.
LEMMA OrderedConcat ==
  ASSUME NEW S, NEW p \in Seq(S), NEW q \in Seq(S), Ordered(q),
         \A j \in ToSet(p) : j.op # "gate" /\ ~IsPass(j)
  PROVE  Ordered(p \o q)
<1>1. PICK r : r = p \o q
  OBVIOUS
<1>2. /\ r \in Seq(S) /\ Len(r) = Len(p) + Len(q) /\ Len(q) \in Nat /\ Len(p) \in Nat
      /\ \A i \in 1..Len(p) : r[i] = p[i]
      /\ \A i \in 1..Len(q) : r[Len(p) + i] = q[i]
  BY <1>1
<1>3. DOMAIN p = 1..Len(p)
  OBVIOUS
<1> SUFFICES ASSUME NEW i \in 1..Len(r), NEW k \in 1..Len(r), i < k
             PROVE  r[i].op # "gate" /\ (IsPass(r[i]) => IsPass(r[k]))
  BY <1>1 DEF Ordered
<1>4. CASE i <= Len(p)
  <2>1. i \in 1..Len(p) /\ r[i] = p[i]
    BY <1>2, <1>4
  <2>2. r[i] \in ToSet(p)
    BY <2>1, <1>3 DEF ToSet
  <2> QED
    BY <2>2
<1>5. CASE ~(i <= Len(p))
  <2>1. PICK a \in 1..Len(q) : Len(p) + a = i
    <3>1. i - Len(p) \in 1..Len(q) /\ Len(p) + (i - Len(p)) = i
      BY <1>2, <1>5
    <3> QED
      BY <3>1
  <2>2. PICK b \in 1..Len(q) : Len(p) + b = k
    <3>1. k - Len(p) \in 1..Len(q) /\ Len(p) + (k - Len(p)) = k
      BY <1>2, <1>5
    <3> QED
      BY <3>1
  <2>3. a < b
    BY <2>1, <2>2, <1>2
  <2>4. r[i] = q[a] /\ r[k] = q[b]
    BY <2>1, <2>2, <1>2
  <2>5. q[a].op # "gate" /\ (IsPass(q[a]) => IsPass(q[b]))
    BY <2>3 DEF Ordered
  <2> QED
    BY <2>4, <2>5
<1> QED
  BY <1>4, <1>5

\* A pass is ordered, and so is a list of one job or none, or one with neither
\* a pass nor the gate in it.
LEMMA OrderedSimple ==
  ASSUME NEW S, NEW q \in Seq(S),
         \/ Len(q) <= 1
         \/ \A j \in ToSet(q) : IsPass(j)
         \/ \A j \in ToSet(q) : j.op # "gate" /\ ~IsPass(j)
  PROVE  Ordered(q)
<1>1. Len(q) \in Nat /\ DOMAIN q = 1..Len(q)
  OBVIOUS
<1> SUFFICES ASSUME NEW i \in 1..Len(q), NEW k \in 1..Len(q), i < k
             PROVE  q[i].op # "gate" /\ (IsPass(q[i]) => IsPass(q[k]))
  BY DEF Ordered
<1>2. ~(Len(q) <= 1)
  BY <1>1
<1>3. q[i] \in ToSet(q) /\ q[k] \in ToSet(q)
  BY <1>1 DEF ToSet
<1> QED
  BY <1>2, <1>3 DEF IsPass

\* The newest of the tracked sink nodes is of the sink's generation when one of
\* them is.
LEMMA NewestFacts ==
  ASSUME NEW K \in SUBSET [id : Nat, gen : Nat], NEW n \in Nat, \A k \in K : k.gen <= n
  PROVE  (K # {} /\ Max({k.gen : k \in K}) = n) <=> \E k \in K : k.gen = n
<1>1. PICK G : G = {k.gen : k \in K}
  OBVIOUS
<1>2. G \in SUBSET Nat /\ \A x \in G : x <= n
  BY <1>1
<1>3. n \in G <=> \E k \in K : k.gen = n
  BY <1>1
<1>4. ASSUME n \in G PROVE K # {} /\ Max(G) = n
  <2>1. \A y \in G : n >= y
    BY <1>2
  <2>2. \A x \in G : (\A y \in G : x >= y) => x = n
    BY <1>2, <1>4
  <2> QED
    BY <1>1, <1>4, <2>1, <2>2 DEF Max
<1>5. ASSUME K # {}, Max(G) = n PROVE n \in G
  <2>1. PICK T : T = {n - x : x \in G}
    OBVIOUS
  <2>2. T \subseteq Nat /\ T # {}
    BY <1>1, <1>2, <1>5, <2>1
  <2>3. PICK m \in T : \A y \in T : ~(<<y, m>> \in OpToRel(<, Nat))
    BY <2>2, NatLessThanWellFounded, WFMin
  <2>4. \A y \in T : ~(y < m)
    BY <2>2, <2>3 DEF OpToRel
  <2>5. PICK x \in G : m = n - x
    BY <2>1, <2>3
  <2>6. ASSUME NEW y \in G PROVE x >= y
    <3>1. n - y \in T
      BY <2>1
    <3>2. ~(n - y < m)
      BY <2>4, <3>1
    <3> QED
      BY <3>2, <2>5, <1>2
  <2>7. \E z \in G : \A y \in G : z >= y
    BY <2>6
  <2>8. Max(G) \in G
    BY <2>7 DEF Max
  <2> QED
    BY <2>8, <1>5
<1> QED
  BY <1>1, <1>3, <1>4, <1>5
-----------------------------------------------------------------------------
(* The outlook after a step of a grab's change *)

\* What such a step leaves alone.
GrabFrame(s) ==
  /\ UNCHANGED <<udev, sink, failure, sinks, masks, torn, mode>>
  /\ \A t \in Sources : src'[t].plug = src[t].plug
  /\ \A t \in Sources \ {s} : dev'[t] = dev[t] /\ fwd'[t] = fwd[t]

\* The outputs of s are as they were.
SameOutputs(s) ==
  dev'[s].ready = dev[s].ready /\ fwd'[s].open = fwd[s].open /\ fwd'[s].failed = fwd[s].failed

\* A source whose outputs are as they were is as badly off as it was.
LEMMA BadSame ==
  ASSUME NEW s, masks' = masks, sinks' = sinks, sink'.gen = sink.gen, sink'.up = sink.up, SameOutputs(s)
  PROVE  Bad(s)' <=> Bad(s)
  BY DEF SameOutputs, Bad, NeedsForwarding, Usable, Failed, SinkAdmitted, SinkAdmittedGeneration,
         Keyboard, MouseBlock

\* The first job and the rest, as sets.
LEMMA HeadRest ==
  ASSUME TypeOK, jobs # <<>>
  PROVE  /\ jobs \in Seq(Jobs) /\ Head(jobs) \in Jobs
         /\ Tail(jobs) \in Seq(Listed) /\ Tail(jobs) \in Seq(Jobs)
         /\ ToSet(jobs) = {Head(jobs)} \cup ToSet(Tail(jobs))
<1>1. jobs \in Seq(Jobs) /\ Head(jobs) \in Jobs /\ Tail(jobs) \in Seq(Listed)
  BY DEF TypeOK, ReaderOK, JobsOK
<1>2. Listed \subseteq Jobs
  BY DEF Listed, Jobs, GrabJobs, Stages
<1>3. Tail(jobs) \in Seq(Jobs)
  BY <1>1, <1>2, SeqMono
<1> QED
  BY <1>1, <1>3, SetOfRest

\* A job of a pass.
LEMMA PassJob ==
  ASSUME NEW s
  PROVE  LET j == GrabJob(s, "pass") IN IsPass(j) /\ j.op = "grab" /\ j.of = s /\ j.stage = "enter"
  BY DEF GrabJob, IsPass

\* A source that nothing happened to has the outlook it had.
LEMMA OthersFound ==
  ASSUME IInv, Outlook, NEW s \in Sources, GrabFrame(s), NEW t \in Sources,
         dev'[t].fd # dev[t].fd => dev'[t].fd # "none", SeeTodo(jobs, t) => SeeTodo(jobs', t)
  PROVE  Found(t)' /\ ReturnLast(t)'
<1>1. Found(t) /\ ReturnLast(t)
  BY DEF Outlook
<1>2. udev' = udev /\ mode' = mode /\ src'[t].plug = src[t].plug
  BY DEF GrabFrame
<1>3. Heard(t)' <=> Heard(t)
  BY <1>2 DEF Heard
<1>4. Found(t)'
  <2> SUFFICES ASSUME Heard(t)', dev'[t].fd = "none" PROVE SeeTodo(jobs', t) \/ AddTodo(udev', t)
    BY DEF Found
  <2>1. dev[t].fd = "none"
    OBVIOUS
  <2>2. SeeTodo(jobs, t) \/ AddTodo(udev, t)
    BY <1>1, <1>3, <2>1 DEF Found
  <2> QED
    BY <1>2, <2>2
<1>5. ReturnLast(t)'
  BY <1>1, <1>2, <1>3 DEF ReturnLast
<1> QED
  BY <1>4, <1>5

\* The change goes on.
LEMMA AtOutlook ==
  ASSUME IInv, Outlook, Job("grab"), NEW s \in Sources, s = Head(jobs).of, GrabFrame(s),
         NEW stage \in Stages, At(stage),
         pass'.again = pass.again, incomplete => incomplete',
         dev'[s].fd = dev[s].fd, dev'[s].grabbed => dev[s].grabbed, SameOutputs(s),
         stage \in Taking => ~Bad(s) \/ Head(jobs).stage \in Taking,
         Head(jobs).within = "fail" /\ Head(jobs).stage \in {"enter", "release"}
           => stage \in {"enter", "release"}
  PROVE  Outlook'
<1>0. TypeOK /\ jobs # <<>>
  BY AtJob DEF IInv
<1>1. PICK h : h = Head(jobs)
  OBVIOUS
<1>2. PICK r : r = Tail(jobs)
  OBVIOUS
<1>3. /\ h \in Jobs /\ r \in Seq(Listed) /\ r \in Seq(Jobs) /\ ToSet(jobs) = {h} \cup ToSet(r)
      /\ jobs \in Seq(Jobs)
  BY <1>0, <1>1, <1>2, HeadRest
<1>4. h.op = "grab" /\ h.of = s
  BY <1>1 DEF Job
<1>5. PICK j : j = [h EXCEPT !.stage = stage]
  OBVIOUS
<1>6. j \in Jobs /\ j.op = "grab" /\ j.of = s /\ j.stage = stage /\ j.within = h.within
  BY <1>3, <1>4, <1>5, GrabFacts
<1>7. jobs' = <<j>> \o r
  BY <1>1, <1>2, <1>5 DEF At
<1>8. jobs' # <<>> /\ Head(jobs') = j /\ Tail(jobs') = r
  BY <1>3, <1>7, ConsFacts
<1>9. ToSet(jobs') = {j} \cup ToSet(r)
  BY <1>3, <1>6, <1>7, SetOfCons
<1>10. /\ \A t : GrabTodo(jobs', t) <=> GrabTodo(jobs, t)
       /\ \A t : SeeTodo(jobs', t) <=> SeeTodo(jobs, t)
       /\ FailTodo(jobs') <=> FailTodo(jobs)
       /\ InPass(jobs') <=> InPass(jobs)
       /\ IsPass(j) <=> IsPass(h)
  BY <1>3, <1>4, <1>6, <1>9 DEF GrabTodo, SeeTodo, FailTodo, InPass, IsPass
<1>11. SinkInOrder'
  BY DEF Outlook, SinkInOrder, GrabFrame
<1>12. JobsInOrder'
  <2>0. JobsInOrder
    BY DEF Outlook
  <2>1. Ordered(jobs')
    <3>1. Ordered(r) /\ (IsPass(h) => \A k \in ToSet(r) : IsPass(k))
      BY <1>0, <1>1, <1>2, <1>3, <2>0, OrderedRest DEF JobsInOrder
    <3> QED
      BY <3>1, <1>3, <1>6, <1>7, <1>10, OrderedCons
  <2>2. RetireOK'
    <3>1. CASE NoRetire(r)
      BY <3>1, <1>6, <1>8 DEF RetireOK
    <3>2. CASE ~NoRetire(r)
      <4>1. r # <<>> /\ Head(r).op = "retire" /\ FailingOpen(h, Head(r).of) /\ NoRetire(Tail(r))
        BY <3>2, <2>0, <1>0, <1>1, <1>2 DEF JobsInOrder, RetireOK
      <4>2. FailingOpen(j, Head(r).of)
        BY <4>1, <1>1, <1>6, <1>4 DEF FailingOpen
      <4> QED
        BY <4>1, <4>2, <1>8 DEF RetireOK
    <3> QED
      BY <3>1, <3>2
  <2>3. PassWhole'
    <3> SUFFICES ASSUME InPass(jobs'), ~IsPass(j), NEW t \in Sources
                 PROVE  GrabJob(t, "pass") \in ToSet(jobs')
      BY <1>8 DEF PassWhole, AllPass
    <3>1. GrabJob(t, "pass") \in ToSet(jobs)
      BY <1>0, <1>1, <1>10, <2>0 DEF JobsInOrder, PassWhole, AllPass
    <3>2. GrabJob(t, "pass") # h
      BY <1>10, PassJob
    <3> QED
      BY <3>1, <3>2, <1>3, <1>9
  <2>4. FailNoted'
    BY <2>0, <1>10 DEF JobsInOrder, FailNoted
  <2> QED
    BY <2>1, <2>2, <2>3, <2>4 DEF JobsInOrder
<1>13. ASSUME NEW t \in Sources PROVE Released(t)' /\ Watched(t)' /\ Retried(t)' /\ Found(t)' /\ ReturnLast(t)'
  <2>0. Released(t) /\ Watched(t) /\ Retried(t)
    BY DEF Outlook
  <2>1. dev'[t].fd = dev[t].fd /\ (dev'[t].grabbed => dev[t].grabbed) /\ SameOutputs(t)
    BY DEF GrabFrame, SameOutputs
  <2>2. /\ masks' = masks /\ sinks' = sinks /\ sink' = sink /\ failure' = failure /\ torn' = torn
    BY DEF GrabFrame
  <2>3. Bad(t)' <=> Bad(t)
    BY <2>1, <2>2, BadSame
  <2>4. Released(t)'
    BY <2>0, <2>1 DEF Released, Open
  <2>5. Watched(t)'
    <3> SUFFICES ASSUME Bad(t)', dev'[t].grabbed \/ StageOf(jobs', t) \in Taking
                 PROVE  failure' \/ torn' \/ CheckTodo(jobs', t)
      BY DEF Watched
    <3>1. CASE t = s /\ stage \notin Taking
      BY <3>1, <1>6, <1>9 DEF CheckTodo
    <3>2. CASE ~(t = s /\ stage \notin Taking)
      <4>1. dev[t].grabbed \/ StageOf(jobs, t) \in Taking
        <5>1. CASE t = s
          BY <5>1, <3>2, <2>3, <1>0, <1>1, <1>4 DEF StageOf
        <5>2. CASE t # s
          <6>1. StageOf(jobs', t) = "none"
            BY <5>2, <1>6, <1>8 DEF StageOf
          <6> QED
            BY <6>1, <2>1 DEF Taking
        <5> QED
          BY <5>1, <5>2
      <4>2. failure \/ torn \/ CheckTodo(jobs, t)
        BY <4>1, <2>0, <2>3 DEF Watched
      <4>3. ASSUME CheckTodo(jobs, t) PROVE CheckTodo(jobs', t)
        <5>1. PICK k \in ToSet(jobs) : \/ k.op = "fail" /\ k.of = t
                                       \/ k.op = "grab" /\ k.of = t /\ k.stage \notin Taking
          BY <4>3 DEF CheckTodo
        <5>2. k # h
          <6>1. CASE t = s
            BY <6>1, <5>1, <3>2, <2>3, <1>1, <1>4
          <6>2. CASE t # s
            BY <6>2, <5>1, <1>4
          <6> QED
            BY <6>1, <6>2
        <5>3. k \in ToSet(jobs')
          BY <5>2, <1>3, <1>9
        <5> QED
          BY <5>1, <5>3 DEF CheckTodo
      <4> QED
        BY <4>2, <4>3, <2>2
    <3> QED
      BY <3>1, <3>2
  <2>6. Retried(t)'
    <3>1. CASE t = s
      <4>1. GrabTodo(jobs', s)
        BY <1>6, <1>9 DEF GrabTodo
      <4> QED
        BY <3>1, <4>1 DEF Retried
    <3>2. CASE t # s
      <4>1. Missed(t)' <=> Missed(t)
        BY <3>2, <2>2 DEF Missed, GrabFrame, ShouldGrab, Keyboard, MouseHook, MouseBlock, Mouse
      <4> QED
        BY <4>1, <2>0, <1>10 DEF Retried
    <3> QED
      BY <3>1, <3>2
  <2>7. Found(t)' /\ ReturnLast(t)'
    BY <2>1, <1>10, OthersFound
  <2> QED
    BY <2>4, <2>5, <2>6, <2>7
<1> QED
  BY <1>11, <1>12, <1>13 DEF Outlook

\* What apply_grab_masks makes of a change that ends.
LEMMA DoneMeans ==
  ASSUME TypeOK, Job("grab"), NEW d, NEW failed, NEW r \in BOOLEAN, NEW probe,
         Done(d, failed, r, probe),
         NEW x \in BOOLEAN, x = (ShouldGrab(Head(jobs).of) /\ ~d.grabbed /\ Open(d))
  PROVE  /\ jobs' = Tail(jobs)
         /\ Head(jobs).within \in {"track", "pass", "fail"}
         /\ Head(jobs).within = "track" => (r \/ x => incomplete')
         /\ Head(jobs).within = "pass" /\ Tail(jobs) = <<>> => (pass.again \/ x => incomplete')
         /\ Head(jobs).within = "pass" /\ Tail(jobs) # <<>> => (pass.again \/ x => pass'.again)
         /\ Head(jobs).within # "pass" \/ Tail(jobs) # <<>> => (r => incomplete')
<1>1. jobs' = Tail(jobs)
  BY DEF Done
<1>2. Head(jobs).within \in {"track", "pass", "fail"}
  BY AtJob, GrabFacts
<1>3. PICK again : again = (failed \/ (ShouldGrab(Head(jobs).of) /\ ~d.grabbed /\ Open(d)))
  OBVIOUS
<1>4. x => again
  BY <1>3
<1>5. PICK last \in BOOLEAN : last = (Tail(jobs) = <<>>)
  <2>1. (Tail(jobs) = <<>>) \in BOOLEAN
    OBVIOUS
  <2> QED
    BY <2>1
<1>6. incomplete' = CASE Head(jobs).within = "track" -> r \/ again
                      [] Head(jobs).within = "pass" /\ last -> pass.again \/ again
                      [] OTHER -> r
  BY <1>3, <1>5 DEF Done
<1>7. pass'.again = (Head(jobs).within = "pass" /\ ~last /\ (pass.again \/ again))
  BY <1>3, <1>5 DEF Done
<1>8. Head(jobs).within = "track" => (r \/ x => incomplete')
  BY <1>4, <1>6
<1>9. Head(jobs).within = "pass" /\ last => (pass.again \/ x => incomplete')
  BY <1>4, <1>6
<1>10. Head(jobs).within = "pass" /\ ~last => (pass.again \/ x => pass'.again)
  BY <1>4, <1>7
<1>11. Head(jobs).within # "pass" \/ ~last => (r => incomplete')
  BY <1>2, <1>6
<1> QED
  BY <1>1, <1>2, <1>5, <1>8, <1>9, <1>10, <1>11

\* The change ends.
LEMMA DoneOutlook ==
  ASSUME IInv, Outlook, Job("grab"), NEW s \in Sources, s = Head(jobs).of, GrabFrame(s),
         NEW d, NEW failed, NEW r \in BOOLEAN, NEW probe, Done(d, failed, r, probe),
         incomplete => r,
         dev'[s].fd # dev[s].fd => dev'[s].fd # "none",
         dev'[s].grabbed => Open(dev'[s]),
         Open(dev'[s]) /\ ~dev'[s].grabbed => Open(d) /\ ~d.grabbed,
         dev'[s].grabbed /\ Bad(s)' => Bad(s) /\ Head(jobs).stage \in Taking,
         Head(jobs).within = "fail" /\ Head(jobs).stage \in {"enter", "release"} => ~dev'[s].grabbed
  PROVE  Outlook'
<1>0. TypeOK /\ jobs # <<>>
  BY AtJob DEF IInv
<1>1. PICK h : h = Head(jobs)
  OBVIOUS
<1>2. PICK q : q = Tail(jobs)
  OBVIOUS
<1>3. /\ h \in Jobs /\ q \in Seq(Listed) /\ q \in Seq(Jobs) /\ ToSet(jobs) = {h} \cup ToSet(q)
      /\ jobs \in Seq(Jobs)
  BY <1>0, <1>1, <1>2, HeadRest
<1>4. h.op = "grab" /\ h.of = s
  BY <1>1 DEF Job
<1>5. PICK x \in BOOLEAN : x = (ShouldGrab(s) /\ ~d.grabbed /\ Open(d))
  <2>1. (ShouldGrab(s) /\ ~d.grabbed /\ Open(d)) \in BOOLEAN
    OBVIOUS
  <2> QED
    BY <2>1
<1>6. /\ jobs' = q
      /\ h.within \in {"track", "pass", "fail"}
      /\ h.within = "track" => (r \/ x => incomplete')
      /\ h.within = "pass" /\ q = <<>> => (pass.again \/ x => incomplete')
      /\ h.within = "pass" /\ q # <<>> => (pass.again \/ x => pass'.again)
      /\ h.within # "pass" \/ q # <<>> => (r => incomplete')
  BY <1>0, <1>1, <1>2, <1>5, DoneMeans
<1>7. JobsInOrder /\ Ordered(q) /\ (IsPass(h) => \A k \in ToSet(q) : IsPass(k))
  BY <1>0, <1>1, <1>2, <1>3, OrderedRest DEF JobsInOrder, Outlook
<1>8. IsPass(h) <=> h.within = "pass"
  BY <1>4 DEF IsPass
<1>9. q # <<>> => Head(q) \in ToSet(q) /\ ToSet(Tail(q)) \subseteq ToSet(q)
  BY <1>3, SetOfRest
<1>10. ASSUME InPass(q), ~IsPass(h), NEW t \in Sources PROVE GrabJob(t, "pass") \in ToSet(q)
  <2>1. InPass(jobs)
    BY <1>3, <1>10 DEF InPass
  <2>2. GrabJob(t, "pass") \in ToSet(jobs)
    BY <1>0, <1>1, <1>7, <1>10, <2>1 DEF JobsInOrder, PassWhole, AllPass
  <2>3. GrabJob(t, "pass") # h
    BY <1>10, PassJob
  <2> QED
    BY <2>2, <2>3, <1>3
<1>11. SinkInOrder'
  BY DEF Outlook, SinkInOrder, GrabFrame
<1>12. JobsInOrder'
  <2>1. RetireOK'
    <3> SUFFICES ASSUME q # <<>>
                 PROVE  NoRetire(Tail(q)) /\ (Head(q).op = "retire" => ~dev'[Head(q).of].grabbed)
      BY <1>6 DEF RetireOK
    <3>1. CASE NoRetire(q)
      BY <3>1, <1>9 DEF NoRetire
    <3>2. CASE ~NoRetire(q)
      <4>1. q # <<>> /\ Head(q).op = "retire" /\ FailingOpen(h, Head(q).of) /\ NoRetire(Tail(q))
        BY <3>2, <1>0, <1>1, <1>2, <1>7 DEF JobsInOrder, RetireOK
      <4>2. Head(q).of = s /\ ~dev'[s].grabbed
        BY <4>1, <1>1, <1>4 DEF FailingOpen
      <4> QED
        BY <4>1, <4>2
    <3> QED
      BY <3>1, <3>2
  <2>2. PassWhole'
    <3> SUFFICES ASSUME q # <<>>, InPass(q), ~IsPass(Head(q)) PROVE AllPass(q)
      BY <1>6 DEF PassWhole
    <3>1. ~IsPass(h)
      BY <1>7, <1>9
    <3> QED
      BY <3>1, <1>10 DEF AllPass
  <2>3. FailNoted'
    <3> SUFFICES ASSUME FailTodo(q) PROVE incomplete'
      BY <1>6 DEF FailNoted
    <3>1. ~IsPass(h)
      BY <1>7 DEF FailTodo, IsPass
    <3>2. FailTodo(jobs)
      BY <1>3 DEF FailTodo
    <3>3. incomplete
      BY <3>2, <1>7 DEF JobsInOrder, FailNoted
    <3> QED
      BY <3>1, <3>3, <1>6, <1>8
  <2> QED
    BY <2>1, <2>2, <2>3, <1>6, <1>7 DEF JobsInOrder
<1>13. ASSUME NEW t \in Sources PROVE Released(t)' /\ Watched(t)' /\ Retried(t)' /\ Found(t)' /\ ReturnLast(t)'
  <2>0. Released(t) /\ Watched(t) /\ Retried(t)
    BY DEF Outlook
  <2>1. t # s => dev'[t] = dev[t] /\ fwd'[t] = fwd[t] /\ SameOutputs(t)
    BY DEF GrabFrame, SameOutputs
  <2>2. /\ masks' = masks /\ sinks' = sinks /\ sink' = sink /\ failure' = failure /\ torn' = torn
    BY DEF GrabFrame
  <2>3. t # s => (Bad(t)' <=> Bad(t))
    BY <2>1, <2>2, BadSame
  <2>4. Released(t)'
    BY <2>0, <2>1 DEF Released
  <2>5. Watched(t)'
    <3> SUFFICES ASSUME Bad(t)', dev'[t].grabbed \/ StageOf(jobs', t) \in Taking
                 PROVE  failure' \/ torn' \/ CheckTodo(jobs', t)
      BY DEF Watched
    <3>1. StageOf(jobs', t) \notin Taking
      <4>1. StageOf(q, t) \in {"none", "enter"}
        BY <1>3, ListedJobs
      <4> QED
        BY <4>1, <1>6 DEF Taking
    <3>2. /\ Bad(t) /\ (dev[t].grabbed \/ StageOf(jobs, t) \in Taking)
          /\ t = s => h.stage \in Taking
      <4>1. CASE t = s
        BY <4>1, <3>1, <1>0, <1>1, <1>4 DEF StageOf
      <4>2. CASE t # s
        BY <4>2, <3>1, <2>1, <2>3
      <4> QED
        BY <4>1, <4>2
    <3>3. failure \/ torn \/ CheckTodo(jobs, t)
      BY <3>2, <2>0 DEF Watched
    <3>4. ASSUME CheckTodo(jobs, t) PROVE CheckTodo(q, t)
      <4>1. PICK k \in ToSet(jobs) : \/ k.op = "fail" /\ k.of = t
                                     \/ k.op = "grab" /\ k.of = t /\ k.stage \notin Taking
        BY <3>4 DEF CheckTodo
      <4>2. k # h
        BY <4>1, <3>2, <1>4
      <4>3. k \in ToSet(q)
        BY <4>2, <1>3
      <4> QED
        BY <4>1, <4>3 DEF CheckTodo
    <3> QED
      BY <3>3, <3>4, <2>2, <1>6
  <2>6. Retried(t)'
    <3> SUFFICES ASSUME Missed(t)', ~GrabTodo(q, t)
                 PROVE  (InPass(q) /\ pass'.again) \/ (~InPass(q) /\ incomplete')
      BY <1>6 DEF Retried
    <3>1. ShouldGrab(t) /\ Open(dev'[t]) /\ ~dev'[t].grabbed
      BY <2>2 DEF Missed, ShouldGrab, Keyboard, MouseHook, MouseBlock, Mouse
    <3>2. t = s => x
      BY <3>1, <1>5
    <3>3. t # s => Missed(t) /\ ~GrabTodo(jobs, t)
      <4> SUFFICES ASSUME t # s PROVE Missed(t) /\ ~GrabTodo(jobs, t)
        OBVIOUS
      <4>1. Missed(t)
        BY <3>1, <2>1 DEF Missed
      <4>2. ~GrabTodo(jobs, t)
        BY <1>3, <1>4 DEF GrabTodo
      <4> QED
        BY <4>1, <4>2
    <3>4. t # s => (InPass(jobs) /\ pass.again) \/ (~InPass(jobs) /\ incomplete)
      BY <3>3, <2>0 DEF Retried
    <3>5. CASE IsPass(h)
      <4>1. InPass(jobs)
        BY <3>5, <1>3 DEF InPass
      <4>2. pass.again \/ x
        BY <4>1, <3>2, <3>4
      <4>3. CASE q = <<>>
        <5>1. ToSet(q) = {}
          BY <4>3, SetOfShort
        <5>2. ~InPass(q)
          BY <5>1 DEF InPass
        <5> QED
          BY <4>2, <4>3, <5>2, <3>5, <1>6, <1>8
      <4>4. CASE q # <<>>
        <5>1. InPass(q)
          BY <4>4, <3>5, <1>7, <1>9 DEF InPass
        <5> QED
          BY <4>2, <4>4, <5>1, <3>5, <1>6, <1>8
      <4> QED
        BY <4>3, <4>4
    <3>6. CASE ~IsPass(h)
      <4>1. ~InPass(q)
        <5> SUFFICES ASSUME InPass(q) PROVE FALSE
          OBVIOUS
        <5>1. GrabJob(t, "pass") \in ToSet(q)
          BY <3>6, <1>10
        <5> QED
          BY <5>1, PassJob DEF GrabTodo
      <4>2. ~InPass(jobs)
        BY <4>1, <3>6, <1>3 DEF InPass
      <4>3. CASE t # s
        BY <4>1, <4>2, <4>3, <3>4, <3>6, <1>6, <1>8
      <4>4. CASE t = s /\ h.within = "track"
        BY <4>1, <4>4, <3>2, <1>6
      <4>5. CASE h.within = "fail"
        <5>1. FailTodo(jobs)
          BY <4>5, <1>3, <1>4 DEF FailTodo
        <5>2. incomplete
          BY <5>1, <1>7 DEF JobsInOrder, FailNoted
        <5> QED
          BY <4>1, <4>5, <5>2, <1>6
      <4> QED
        BY <4>3, <4>4, <4>5, <3>6, <1>6, <1>8
    <3> QED
      BY <3>5, <3>6
  <2>7. Found(t)' /\ ReturnLast(t)'
    <3>1. SeeTodo(jobs, t) => SeeTodo(jobs', t)
      BY <1>3, <1>4, <1>6 DEF SeeTodo
    <3>2. dev'[t].fd # dev[t].fd => dev'[t].fd # "none"
      BY <2>1
    <3> QED
      BY <3>1, <3>2, OthersFound
  <2> QED
    BY <2>4, <2>5, <2>6, <2>7
<1> QED
  BY <1>11, <1>12, <1>13 DEF Outlook
\* What a step of a grab's change leaves alone, whatever its source.
StepFrame == UNCHANGED <<udev, sink, failure, sinks, masks, torn, mode>>

\* What closing a device does to the source, and leaves of the others.
LEMMA CloseMeans ==
  ASSUME TypeOK, NEW s \in Sources, NEW fd, Close(s, fd)
  PROVE  /\ dev'[s].fd = fd /\ ~dev'[s].grabbed
         /\ \A t \in Sources : src'[t].plug = src[t].plug
         /\ \A t \in Sources \ {s} : dev'[t] = dev[t] /\ fwd'[t] = fwd[t]
<1>0. dev \in [Sources -> DevSet] /\ src \in [Sources -> SrcSet] /\ fwd \in [Sources -> FwdSet]
  BY DEF TypeOK, ReaderOK, OutsideOK
<1>1. PICK d : d = [Untracked EXCEPT !.fd = fd]
  OBVIOUS
<1>2. d.fd = fd /\ ~d.grabbed
  BY <1>1 DEF Untracked
<1>3. dev' = [dev EXCEPT ![s] = d]
  BY <1>1 DEF Close
<1>4. dev'[s] = d /\ \A t \in Sources \ {s} : dev'[t] = dev[t]
  BY <1>0, <1>3
<1>5. PICK y : y = [src[s] EXCEPT !.owner = IF @ = "us" THEN "none" ELSE @, !.queue = <<>>]
  OBVIOUS
<1>6. y.plug = src[s].plug
  BY <1>0, <1>5 DEF SrcSet
<1>7. src' = [src EXCEPT ![s] = y]
  BY <1>0, <1>5 DEF Close
<1>8. \A t \in Sources : src'[t].plug = src[t].plug
  BY <1>0, <1>6, <1>7
<1>9. \A t \in Sources \ {s} : fwd'[t] = fwd[t]
  BY <1>0 DEF Close
<1> QED
  BY <1>2, <1>4, <1>8, <1>9

\* The change ends and the kernel's side is left alone.
LEMMA LeaveOutlook ==
  ASSUME IInv, Outlook, Job("grab"), NEW s \in Sources, s = Head(jobs).of, StepFrame,
         NEW d \in DevSet, d.fd = dev[s].fd, d.grabbed = dev[s].grabbed, d.ready = dev[s].ready,
         NEW failed, Leave(s, d, failed), dev[s].grabbed => ~Bad(s),
         Head(jobs).within = "fail" /\ Head(jobs).stage \in {"enter", "release"} => ~dev[s].grabbed
  PROVE  Outlook'
<1>0. TypeOK /\ dev \in [Sources -> DevSet] /\ incomplete \in BOOLEAN
  BY DEF IInv, TypeOK, ReaderOK
<1>1. dev' = [dev EXCEPT ![s] = d] /\ src' = src /\ fwd' = fwd /\ tapped' = tapped
  BY DEF Leave
<1>2. PICK probe : Done(d, failed, incomplete, probe)
  BY DEF Leave
<1>3. dev'[s] = d /\ \A t \in Sources \ {s} : dev'[t] = dev[t]
  BY <1>0, <1>1
<1>4. GrabFrame(s) /\ SameOutputs(s)
  BY <1>1, <1>3 DEF GrabFrame, StepFrame, SameOutputs
<1>5. Bad(s)' <=> Bad(s)
  BY <1>4, BadSame DEF GrabFrame
<1>6. Released(s)
  BY DEF Outlook
<1>7. /\ dev'[s].fd # dev[s].fd => dev'[s].fd # "none"
      /\ dev'[s].grabbed => Open(dev'[s])
      /\ Open(dev'[s]) /\ ~dev'[s].grabbed => Open(d) /\ ~d.grabbed
      /\ dev'[s].grabbed /\ Bad(s)' => Bad(s) /\ Head(jobs).stage \in Taking
      /\ Head(jobs).within = "fail" /\ Head(jobs).stage \in {"enter", "release"} => ~dev'[s].grabbed
  BY <1>3, <1>5, <1>6 DEF Released, Open
<1> QED
  BY <1>0, <1>2, <1>4, <1>7, DoneOutlook

\* A device that is gone is closed.
LEMMA ClosedOutlook ==
  ASSUME IInv, Outlook, Job("grab"), NEW s \in Sources, s = Head(jobs).of, StepFrame,
         NEW d, NEW failed, NEW probe, Close(s, "closed"), Done(d, failed, incomplete, probe)
  PROVE  Outlook'
<1>0. TypeOK /\ incomplete \in BOOLEAN
  BY DEF IInv, TypeOK, ReaderOK
<1>1. PICK fd : fd = "closed"
  OBVIOUS
<1>2. Close(s, fd)
  BY <1>1
<1>3. /\ dev'[s].fd = "closed" /\ ~dev'[s].grabbed
      /\ \A t \in Sources : src'[t].plug = src[t].plug
      /\ \A t \in Sources \ {s} : dev'[t] = dev[t] /\ fwd'[t] = fwd[t]
  BY <1>0, <1>1, <1>2, CloseMeans
<1>4. GrabFrame(s)
  BY <1>3 DEF GrabFrame, StepFrame
<1>5. ~Open(dev'[s])
  BY <1>3 DEF Open
<1> QED
  BY <1>0, <1>3, <1>4, <1>5, DoneOutlook

\* The outputs and the keys are looked at.
LEMMA TryGrabOutlook ==
  ASSUME IInv, Outlook, Job("grab"), NEW s \in Sources, s = Head(jobs).of, StepFrame,
         ~dev[s].grabbed, TryGrab(s),
         ~(Head(jobs).within = "fail" /\ Head(jobs).stage \in {"enter", "release"})
  PROVE  Outlook'
<1>0. TypeOK /\ dev \in [Sources -> DevSet] /\ dev[s] \in DevSet
  BY DEF IInv, TypeOK, ReaderOK
<1>1. PICK e : e = Deferred(dev[s], s)
  OBVIOUS
<1>2. e \in DevSet /\ e.fd = dev[s].fd /\ e.grabbed = dev[s].grabbed /\ e.ready = dev[s].ready
  BY <1>0, <1>1, DeferredFacts
<1>3. CASE \E failed : Leave(s, dev[s], failed)
  BY <1>0, <1>3, LeaveOutlook
<1>4. CASE \E failed : Leave(s, Deferred(dev[s], s), failed)
  <2>1. PICK failed : Leave(s, e, failed)
    BY <1>1, <1>4
  <2> QED
    BY <1>2, <2>1, LeaveOutlook
<1>5. CASE /\ ~NeedsForwarding(s) \/ Usable(s)
           /\ At("probe")
           /\ dev' = [dev EXCEPT ![s] = Deferred(@, s)]
           /\ UNCHANGED <<src, fwd, tapped, incomplete, pass>>
  <2>1. dev' = [dev EXCEPT ![s] = e]
    BY <1>0, <1>1, <1>5
  <2>2. dev'[s] = e /\ \A t \in Sources \ {s} : dev'[t] = dev[t]
    BY <1>0, <2>1
  <2>3. GrabFrame(s) /\ SameOutputs(s)
    BY <1>2, <1>5, <2>2 DEF GrabFrame, StepFrame, SameOutputs
  <2>4. ~Bad(s)
    BY <1>5 DEF Bad
  <2>5. PICK stage : stage = "probe"
    OBVIOUS
  <2>6. stage \in Stages /\ At(stage) /\ pass'.again = pass.again /\ (incomplete => incomplete')
    BY <1>5, <2>5 DEF Stages
  <2> QED
    BY <1>2, <2>2, <2>3, <2>4, <2>6, AtOutlook
<1>6. \/ \E failed : Leave(s, dev[s], failed)
      \/ \E failed : Leave(s, Deferred(dev[s], s), failed)
      \/ /\ ~NeedsForwarding(s) \/ Usable(s)
         /\ At("probe")
         /\ dev' = [dev EXCEPT ![s] = Deferred(@, s)]
         /\ UNCHANGED <<src, fwd, tapped, incomplete, pass>>
  BY Zenon DEF TryGrab
<1> QED
  BY <1>3, <1>4, <1>5, <1>6

\* What is queued is handled before a release.
LEMMA DrainFirstOutlook ==
  ASSUME IInv, Outlook, Job("grab"), NEW s \in Sources, s = Head(jobs).of, StepFrame,
         NEW stage \in {"release", "rerelease"}, DrainFirst(s, stage),
         Head(jobs).within = "fail" => stage = "release"
  PROVE  Outlook'
<1>0. TypeOK /\ dev \in [Sources -> DevSet] /\ src \in [Sources -> SrcSet] /\ fwd \in [Sources -> FwdSet]
  BY DEF IInv, TypeOK, ReaderOK, OutsideOK
<1>1. CASE GoneWhileDrained(s, stage = "rerelease")
  <2>1. PICK d, failed, probe : Close(s, "closed") /\ Done(d, failed, incomplete, probe)
    BY <1>1 DEF GoneWhileDrained
  <2> QED
    BY <2>1, ClosedOutlook
<1>2. CASE /\ At(stage)
           /\ \E passes \in SUBSET (1..Len(src[s].queue)) :
                LET st == Drained(s, passes)
                IN /\ dev' = [dev EXCEPT ![s] = st.dev]
                   /\ fwd' = [fwd EXCEPT ![s] = st.fwd]
                   /\ incomplete' = st.incomplete
           /\ src' = [src EXCEPT ![s].queue = <<>>]
           /\ UNCHANGED <<pass, tapped>>
  <2>1. PICK passes, st :
           /\ st = Drained(s, passes)
           /\ dev' = [dev EXCEPT ![s] = st.dev] /\ fwd' = [fwd EXCEPT ![s] = st.fwd]
           /\ incomplete' = st.incomplete
    BY <1>2
  <2>2. PICK st0 : st0 = [dev |-> dev[s], fwd |-> fwd[s], incomplete |-> incomplete]
    OBVIOUS
  <2>3. Alike(st, st0)
    BY <1>0, <2>1, <2>2, DrainedFacts
  <2>4. dev'[s] = st.dev /\ fwd'[s] = st.fwd /\ \A t \in Sources \ {s} : dev'[t] = dev[t] /\ fwd'[t] = fwd[t]
    BY <1>0, <2>1
  <2>5. /\ dev'[s].fd = dev[s].fd /\ dev'[s].grabbed = dev[s].grabbed /\ SameOutputs(s)
        /\ incomplete => incomplete'
    BY <2>1, <2>2, <2>3, <2>4 DEF Alike, SameOutputs
  <2>6. \A t \in Sources : src'[t].plug = src[t].plug
    <3>1. PICK y : y = [src[s] EXCEPT !.queue = <<>>]
      OBVIOUS
    <3>2. y.plug = src[s].plug
      BY <1>0, <3>1 DEF SrcSet
    <3>3. src' = [src EXCEPT ![s] = y]
      BY <1>0, <1>2, <3>1
    <3> QED
      BY <1>0, <3>2, <3>3
  <2>7. GrabFrame(s)
    BY <2>4, <2>6 DEF GrabFrame, StepFrame
  <2>8. /\ stage \in Stages /\ At(stage) /\ pass'.again = pass.again
        /\ stage \in Taking => ~Bad(s) \/ Head(jobs).stage \in Taking
        /\ Head(jobs).within = "fail" /\ Head(jobs).stage \in {"enter", "release"}
             => stage \in {"enter", "release"}
    BY <1>2 DEF Stages, Taking
  <2> QED
    BY <2>5, <2>7, <2>8, AtOutlook
<1> QED
  BY <1>1, <1>2 DEF DrainFirst

\* set_device_grab's first steps keep the outlook.
LEMMA EnterGrabOutlook ==
  ASSUME IInv, Outlook, EnterGrab
  PROVE  Outlook'
<1>0. TypeOK /\ Grabbing("enter") /\ StepFrame
  BY DEF IInv, EnterGrab, StepFrame
<1>1. PICK s : s = Head(jobs).of
  OBVIOUS
<1>2. s \in Sources /\ Job("grab") /\ Head(jobs).stage = "enter"
  BY <1>0, <1>1, AtGrab
<1>3. PICK d : d = dev[s]
  OBVIOUS
<1>4. d \in DevSet /\ (d.grabbed => Open(d))
  BY <1>0, <1>2, <1>3 DEF TypeOK, ReaderOK, Outlook, Released
<1>5. PICK e : e = [d EXCEPT !.deferred = FALSE]
  OBVIOUS
<1>6. e \in DevSet /\ e.fd = d.fd /\ e.grabbed = d.grabbed /\ e.ready = d.ready
  BY <1>4, <1>5 DEF DevSet
<1>7. PICK f : f = [d EXCEPT !.deferred = FALSE, !.tail = FALSE, !.foreign = FALSE]
  OBVIOUS
<1>8. f \in DevSet /\ f.fd = d.fd /\ f.grabbed = d.grabbed /\ f.ready = d.ready
  BY <1>4, <1>7 DEF DevSet
<1>9. CASE ~Open(d) /\ \E failed : Leave(s, e, failed)
  BY <1>0, <1>1, <1>2, <1>3, <1>4, <1>6, <1>9, LeaveOutlook
<1>10. CASE /\ Want(Head(jobs)) /\ (~NeedsForwarding(s) \/ Usable(s))
            /\ \E failed : Leave(s, d, failed)
  <2>1. Head(jobs).within # "fail" /\ ~Bad(s)
    BY <1>10 DEF Want, Bad
  <2> QED
    BY <1>0, <1>1, <1>2, <1>3, <1>4, <1>10, <2>1, LeaveOutlook
<1>11. CASE Want(Head(jobs)) /\ DrainFirst(s, "rerelease")
  <2>1. Head(jobs).within # "fail"
    BY <1>11 DEF Want
  <2> QED
    BY <1>0, <1>1, <1>2, <1>11, <2>1, DrainFirstOutlook
<1>12. CASE DrainFirst(s, "release")
  BY <1>0, <1>1, <1>2, <1>12, DrainFirstOutlook
<1>13. CASE ~d.grabbed /\ \E failed : Leave(s, f, failed)
  BY <1>0, <1>1, <1>2, <1>3, <1>8, <1>13, LeaveOutlook
<1>14. CASE ~d.grabbed /\ Want(Head(jobs)) /\ TryGrab(s)
  <2>1. Head(jobs).within # "fail"
    BY <1>14 DEF Want
  <2> QED
    BY <1>0, <1>1, <1>2, <1>3, <1>14, <2>1, TryGrabOutlook
<1>15. \/ ~Open(d) /\ \E failed : Leave(s, e, failed)
       \/ /\ Want(Head(jobs)) /\ (~NeedsForwarding(s) \/ Usable(s))
          /\ \E failed : Leave(s, d, failed)
       \/ Want(Head(jobs)) /\ DrainFirst(s, "rerelease")
       \/ DrainFirst(s, "release")
       \/ ~d.grabbed /\ \E failed : Leave(s, f, failed)
       \/ ~d.grabbed /\ Want(Head(jobs)) /\ TryGrab(s)
  BY <1>1, <1>3, <1>5, <1>7, Zenon DEF EnterGrab
<1> QED
  BY <1>9, <1>10, <1>11, <1>12, <1>13, <1>14, <1>15

\* So does trying again after a grab was let go.
LEMMA RegrabOutlook ==
  ASSUME IInv, Outlook, Regrab
  PROVE  Outlook'
<1>0. TypeOK /\ Grabbing("regrab") /\ StepFrame
  BY DEF IInv, Regrab, StepFrame
<1>1. PICK s : s = Head(jobs).of
  OBVIOUS
<1>2. s \in Sources /\ Job("grab") /\ Head(jobs).stage = "regrab" /\ StageOf(jobs, s) = "regrab"
  BY <1>0, <1>1, AtGrab
<1>3. Steady(src[s], dev[s], "regrab")
  BY <1>2 DEF IInv, AllSteady
<1>4. ~dev[s].grabbed
  BY <1>3 DEF Steady, Shown
<1>5. TryGrab(s)
  BY <1>1 DEF Regrab
<1> QED
  BY <1>0, <1>1, <1>2, <1>4, <1>5, TryGrabOutlook

\* Probing the outputs.
LEMMA ProbeOutlook ==
  ASSUME IInv, Outlook, Probe
  PROVE  Outlook'
<1>0. /\ TypeOK /\ Grabbing("probe") /\ dev \in [Sources -> DevSet] /\ pass \in Passes
      /\ incomplete \in BOOLEAN
  BY DEF IInv, Probe, TypeOK, ReaderOK, Passes
<1>1. PICK s : s = Head(jobs).of
  OBVIOUS
<1>2. s \in Sources /\ Job("grab") /\ StageOf(jobs, s) = "probe" /\ Head(jobs).stage = "probe"
  BY <1>0, <1>1, AtGrab
<1>3. PICK probe : probe = (IF dev[s].foreign \/ pass.probe # -1 THEN pass.probe
                            ELSE IF OutputTapped THEN 1 ELSE 0)
  OBVIOUS
<1>4. \/ dev' = [dev EXCEPT ![s].tail = TRUE] /\ Done(dev'[s], FALSE, incomplete, probe)
      \/ At("settle") /\ pass' = [pass EXCEPT !.probe = probe] /\ UNCHANGED <<dev, incomplete>>
  BY <1>1, <1>3 DEF Probe
<1>5. StepFrame /\ src' = src /\ fwd' = fwd
  BY DEF Probe, kernel, outputs, StepFrame
<1>6. ~dev[s].grabbed /\ dev[s] \in DevSet
  BY <1>0, <1>2 DEF IInv, AllSteady, Steady, Shown
<1>7. CASE dev' = [dev EXCEPT ![s].tail = TRUE] /\ Done(dev'[s], FALSE, incomplete, probe)
  <2>1. PICK e : e = [dev[s] EXCEPT !.tail = TRUE]
    OBVIOUS
  <2>2. e.fd = dev[s].fd /\ e.grabbed = dev[s].grabbed
    BY <1>6, <2>1 DEF DevSet
  <2>3. dev'[s] = e /\ \A t \in Sources \ {s} : dev'[t] = dev[t]
    BY <1>0, <1>2, <1>7, <2>1
  <2>4. GrabFrame(s)
    BY <1>5, <2>3 DEF GrabFrame, StepFrame
  <2>5. PICK no : Done(e, no, incomplete, probe)
    BY <1>7, <2>3
  <2>6. /\ dev'[s].fd = dev[s].fd /\ ~dev'[s].grabbed
        /\ Open(dev'[s]) /\ ~dev'[s].grabbed => Open(e) /\ ~e.grabbed
    BY <1>6, <2>2, <2>3
  <2> QED
    BY <1>0, <1>1, <1>2, <2>4, <2>5, <2>6, DoneOutlook
<1>8. CASE At("settle") /\ pass' = [pass EXCEPT !.probe = probe] /\ UNCHANGED <<dev, incomplete>>
  <2>1. GrabFrame(s) /\ SameOutputs(s)
    BY <1>5, <1>8 DEF GrabFrame, StepFrame, SameOutputs
  <2>2. pass'.again = pass.again
    BY <1>0, <1>8 DEF Passes
  <2>3. PICK stage : stage = "settle"
    OBVIOUS
  <2>4. /\ stage \in Stages /\ At(stage) /\ Head(jobs).stage \in Taking
        /\ Head(jobs).stage \notin {"enter", "release"}
    BY <1>2, <1>8, <2>3 DEF Stages, Taking
  <2> QED
    BY <1>1, <1>2, <1>8, <2>1, <2>2, <2>4, AtOutlook
<1> QED
  BY <1>4, <1>7, <1>8

\* The last look at the keys.
LEMMA SettleOutlook ==
  ASSUME IInv, Outlook, Settle
  PROVE  Outlook'
<1>0. /\ TypeOK /\ Grabbing("settle") /\ dev \in [Sources -> DevSet]
      /\ incomplete \in BOOLEAN /\ src \in [Sources -> SrcSet] /\ fwd \in [Sources -> FwdSet]
  BY DEF IInv, Settle, TypeOK, ReaderOK, OutsideOK
<1>1. PICK s : s = Head(jobs).of
  OBVIOUS
<1>2. s \in Sources /\ Job("grab") /\ StageOf(jobs, s) = "settle" /\ Head(jobs).stage = "settle"
  BY <1>0, <1>1, AtGrab
<1>3. ~dev[s].grabbed /\ src[s] \in SrcSet
  BY <1>0, <1>2 DEF IInv, AllSteady, Steady, Shown
<1>4. PICK dr : dr = Drained(s, {})
  OBVIOUS
<1>5. PICK st0 : st0 = [dev |-> dev[s], fwd |-> fwd[s], incomplete |-> incomplete]
  OBVIOUS
<1>6. dr \in States /\ Alike(dr, st0)
  BY <1>0, <1>2, <1>4, <1>5, DrainedFacts
<1>7. PICK st : st = Settled(dr, s)
  OBVIOUS
<1>8. st \in States /\ Alike(st, dr)
  BY <1>0, <1>2, <1>6, <1>7, SettledFacts
<1>9. PICK c : c = st.dev
  OBVIOUS
<1>10. PICK r : r = st.incomplete
  OBVIOUS
<1>11. /\ c \in DevSet /\ c.fd = dev[s].fd /\ c.grabbed = dev[s].grabbed /\ c.ready = dev[s].ready
       /\ st.fwd.open = fwd[s].open /\ st.fwd.failed = fwd[s].failed
       /\ r \in BOOLEAN /\ (incomplete => r)
  BY <1>5, <1>6, <1>8, <1>9, <1>10 DEF States, Alike
<1>12. PICK d : d = Deferred(c, s)
  OBVIOUS
<1>13. d \in DevSet /\ d.fd = dev[s].fd /\ d.grabbed = dev[s].grabbed /\ d.ready = dev[s].ready
  BY <1>0, <1>2, <1>11, <1>12, DeferredFacts
<1>14. StepFrame
  BY DEF Settle, StepFrame
<1>15. CASE GoneWhileDrained(s, FALSE)
  <2>1. PICK e, failed, probe : Close(s, "closed") /\ Done(e, failed, incomplete, probe)
    BY <1>15 DEF GoneWhileDrained
  <2> QED
    BY <1>1, <1>2, <1>14, <2>1, ClosedOutlook
<1>16. CASE /\ dev' = [dev EXCEPT ![s] = d]
            /\ fwd' = [fwd EXCEPT ![s] = st.fwd]
            /\ \/ /\ Done(d, FALSE, r, pass.probe)
                  /\ src' = [src EXCEPT ![s].queue = <<>>]
               \/ /\ At("grab")
                  /\ incomplete' = r
                  /\ src' = [src EXCEPT ![s].queue = <<>>, ![s].slipped = @ \cap src[s].desk]
                  /\ UNCHANGED pass
  <2>1. /\ dev'[s] = d /\ \A t \in Sources \ {s} : dev'[t] = dev[t]
        /\ fwd'[s] = st.fwd /\ \A t \in Sources \ {s} : fwd'[t] = fwd[t]
    BY <1>0, <1>2, <1>16
  <2>2. \A t \in Sources : src'[t].plug = src[t].plug
    <3>1. PICK y : y = [src[s] EXCEPT !.queue = <<>>]
      OBVIOUS
    <3>2. PICK z : z = [src[s] EXCEPT !.queue = <<>>, !.slipped = @ \cap src[s].desk]
      OBVIOUS
    <3>3. y.plug = src[s].plug /\ z.plug = src[s].plug
      BY <1>3, <3>1, <3>2 DEF SrcSet
    <3>4. src' = [src EXCEPT ![s] = y] \/ src' = [src EXCEPT ![s] = z]
      BY <1>0, <1>2, <1>16, <3>1, <3>2
    <3> QED
      BY <1>0, <3>3, <3>4
  <2>3. GrabFrame(s) /\ SameOutputs(s)
    BY <1>11, <1>13, <1>14, <2>1, <2>2 DEF GrabFrame, StepFrame, SameOutputs
  <2>4. dev'[s].fd = dev[s].fd /\ ~dev'[s].grabbed
    BY <1>3, <1>13, <2>1
  <2>5. CASE Done(d, FALSE, r, pass.probe)
    <3>1. PICK no, probe : Done(d, no, r, probe)
      BY <2>5
    <3> QED
      BY <1>1, <1>2, <1>11, <2>1, <2>3, <2>4, <3>1, DoneOutlook
  <2>6. CASE At("grab") /\ incomplete' = r /\ UNCHANGED pass
    <3>1. PICK stage : stage = "grab"
      OBVIOUS
    <3>2. /\ stage \in Stages /\ At(stage) /\ Head(jobs).stage \in Taking
          /\ Head(jobs).stage \notin {"enter", "release"}
          /\ pass'.again = pass.again /\ (incomplete => incomplete')
      BY <1>2, <1>11, <2>6, <3>1 DEF Stages, Taking
    <3> QED
      BY <1>1, <1>2, <2>3, <2>4, <3>2, AtOutlook
  <2> QED
    BY <1>16, <2>5, <2>6
<1>17. \/ GoneWhileDrained(s, FALSE)
       \/ /\ dev' = [dev EXCEPT ![s] = d]
          /\ fwd' = [fwd EXCEPT ![s] = st.fwd]
          /\ IF Pressed(s) # {} \/ d.owed # {}
             THEN /\ Done(d, FALSE, r, pass.probe)
                  /\ src' = [src EXCEPT ![s].queue = <<>>]
             ELSE /\ At("grab")
                  /\ incomplete' = r
                  /\ src' = [src EXCEPT ![s].queue = <<>>, ![s].slipped = @ \cap src[s].desk]
                  /\ UNCHANGED pass
  BY <1>1, <1>4, <1>7, <1>9, <1>10, <1>12 DEF Settle
<1> QED
  BY <1>15, <1>16, <1>17

\* EVIOCGRAB(on): outputs that stopped working since they were looked at are still
\* to be looked at again.
LEMMA GrabOutlook ==
  ASSUME IInv, Outlook, Grab
  PROVE  Outlook'
<1>0. /\ TypeOK /\ Grabbing("grab") /\ dev \in [Sources -> DevSet]
      /\ incomplete \in BOOLEAN /\ src \in [Sources -> SrcSet]
  BY DEF IInv, Grab, TypeOK, ReaderOK, OutsideOK
<1>1. PICK s : s = Head(jobs).of
  OBVIOUS
<1>2. s \in Sources /\ Job("grab") /\ Head(jobs).stage = "grab"
  BY <1>0, <1>1, AtGrab
<1>3. PICK works : works = (dev[s].fd = "open" /\ src[s].owner = "none")
  OBVIOUS
<1>4. PICK d : d = [dev[s] EXCEPT !.grabbed = works, !.tail = @ /\ ~works,
                      !.foreign = dev[s].fd = "open" /\ src[s].owner = "other"]
  OBVIOUS
<1>5. dev[s] \in DevSet /\ src[s] \in SrcSet
  BY <1>0, <1>2
<1>6. d.fd = dev[s].fd /\ d.grabbed = works /\ d.ready = dev[s].ready
  BY <1>4, <1>5 DEF DevSet
<1>7. /\ dev' = [dev EXCEPT ![s] = d]
      /\ src' = [src EXCEPT ![s].owner = IF works THEN "us" ELSE @]
      /\ Done(d, ~works, incomplete, pass.probe)
  BY <1>1, <1>3, <1>4 DEF Grab
<1>8. dev'[s] = d /\ \A t \in Sources \ {s} : dev'[t] = dev[t]
  BY <1>0, <1>2, <1>7
<1>9. \A t \in Sources : src'[t].plug = src[t].plug
  <2>1. PICK y : y = [src[s] EXCEPT !.owner = IF works THEN "us" ELSE @]
    OBVIOUS
  <2>2. y.plug = src[s].plug
    BY <1>5, <2>1 DEF SrcSet
  <2>3. src' = [src EXCEPT ![s] = y]
    BY <1>0, <1>2, <1>7, <2>1
  <2> QED
    BY <1>0, <2>2, <2>3
<1>10. StepFrame /\ fwd' = fwd
  BY DEF Grab, StepFrame, outputs
<1>11. GrabFrame(s) /\ SameOutputs(s)
  BY <1>6, <1>8, <1>9, <1>10 DEF GrabFrame, StepFrame, SameOutputs
<1>12. Bad(s)' <=> Bad(s)
  BY <1>10, <1>11, BadSame DEF StepFrame
<1>13. PICK failed, probe : Done(d, failed, incomplete, probe)
  BY <1>7
<1>14. /\ dev'[s].fd = dev[s].fd /\ (dev'[s].grabbed => Open(dev'[s]))
       /\ Head(jobs).stage \in Taking /\ Head(jobs).stage \notin {"enter", "release"}
  BY <1>2, <1>3, <1>6, <1>8 DEF Open, Taking
<1> QED
  BY <1>0, <1>1, <1>2, <1>8, <1>11, <1>12, <1>13, <1>14, DoneOutlook

\* EVIOCGRAB(off), or closing the descriptor.
LEMMA ReleaseOutlook ==
  ASSUME IInv, Outlook, Release
  PROVE  Outlook'
<1>0. /\ TypeOK /\ dev \in [Sources -> DevSet]
      /\ incomplete \in BOOLEAN /\ src \in [Sources -> SrcSet] /\ fwd \in [Sources -> FwdSet]
  BY DEF IInv, TypeOK, ReaderOK, OutsideOK
<1>1. PICK s : s = Head(jobs).of
  OBVIOUS
<1>2. PICK stage \in {"release", "rerelease"} : Grabbing(stage)
  BY DEF Release
<1>3. s \in Sources /\ Job("grab") /\ Head(jobs).stage = stage
  BY <1>0, <1>1, <1>2, AtGrab
<1>4. src[s] \in SrcSet /\ dev[s] \in DevSet
  BY <1>0, <1>3
<1>5. StepFrame
  BY DEF Release, StepFrame
<1>6. PICK d : d = [dev[s] EXCEPT !.grabbed = FALSE, !.deferred = FALSE, !.tail = FALSE,
                      !.foreign = FALSE, !.owed = fwd[s].held]
  OBVIOUS
<1>7. d.fd = dev[s].fd /\ ~d.grabbed /\ d.ready = dev[s].ready
  BY <1>4, <1>6 DEF DevSet
<1>8. CASE /\ src' = [src EXCEPT ![s].owner = "none"]
           /\ dev' = [dev EXCEPT ![s] = d]
           /\ IF Head(jobs).stage = "release" THEN Done(d, FALSE, incomplete, pass.probe)
              ELSE At("regrab") /\ UNCHANGED <<incomplete, pass>>
           /\ UNCHANGED <<fwd, tapped, faults>>
  <2>1. dev'[s] = d /\ \A t \in Sources \ {s} : dev'[t] = dev[t]
    BY <1>0, <1>3, <1>8
  <2>2. \A t \in Sources : src'[t].plug = src[t].plug
    <3>1. PICK y : y = [src[s] EXCEPT !.owner = "none"]
      OBVIOUS
    <3>2. y.plug = src[s].plug
      BY <1>4, <3>1 DEF SrcSet
    <3>3. src' = [src EXCEPT ![s] = y]
      BY <1>0, <1>3, <1>8, <3>1
    <3> QED
      BY <1>0, <3>2, <3>3
  <2>3. GrabFrame(s) /\ SameOutputs(s)
    BY <1>5, <1>7, <1>8, <2>1, <2>2 DEF GrabFrame, StepFrame, SameOutputs
  <2>4. dev'[s].fd = dev[s].fd /\ ~dev'[s].grabbed
    BY <1>7, <2>1
  <2>5. CASE stage = "release"
    <3>1. PICK no, probe : Done(d, no, incomplete, probe)
      BY <1>3, <1>8, <2>5
    <3> QED
      BY <1>0, <1>1, <1>3, <2>1, <2>3, <2>4, <3>1, DoneOutlook
  <2>6. CASE stage = "rerelease"
    <3>1. PICK next : next = "regrab"
      OBVIOUS
    <3>2. /\ next \in Stages /\ At(next) /\ next \notin Taking
          /\ Head(jobs).stage \notin {"enter", "release"}
          /\ pass'.again = pass.again /\ (incomplete => incomplete')
      BY <1>3, <1>8, <2>6, <3>1 DEF Stages, Taking
    <3> QED
      BY <1>1, <1>3, <2>3, <2>4, <3>2, AtOutlook
  <2> QED
    BY <2>5, <2>6
<1>9. CASE /\ Close(s, "closed")
           /\ Done(Untracked, TRUE, incomplete, pass.probe)
  <2>1. PICK e, failed, probe : Done(e, failed, incomplete, probe)
    BY <1>9
  <2> QED
    BY <1>1, <1>3, <1>5, <1>9, <2>1, ClosedOutlook
<1> QED
  BY <1>1, <1>6, <1>8, <1>9 DEF Release
-----------------------------------------------------------------------------
(* The outlook after a step that leaves the jobs alone *)

\* Such a step raises failure_pending when it spoils the outputs of a grab.
LEMMA SameJobsOutlook ==
  ASSUME IInv, Outlook, SinkInOrder', jobs' = jobs, pass' = pass, incomplete => incomplete',
         failure => failure', torn => torn',
         \A t \in Sources :
           /\ dev'[t].grabbed => dev[t].grabbed
           /\ Released(t)' /\ Found(t)' /\ ReturnLast(t)'
           /\ Bad(t)' => Bad(t) \/ failure' \/ torn' \/ (~dev'[t].grabbed /\ jobs = <<>>)
           /\ Missed(t)' => Missed(t)
  PROVE  Outlook'
<1>1. JobsInOrder'
  <2>0. JobsInOrder
    BY DEF Outlook
  <2>1. RetireOK'
    <3> SUFFICES ASSUME jobs # <<>>, Head(jobs).op = "retire", ~dev[Head(jobs).of].grabbed
                 PROVE  ~dev'[Head(jobs).of].grabbed
      BY <2>0 DEF JobsInOrder, RetireOK
    <3>1. Head(jobs).of \in Sources
      BY JobFacts, OtherFacts DEF IInv, TypeOK, ReaderOK
    <3> QED
      BY <3>1
  <2> QED
    BY <2>0, <2>1 DEF JobsInOrder, PassWhole, FailNoted
<1>2. ASSUME NEW t \in Sources PROVE Watched(t)' /\ Retried(t)'
  <2>0. Watched(t) /\ Retried(t)
    BY DEF Outlook
  <2>1. Retried(t)'
    BY <2>0 DEF Retried
  <2>2. Watched(t)'
    <3> SUFFICES ASSUME Bad(t)', dev'[t].grabbed \/ StageOf(jobs, t) \in Taking, ~failure', ~torn'
                 PROVE  CheckTodo(jobs, t)
      BY DEF Watched
    <3>1. jobs = <<>> => StageOf(jobs, t) \notin Taking
      BY DEF StageOf, Taking
    <3>2. Bad(t)
      BY <3>1
    <3> QED
      BY <2>0, <3>2 DEF Watched
  <2> QED
    BY <2>1, <2>2
<1> QED
  BY <1>1, <1>2 DEF Outlook

\* A source is heard of as before.
LEMMA SameEvents ==
  ASSUME Outlook, NEW t \in Sources, udev' = udev, mode' = mode,
         src'[t].plug = "ready" => src[t].plug = "ready", dev'[t].fd = "none" => dev[t].fd = "none",
         SeeTodo(jobs, t) => SeeTodo(jobs', t)
  PROVE  Found(t)' /\ ReturnLast(t)'
<1>1. Found(t) /\ ReturnLast(t)
  BY DEF Outlook
<1>2. Heard(t)' => Heard(t)
  BY DEF Heard
<1> QED
  BY <1>1, <1>2 DEF Found, ReturnLast

\* An announcement comes after what is waiting.
LEMMA AnnounceMeans ==
  ASSUME TypeOK, NEW act \in {"add", "remove"}, NEW n \in Nodes, Announce(act, n)
  PROVE  /\ ToSet(udev') \subseteq ToSet(udev) \cup {[act |-> act, node |-> n]}
         /\ \A t : AddTodo(udev, t) => AddTodo(udev', t)
         /\ \A t : Returned(udev, t) /\ ~(act = "remove" /\ IsSource(n, t)) => Returned(udev', t)
         /\ \A t : act = "add" /\ IsSource(n, t) /\ mode.started /\ mode.monitor
                     => Returned(udev', t) /\ AddTodo(udev', t)
<1>1. CASE ~(mode.started /\ mode.monitor)
  BY <1>1 DEF Announce
<1>2. CASE mode.started /\ mode.monitor
  <2>1. PICK e : e = [act |-> act, node |-> n]
    OBVIOUS
  <2>2. e.act = act /\ e.node = n
    BY <2>1
  <2>3. PICK E : E = [act : {"add", "remove"}, node : Nodes]
    OBVIOUS
  <2>4. udev \in Seq(E) /\ e \in E
    BY <2>1, <2>3 DEF TypeOK, OutsideOK
  <2>5. udev' = Append(udev, e)
    BY <1>2, <2>1 DEF Announce
  <2>6. PICK u : u = udev'
    OBVIOUS
  <2>7. /\ u \in Seq(E) /\ Len(u) = Len(udev) + 1 /\ Len(udev) \in Nat
        /\ u[Len(udev) + 1] = e /\ \A i \in 1..Len(udev) : u[i] = udev[i]
        /\ DOMAIN u = 1..Len(u) /\ DOMAIN udev = 1..Len(udev)
    BY <2>4, <2>5, <2>6
  <2>8. ToSet(u) = ToSet(udev) \cup {e}
    <3>1. ASSUME NEW x \in ToSet(u) PROVE x \in ToSet(udev) \cup {e}
      <4>1. PICK i \in 1..Len(u) : x = u[i]
        BY <2>7 DEF ToSet
      <4>2. CASE i = Len(udev) + 1
        BY <4>1, <4>2, <2>7
      <4>3. CASE i # Len(udev) + 1
        <5>1. i \in 1..Len(udev)
          BY <4>3, <2>7
        <5> QED
          BY <4>1, <5>1, <2>7 DEF ToSet
      <4> QED
        BY <4>2, <4>3
    <3>2. e \in ToSet(u)
      <4>1. Len(udev) + 1 \in DOMAIN u
        BY <2>7
      <4> QED
        BY <4>1, <2>7 DEF ToSet
    <3>3. ASSUME NEW x \in ToSet(udev) PROVE x \in ToSet(u)
      <4>1. PICK i \in 1..Len(udev) : x = udev[i]
        BY <2>7 DEF ToSet
      <4>2. i \in DOMAIN u /\ u[i] = x
        BY <4>1, <2>7
      <4> QED
        BY <4>2 DEF ToSet
    <3> QED
      BY <3>1, <3>2, <3>3
  <2>9. \A t : AddTodo(udev, t) => AddTodo(u, t)
    BY <2>8 DEF AddTodo
  <2>10. ASSUME NEW t, Returned(udev, t), ~(act = "remove" /\ IsSource(n, t)) PROVE Returned(u, t)
    <3> SUFFICES ASSUME NEW i \in 1..Len(u), u[i].act = "remove", IsSource(u[i].node, t)
                 PROVE  \E k \in 1..Len(u) : i < k /\ u[k].act = "add" /\ IsSource(u[k].node, t)
      BY DEF Returned
    <3>1. i \in 1..Len(udev)
      BY <2>2, <2>7, <2>10
    <3>2. PICK k \in 1..Len(udev) : i < k /\ udev[k].act = "add" /\ IsSource(udev[k].node, t)
      BY <3>1, <2>7, <2>10 DEF Returned
    <3>3. k \in 1..Len(u) /\ u[k] = udev[k]
      BY <2>7
    <3> QED
      BY <3>2, <3>3
  <2>11. ASSUME NEW t, act = "add", IsSource(n, t) PROVE Returned(u, t) /\ AddTodo(u, t)
    <3>1. AddTodo(u, t)
      BY <2>2, <2>8, <2>11 DEF AddTodo
    <3> SUFFICES ASSUME NEW i \in 1..Len(u), u[i].act = "remove", IsSource(u[i].node, t)
                 PROVE  \E k \in 1..Len(u) : i < k /\ u[k].act = "add" /\ IsSource(u[k].node, t)
      BY <3>1 DEF Returned
    <3>2. i # Len(udev) + 1
      BY <2>2, <2>7, <2>11
    <3>3. i < Len(udev) + 1 /\ Len(udev) + 1 \in 1..Len(u)
      BY <2>7, <3>2
    <3> QED
      BY <3>3, <2>2, <2>7, <2>11
  <2> QED
    BY <2>1, <2>6, <2>8, <2>9, <2>10, <2>11
<1> QED
  BY <1>1, <1>2

\* An announcement keeps a source heard of, unless it is of its removal.
LEMMA AnnounceEvents ==
  ASSUME IInv, Outlook, NEW act \in {"add", "remove"}, NEW n \in Nodes, Announce(act, n),
         mode' = mode, jobs' = jobs, NEW t \in Sources,
         act = "remove" /\ IsSource(n, t) => src'[t].plug # "ready",
         ~(act = "add" /\ IsSource(n, t)) => (src'[t].plug = "ready" => src[t].plug = "ready"),
         dev'[t].fd = "none" => dev[t].fd = "none"
  PROVE  Found(t)' /\ ReturnLast(t)'
<1>0. TypeOK /\ Found(t) /\ ReturnLast(t)
  BY DEF IInv, Outlook
<1>1. /\ AddTodo(udev, t) => AddTodo(udev', t)
      /\ Returned(udev, t) /\ ~(act = "remove" /\ IsSource(n, t)) => Returned(udev', t)
      /\ act = "add" /\ IsSource(n, t) /\ mode.started /\ mode.monitor
           => Returned(udev', t) /\ AddTodo(udev', t)
  BY <1>0, AnnounceMeans
<1>2. CASE act = "add" /\ IsSource(n, t)
  BY <1>1, <1>2 DEF Found, ReturnLast, Heard
<1>3. CASE ~(act = "add" /\ IsSource(n, t))
  <2>1. Heard(t)' => Heard(t) /\ ~(act = "remove" /\ IsSource(n, t))
    BY <1>3 DEF Heard
  <2> QED
    BY <1>0, <1>1, <2>1 DEF Found, ReturnLast
<1> QED
  BY <1>2, <1>3

\* The world leaves the reader and the outputs alone.
LEMMA QuietOutlook ==
  ASSUME IInv, Outlook, UNCHANGED <<udev, fwd, sink, failure, reader>>,
         \A t \in Sources : src'[t].plug = "ready" => src[t].plug = "ready"
  PROVE  Outlook'
<1>1. /\ udev' = udev /\ fwd' = fwd /\ sink' = sink /\ failure' = failure /\ dev' = dev
      /\ sinks' = sinks /\ jobs' = jobs /\ pass' = pass /\ incomplete' = incomplete
      /\ masks' = masks /\ torn' = torn /\ mode' = mode
  BY DEF reader
<1>2. SinkInOrder'
  BY <1>1 DEF Outlook, SinkInOrder
<1>3. ASSUME NEW t \in Sources
      PROVE  /\ Released(t)' /\ Found(t)' /\ ReturnLast(t)' /\ (Bad(t)' => Bad(t))
             /\ Missed(t)' => Missed(t)
  <2>1. Released(t)'
    BY <1>1 DEF Outlook, Released
  <2>2. Found(t)' /\ ReturnLast(t)'
    BY <1>1, SameEvents
  <2>3. Bad(t)' <=> Bad(t)
    <3>1. SameOutputs(t)
      BY <1>1 DEF SameOutputs
    <3> QED
      BY <1>1, <3>1, BadSame
  <2>4. Missed(t)' => Missed(t)
    BY <1>1 DEF Missed, ShouldGrab, Keyboard, MouseHook, MouseBlock, Mouse
  <2> QED
    BY <2>1, <2>2, <2>3, <2>4
<1> QED
  BY <1>1, <1>2, <1>3, SameJobsOutlook

\* Plugging in, keys and other interceptors.
LEMMA WorldOutlook ==
  ASSUME IInv, Outlook,
         \/ \E s \in Sources : Plug(s) \/ Foreign(s) \/ \E k \in Keys : Key(s, k)
         \/ \E o \in Sources \cup {"sink"} : Tap(o)
  PROVE  Outlook'
<1>0. src \in [Sources -> SrcSet]
  BY DEF IInv, TypeOK, OutsideOK
<1>1. ASSUME NEW s \in Sources, Plug(s) PROVE Outlook'
  <2>1. UNCHANGED <<udev, fwd, sink, failure, reader>> /\ src' = [src EXCEPT ![s].plug = "raw"]
    BY <1>1 DEF Plug, outputs
  <2>2. PICK y : y = [src[s] EXCEPT !.plug = "raw"]
    OBVIOUS
  <2>3. src' = [src EXCEPT ![s] = y] /\ y.plug = "raw"
    BY <1>0, <2>1, <2>2 DEF SrcSet
  <2>4. \A t \in Sources : src'[t].plug = "ready" => src[t].plug = "ready"
    BY <1>0, <2>3
  <2> QED
    BY <2>1, <2>4, QuietOutlook
<1>2. ASSUME NEW s \in Sources, Foreign(s) PROVE Outlook'
  <2>1. UNCHANGED <<udev, fwd, sink, failure, reader>>
    BY <1>2 DEF Foreign, outputs
  <2>2. PICK y : y = [src[s] EXCEPT !.owner = "other", !.desk = {}]
    OBVIOUS
  <2>3. PICK z : z = [src[s] EXCEPT !.owner = "none"]
    OBVIOUS
  <2>4. src' = [src EXCEPT ![s] = y] \/ src' = [src EXCEPT ![s] = z]
    BY <1>0, <1>2, <2>2, <2>3 DEF Foreign
  <2>5. y.plug = src[s].plug /\ z.plug = src[s].plug
    BY <1>0, <2>2, <2>3 DEF SrcSet
  <2>6. \A t \in Sources : src'[t].plug = "ready" => src[t].plug = "ready"
    BY <1>0, <2>4, <2>5
  <2> QED
    BY <2>1, <2>6, QuietOutlook
<1>3. ASSUME NEW s \in Sources, NEW k \in Keys, Key(s, k) PROVE Outlook'
  <2>1. UNCHANGED <<udev, fwd, sink, failure, reader>>
    BY <1>3 DEF Key, outputs
  <2>2. PICK down, desk, queue, slipped :
          src' = [src EXCEPT ![s].down = down, ![s].desk = desk, ![s].queue = queue, ![s].slipped = slipped]
    BY <1>3 DEF Key
  <2>3. PICK y : y = [src[s] EXCEPT !.down = down, !.desk = desk, !.queue = queue, !.slipped = slipped]
    OBVIOUS
  <2>4. src' = [src EXCEPT ![s] = y] /\ y.plug = src[s].plug
    BY <1>0, <2>2, <2>3 DEF SrcSet
  <2>5. \A t \in Sources : src'[t].plug = "ready" => src[t].plug = "ready"
    BY <1>0, <2>4
  <2> QED
    BY <2>1, <2>5, QuietOutlook
<1>4. ASSUME NEW o, Tap(o) PROVE Outlook'
  <2>1. UNCHANGED <<udev, fwd, sink, failure, reader>> /\ src' = src
    BY <1>4 DEF Tap, outputs
  <2> QED
    BY <2>1, QuietOutlook
<1> QED
  BY <1>1, <1>2, <1>3, <1>4

\* Nodes that udev initializes, sources that leave.
LEMMA EventOutlook ==
  ASSUME IInv, Outlook, NEW act \in {"add", "remove"}, NEW n \in Nodes, Announce(act, n),
         ~(act = "remove" /\ n.kind = "sink"),
         UNCHANGED <<failure, sinks, jobs, pass, incomplete, masks, torn, mode>>,
         sink'.gen = sink.gen, sink'.id = sink.id, sink'.up = sink.up,
         \A t \in Sources :
           /\ SameOutputs(t) /\ dev'[t].grabbed = dev[t].grabbed /\ (Open(dev'[t]) <=> Open(dev[t]))
           /\ dev'[t].fd = "none" => dev[t].fd = "none"
           /\ act = "remove" /\ IsSource(n, t) => src'[t].plug # "ready"
           /\ ~(act = "add" /\ IsSource(n, t)) => (src'[t].plug = "ready" => src[t].plug = "ready")
  PROVE  Outlook'
<1>0. TypeOK
  BY DEF IInv
<1>1. SinkInOrder'
  <2>0. SinkInOrder
    BY DEF Outlook
  <2>1. ASSUME NEW e \in ToSet(udev'), e.act = "remove", e.node.kind = "sink" PROVE e.node.id < sink.gen
    <3>1. ToSet(udev') \subseteq ToSet(udev) \cup {[act |-> act, node |-> n]}
      BY <1>0, AnnounceMeans
    <3>2. e # [act |-> act, node |-> n]
      BY <2>1
    <3>3. e \in ToSet(udev)
      BY <3>1, <3>2
    <3> QED
      BY <2>0, <2>1, <3>3 DEF SinkInOrder
  <2> QED
    BY <2>0, <2>1 DEF SinkInOrder
<1>2. ASSUME NEW t \in Sources
      PROVE  /\ Released(t)' /\ Found(t)' /\ ReturnLast(t)' /\ (Bad(t)' => Bad(t))
             /\ Missed(t)' => Missed(t)
  <2>1. Released(t)'
    BY DEF Outlook, Released
  <2>2. Found(t)' /\ ReturnLast(t)'
    BY AnnounceEvents
  <2>3. Bad(t)' <=> Bad(t)
    BY BadSame
  <2>4. Missed(t)' => Missed(t)
    BY DEF Missed, ShouldGrab, Keyboard, MouseHook, MouseBlock, Mouse
  <2> QED
    BY <2>1, <2>2, <2>3, <2>4
<1> QED
  BY <1>1, <1>2, SameJobsOutlook

\* udev has initialized a node.
LEMMA InitializeOutlook ==
  ASSUME IInv, Outlook, Initialize
  PROVE  Outlook'
<1>0. /\ TypeOK /\ src \in [Sources -> SrcSet] /\ fwd \in [Sources -> FwdSet] /\ sink \in SinkSet
  BY DEF IInv, TypeOK, OutsideOK
<1>1. PICK act : act = "add"
  OBVIOUS
<1>2. ASSUME NEW s \in Sources, Initialized(s) PROVE Outlook'
  <2>1. PICK n \in Nodes : n = SourceNode(s)
    BY <1>0, NodeFacts
  <2>2. /\ Announce(act, n) /\ src' = [src EXCEPT ![s].plug = "ready"]
        /\ UNCHANGED <<outputs, reader>>
    BY <1>1, <1>2, <2>1 DEF Initialized
  <2>3. /\ dev' = dev /\ fwd' = fwd /\ sink' = sink
        /\ UNCHANGED <<failure, sinks, jobs, pass, incomplete, masks, torn, mode>>
    BY <2>2 DEF outputs, reader
  <2>4. \A t \in Sources \ {s} : src'[t] = src[t]
    BY <1>0, <2>2
  <2>5. IsSource(n, s)
    BY <2>1 DEF SourceNode, IsSource
  <2>6. ASSUME NEW t \in Sources
        PROVE  /\ SameOutputs(t) /\ dev'[t].grabbed = dev[t].grabbed /\ (Open(dev'[t]) <=> Open(dev[t]))
               /\ dev'[t].fd = "none" => dev[t].fd = "none"
               /\ act = "remove" /\ IsSource(n, t) => src'[t].plug # "ready"
               /\ ~(act = "add" /\ IsSource(n, t)) => (src'[t].plug = "ready" => src[t].plug = "ready")
    BY <1>1, <2>3, <2>4, <2>5 DEF SameOutputs
  <2> QED
    BY <1>1, <2>2, <2>3, <2>6, EventOutlook
<1>3. ASSUME NEW s \in Sources, CloneInitialized(s) PROVE Outlook'
  <2>1. PICK n \in Nodes : n = CloneNode(s)
    BY <1>0, NodeFacts
  <2>2. /\ Announce(act, n) /\ fwd' = [fwd EXCEPT ![s].node = "ready"]
        /\ UNCHANGED <<src, sink, failure, reader>>
    BY <1>1, <1>3, <2>1 DEF CloneInitialized
  <2>3. /\ dev' = dev /\ src' = src /\ sink' = sink
        /\ UNCHANGED <<failure, sinks, jobs, pass, incomplete, masks, torn, mode>>
    BY <2>2 DEF reader
  <2>4. PICK f : f = [fwd[s] EXCEPT !.node = "ready"]
    OBVIOUS
  <2>5. fwd' = [fwd EXCEPT ![s] = f] /\ f.open = fwd[s].open /\ f.failed = fwd[s].failed
    BY <1>0, <2>2, <2>4 DEF FwdSet
  <2>6. ASSUME NEW t \in Sources
        PROVE  /\ SameOutputs(t) /\ dev'[t].grabbed = dev[t].grabbed /\ (Open(dev'[t]) <=> Open(dev[t]))
               /\ dev'[t].fd = "none" => dev[t].fd = "none"
               /\ act = "remove" /\ IsSource(n, t) => src'[t].plug # "ready"
               /\ ~(act = "add" /\ IsSource(n, t)) => (src'[t].plug = "ready" => src[t].plug = "ready")
    <3>1. fwd'[t].open = fwd[t].open /\ fwd'[t].failed = fwd[t].failed
      BY <1>0, <2>5
    <3> QED
      BY <1>1, <2>3, <3>1 DEF SameOutputs
  <2> QED
    BY <1>1, <2>2, <2>3, <2>6, EventOutlook
<1>4. ASSUME SinkInitialized PROVE Outlook'
  <2>1. PICK n \in Nodes : n = SinkNode
    BY <1>0, NodeFacts
  <2>2. /\ Announce(act, n) /\ sink' = [sink EXCEPT !.node = "ready"]
        /\ UNCHANGED <<src, fwd, failure, reader>>
    BY <1>1, <1>4, <2>1 DEF SinkInitialized
  <2>3. /\ dev' = dev /\ src' = src /\ fwd' = fwd
        /\ UNCHANGED <<failure, sinks, jobs, pass, incomplete, masks, torn, mode>>
    BY <2>2 DEF reader
  <2>4. sink'.gen = sink.gen /\ sink'.id = sink.id /\ sink'.up = sink.up
    BY <1>0, <2>2 DEF SinkSet
  <2>5. ASSUME NEW t \in Sources
        PROVE  /\ SameOutputs(t) /\ dev'[t].grabbed = dev[t].grabbed /\ (Open(dev'[t]) <=> Open(dev[t]))
               /\ dev'[t].fd = "none" => dev[t].fd = "none"
               /\ act = "remove" /\ IsSource(n, t) => src'[t].plug # "ready"
               /\ ~(act = "add" /\ IsSource(n, t)) => (src'[t].plug = "ready" => src[t].plug = "ready")
    BY <1>1, <2>3 DEF SameOutputs
  <2> QED
    BY <1>1, <2>2, <2>3, <2>4, <2>5, EventOutlook
<1> QED
  BY <1>2, <1>3, <1>4 DEF Initialize

\* A source is unplugged, or moves to another seat.
LEMMA LeavingOutlook ==
  ASSUME IInv, Outlook, NEW s \in Sources, Unplug(s) \/ Reseat(s)
  PROVE  Outlook'
<1>0. TypeOK /\ src \in [Sources -> SrcSet] /\ dev \in [Sources -> DevSet]
  BY DEF IInv, TypeOK, OutsideOK, ReaderOK
<1>1. PICK act : act = "remove"
  OBVIOUS
<1>2. PICK n \in Nodes : n = SourceNode(s)
  BY <1>0, NodeFacts
<1>3. n.kind = "source" /\ \A t : IsSource(n, t) => t = s
  BY <1>2 DEF SourceNode, IsSource
<1>4. PICK y : y.plug # "ready" /\ src' = [src EXCEPT ![s] = y]
  <2>1. CASE Unplug(s)
    BY <2>1 DEF Unplug, Unplugged
  <2>2. CASE Reseat(s)
    <3>1. PICK y : y = [src[s] EXCEPT !.plug = "away"]
      OBVIOUS
    <3>2. y.plug = "away" /\ src' = [src EXCEPT ![s] = y]
      BY <1>0, <2>2, <3>1 DEF Reseat, SrcSet
    <3> QED
      BY <3>2
  <2> QED
    BY <2>1, <2>2
<1>5. src'[s].plug # "ready" /\ \A t \in Sources \ {s} : src'[t] = src[t]
  BY <1>0, <1>4
<1>6. /\ fwd' = fwd /\ sink' = sink
      /\ UNCHANGED <<failure, sinks, jobs, pass, incomplete, masks, torn, mode>>
  BY DEF Unplug, Reseat, outputs, reader
<1>7. ASSUME NEW t \in Sources
      PROVE  /\ dev'[t].grabbed = dev[t].grabbed /\ dev'[t].ready = dev[t].ready
             /\ Open(dev'[t]) <=> Open(dev[t])
             /\ dev'[t].fd = "none" => dev[t].fd = "none"
  <2>1. CASE Reseat(s)
    BY <2>1 DEF Reseat, reader
  <2>2. CASE Unplug(s)
    <3>1. PICK d : d = [dev[s] EXCEPT !.fd = IF @ = "open" THEN "stale" ELSE @]
      OBVIOUS
    <3>2. dev' = [dev EXCEPT ![s] = d]
      BY <1>0, <2>2, <3>1 DEF Unplug
    <3>3. /\ d.grabbed = dev[s].grabbed /\ d.ready = dev[s].ready
          /\ d.fd = IF dev[s].fd = "open" THEN "stale" ELSE dev[s].fd
      BY <1>0, <3>1 DEF DevSet
    <3>4. (Open(d) <=> Open(dev[s])) /\ (d.fd = "none" => dev[s].fd = "none")
      BY <3>3 DEF Open
    <3>5. CASE t = s
      BY <1>0, <3>2, <3>3, <3>4, <3>5
    <3>6. CASE t # s
      BY <1>0, <3>2, <3>6
    <3> QED
      BY <3>5, <3>6
  <2> QED
    BY <2>1, <2>2
<1>8. \A t \in Sources : SameOutputs(t)
  BY <1>6, <1>7 DEF SameOutputs
<1>9. CASE Announce(act, n)
  <2>1. ASSUME NEW t \in Sources
        PROVE  /\ act = "remove" /\ IsSource(n, t) => src'[t].plug # "ready"
               /\ ~(act = "add" /\ IsSource(n, t)) => (src'[t].plug = "ready" => src[t].plug = "ready")
    BY <1>3, <1>5
  <2> QED
    BY <1>1, <1>3, <1>6, <1>7, <1>8, <1>9, <2>1, EventOutlook
<1>10. CASE udev' = udev
  <2>1. SinkInOrder'
    BY <1>6, <1>10 DEF Outlook, SinkInOrder
  <2>2. ASSUME NEW t \in Sources
        PROVE  /\ Released(t)' /\ Found(t)' /\ ReturnLast(t)' /\ (Bad(t)' => Bad(t))
               /\ Missed(t)' => Missed(t)
    <3>1. Released(t)'
      BY <1>7 DEF Outlook, Released
    <3>2. src'[t].plug = "ready" => src[t].plug = "ready"
      BY <1>5
    <3>3. Found(t)' /\ ReturnLast(t)'
      BY <1>6, <1>7, <1>10, <3>2, SameEvents
    <3>4. Bad(t)' <=> Bad(t)
      BY <1>6, <1>8, BadSame
    <3>5. Missed(t)' => Missed(t)
      BY <1>6, <1>7 DEF Missed, ShouldGrab, Keyboard, MouseHook, MouseBlock, Mouse
    <3> QED
      BY <3>1, <3>3, <3>4, <3>5
  <2> QED
    BY <1>6, <1>7, <2>1, <2>2, SameJobsOutlook
<1> QED
  BY <1>1, <1>2, <1>9, <1>10 DEF Unplug, Reseat
-----------------------------------------------------------------------------
(* The outlook after something happened to the outputs *)

\* What spoils the outputs of a grab raises failure_pending.
LEMMA OutputOutlook ==
  ASSUME IInv, Outlook, UNCHANGED <<src, reader>>, failure => failure', SinkInOrder',
         \/ udev' = udev
         \/ \E act \in {"remove"} : \E n \in Nodes : n.kind = "sink" /\ Announce(act, n),
         \A t \in Sources : Bad(t)' => Bad(t) \/ failure' \/ torn
  PROVE  Outlook'
<1>1. /\ src' = src /\ dev' = dev /\ sinks' = sinks /\ jobs' = jobs /\ pass' = pass
      /\ incomplete' = incomplete /\ masks' = masks /\ torn' = torn /\ mode' = mode
  BY DEF reader
<1>2. ASSUME NEW t \in Sources
      PROVE  Released(t)' /\ Found(t)' /\ ReturnLast(t)' /\ (Missed(t)' => Missed(t))
  <2>1. Released(t)'
    BY <1>1 DEF Outlook, Released
  <2>2. Missed(t)' => Missed(t)
    BY <1>1 DEF Missed, ShouldGrab, Keyboard, MouseHook, MouseBlock, Mouse
  <2>3. CASE udev' = udev
    BY <1>1, <2>1, <2>2, <2>3, SameEvents
  <2>4. ASSUME NEW act \in {"remove"}, NEW n \in Nodes, n.kind = "sink", Announce(act, n)
        PROVE  Found(t)' /\ ReturnLast(t)'
    <3>1. ~IsSource(n, t) /\ act \in {"add", "remove"}
      BY <2>4 DEF IsSource
    <3> QED
      BY <1>1, <2>4, <3>1, AnnounceEvents
  <2> QED
    BY <2>1, <2>2, <2>3, <2>4
<1> QED
  BY <1>1, <1>2, SameJobsOutlook

\* The events that wait, and the rest after the first one.
LEMMA EventFacts ==
  ASSUME TypeOK
  PROVE  /\ \A e \in ToSet(udev) : e.act \in {"add", "remove"} /\ e.node \in Nodes
         /\ udev # <<>> =>
              /\ Head(udev) \in ToSet(udev) /\ ToSet(Tail(udev)) \subseteq ToSet(udev)
              /\ \A t : AddTodo(udev, t) => AddTodo(Tail(udev), t) \/ (Head(udev).act = "add" /\ IsSource(Head(udev).node, t))
              /\ \A t : Returned(udev, t) =>
                   /\ Returned(Tail(udev), t)
                   /\ Head(udev).act = "remove" /\ IsSource(Head(udev).node, t) => AddTodo(Tail(udev), t)
<1>1. PICK E : E = [act : {"add", "remove"}, node : Nodes]
  OBVIOUS
<1>2. udev \in Seq(E)
  BY <1>1 DEF TypeOK, OutsideOK
<1>3. ASSUME NEW e \in ToSet(udev) PROVE e.act \in {"add", "remove"} /\ e.node \in Nodes
  <2>1. PICK i \in 1..Len(udev) : e = udev[i]
    BY <1>2 DEF ToSet
  <2>2. e \in E
    BY <2>1, <1>2, SeqFacts
  <2> QED
    BY <2>2, <1>1
<1>4. ASSUME udev # <<>>
      PROVE  /\ Head(udev) \in ToSet(udev) /\ ToSet(Tail(udev)) \subseteq ToSet(udev)
             /\ \A t : AddTodo(udev, t) => AddTodo(Tail(udev), t) \/ (Head(udev).act = "add" /\ IsSource(Head(udev).node, t))
             /\ \A t : Returned(udev, t) =>
                  /\ Returned(Tail(udev), t)
                  /\ Head(udev).act = "remove" /\ IsSource(Head(udev).node, t) => AddTodo(Tail(udev), t)
  <2>1. PICK r : r = Tail(udev)
    OBVIOUS
  <2>2. /\ r \in Seq(E) /\ Len(r) \in Nat /\ Len(udev) = Len(r) + 1 /\ Head(udev) = udev[1]
        /\ \A i \in 1..Len(r) : r[i] = udev[i + 1]
    BY <1>2, <1>4, <2>1, SeqFacts
  <2>3. DOMAIN r = 1..Len(r)
    BY <2>2
  <2>4. ToSet(udev) = {Head(udev)} \cup ToSet(r)
    BY <1>2, <1>4, <2>1, SetOfRest
  <2>5. \A t : AddTodo(udev, t) => AddTodo(r, t) \/ (Head(udev).act = "add" /\ IsSource(Head(udev).node, t))
    BY <2>4 DEF AddTodo
  <2>6. ASSUME NEW t, Returned(udev, t) PROVE Returned(r, t)
    <3> SUFFICES ASSUME NEW i \in 1..Len(r), r[i].act = "remove", IsSource(r[i].node, t)
                 PROVE  \E k \in 1..Len(r) : i < k /\ r[k].act = "add" /\ IsSource(r[k].node, t)
      BY DEF Returned
    <3>1. i + 1 \in 1..Len(udev)
      BY <2>2
    <3>2. PICK k \in 1..Len(udev) : i + 1 < k /\ udev[k].act = "add" /\ IsSource(udev[k].node, t)
      BY <3>1, <2>2, <2>6 DEF Returned
    <3>3. k - 1 \in 1..Len(r) /\ i < k - 1 /\ (k - 1) + 1 = k
      BY <3>2, <2>2
    <3>4. r[k - 1] = udev[k]
      BY <3>3, <2>2
    <3> QED
      BY <3>2, <3>3, <3>4
  <2>7. ASSUME NEW t, Returned(udev, t), Head(udev).act = "remove", IsSource(Head(udev).node, t)
        PROVE  AddTodo(r, t)
    <3>1. 1 \in 1..Len(udev)
      BY <2>2
    <3>2. PICK k \in 1..Len(udev) : 1 < k /\ udev[k].act = "add" /\ IsSource(udev[k].node, t)
      BY <3>1, <2>2, <2>7 DEF Returned
    <3>3. k - 1 \in 1..Len(r) /\ (k - 1) + 1 = k
      BY <3>2, <2>2
    <3>4. r[k - 1] = udev[k] /\ r[k - 1] \in ToSet(r)
      BY <3>3, <2>2, <2>3 DEF ToSet
    <3> QED
      BY <3>2, <3>4 DEF AddTodo
  <2> QED
    BY <2>1, <2>4, <2>5, <2>6, <2>7
<1> QED
  BY <1>3, <1>4

\* A write fails, or the sink is detached.
LEMMA FailureOutlook ==
  ASSUME IInv, Outlook, SinkFails \/ Detach \/ \E s \in Sources : CloneFails(s)
  PROVE  Outlook'
<1>0. sink \in SinkSet /\ sinks \in SUBSET [id : Nat, gen : Nat]
  BY DEF IInv, TypeOK, OutsideOK, ReaderOK
<1>1. UNCHANGED <<src, reader, udev>> /\ failure'
  BY DEF SinkFails, Detach, CloneFails, kernel
<1>2. PICK y : y = sink'
  OBVIOUS
<1>3. y.id = sink.id /\ (y.gen = sink.gen \/ y.gen = sink.gen + 1)
  <2>1. CASE SinkFails
    BY <2>1, <1>0, <1>2 DEF SinkFails, SinkSet
  <2>2. CASE Detach
    BY <2>2, <1>0, <1>2 DEF Detach, SinkSet
  <2>3. CASE \E s \in Sources : CloneFails(s)
    BY <2>3, <1>0, <1>2 DEF CloneFails
  <2> QED
    BY <2>1, <2>2, <2>3
<1>4. SinkInOrder'
  <2>0. SinkInOrder
    BY DEF Outlook
  <2>1. sink.id \in Nat /\ sink.gen \in Nat /\ \A k \in sinks : k.gen \in Nat
    BY <1>0 DEF SinkSet
  <2>2. sinks' = sinks /\ torn' = torn /\ udev' = udev
    BY <1>1 DEF reader
  <2>3. \A k \in sinks : k.gen <= y.gen /\ k.id <= y.id /\ (~torn => k.gen = k.id)
    BY <2>0, <2>1, <1>3 DEF SinkInOrder
  <2>4. ASSUME NEW e \in ToSet(udev), e.act = "remove", e.node.kind = "sink" PROVE e.node.id < y.gen
    <3>1. e.node.id < sink.gen
      BY <2>0, <2>4 DEF SinkInOrder
    <3>2. e.node.id \in Nat
      <4>1. e.node \in Nodes
        BY <2>4, EventFacts DEF IInv
      <4> QED
        BY <4>1 DEF Nodes
    <3> QED
      BY <3>1, <3>2, <2>1, <1>3
  <2>5. y.id <= y.gen
    BY <2>0, <2>1, <1>3 DEF SinkInOrder
  <2> QED
    BY <2>2, <2>3, <2>4, <2>5, <1>2 DEF SinkInOrder
<1> QED
  BY <1>1, <1>4, OutputOutlook

\* The sink goes, and comes again.
LEMMA SinkOutlook ==
  ASSUME IInv, Outlook, Destroy \/ Recreate
  PROVE  Outlook'
<1>0. /\ TypeOK /\ sink \in SinkSet /\ sinks \in SUBSET [id : Nat, gen : Nat] /\ SinkInOrder
  BY DEF IInv, TypeOK, OutsideOK, ReaderOK, Outlook
<1>1. UNCHANGED <<src, reader>> /\ failure' = failure /\ fwd' = fwd
  BY DEF Destroy, Recreate, kernel
<1>2. dev' = dev /\ sinks' = sinks /\ masks' = masks /\ torn' = torn /\ mode' = mode
  BY <1>1 DEF reader
<1>3. PICK y : y = sink'
  OBVIOUS
<1>4. CASE Recreate
  <2>1. y.gen = sink.gen /\ y.id = sink.gen /\ y.up = TRUE /\ udev' = udev
    BY <1>0, <1>3, <1>4 DEF Recreate, SinkSet, kernel
  <2>2. sink.gen \in Nat /\ sink.id \in Nat /\ \A k \in sinks : k.id \in Nat
    BY <1>0 DEF SinkSet
  <2>3. SinkInOrder'
    <3>1. y.id <= y.gen
      BY <2>1, <2>2
    <3>2. \A k \in sinks : k.id <= y.id
      BY <2>1, <2>2, <1>0 DEF SinkInOrder
    <3> QED
      BY <3>1, <3>2, <2>1, <1>0, <1>2, <1>3 DEF SinkInOrder
  <2>4. \A t \in Sources : Bad(t)' => Bad(t)
    BY <1>1, <1>2, <1>3, <2>1 DEF Bad, NeedsForwarding, Usable, Failed, SinkAdmitted, SinkAdmittedGeneration,
         Keyboard, MouseBlock
  <2> QED
    BY <1>1, <2>1, <2>3, <2>4, OutputOutlook
<1>5. CASE Destroy
  <2>1. y.gen = sink.gen /\ y.id = sink.id
    BY <1>0, <1>3, <1>5 DEF Destroy, SinkSet
  <2>2. sink.gen \in Nat /\ sink.id \in Nat /\ sink.id < sink.gen
    <3>1. sink.gen \in Nat /\ sink.id \in Nat
      BY <1>0 DEF SinkSet
    <3>2. sink.id <= sink.gen /\ sink.gen # sink.id
      BY <1>0, <1>5 DEF SinkInOrder, Destroy
    <3> QED
      BY <3>1, <3>2
  <2>3. PICK n \in Nodes : n = SinkNode
    BY <1>0, NodeFacts
  <2>4. n.kind = "sink" /\ n.id = sink.id
    BY <2>3 DEF SinkNode
  <2>5. PICK act \in {"remove"} : act = "remove"
    OBVIOUS
  <2>6. udev' = udev \/ Announce(act, n)
    BY <1>5, <2>3, <2>5 DEF Destroy
  <2>7. SinkInOrder'
    <3>1. ASSUME NEW e \in ToSet(udev'), e.act = "remove", e.node.kind = "sink" PROVE e.node.id < sink.gen
      <4>1. CASE e \in ToSet(udev)
        BY <3>1, <4>1, <1>0 DEF SinkInOrder
      <4>2. CASE e \notin ToSet(udev)
        <5>1. act \in {"add", "remove"} /\ Announce(act, n)
          BY <2>6, <4>2, <3>1
        <5>2. ToSet(udev') \subseteq ToSet(udev) \cup {[act |-> act, node |-> n]}
          BY <1>0, <5>1, AnnounceMeans
        <5>3. e = [act |-> act, node |-> n]
          BY <5>2, <4>2, <3>1
        <5> QED
          BY <5>3, <2>2, <2>4
      <4> QED
        BY <4>1, <4>2
    <3> QED
      BY <3>1, <1>0, <1>2, <1>3, <2>1 DEF SinkInOrder
  <2>8. ASSUME NEW t \in Sources, Bad(t)', ~Bad(t), ~torn PROVE FALSE
    <3>1. NeedsForwarding(t) /\ Usable(t)
      BY <2>8, <1>2 DEF Bad, NeedsForwarding, Keyboard, MouseBlock
    <3>2. Keyboard(t)
      BY <2>8, <3>1, <1>1, <1>2 DEF Bad, Usable, Failed, Keyboard
    <3>3. sinks # {} /\ Max({k.gen : k \in sinks}) = sink.gen
      BY <3>1, <3>2 DEF Usable, SinkAdmitted, SinkAdmittedGeneration
    <3>4. \A k \in sinks : k.gen <= sink.gen
      BY <1>0 DEF SinkInOrder
    <3>5. PICK k \in sinks : k.gen = sink.gen
      BY <1>0, <2>2, <3>3, <3>4, NewestFacts
    <3>6. k.id = sink.gen /\ k.id <= sink.id
      BY <3>5, <2>8, <1>0 DEF SinkInOrder
    <3> QED
      BY <3>6, <2>2
  <2> QED
    BY <1>1, <2>4, <2>6, <2>7, <2>8, OutputOutlook
<1> QED
  BY <1>4, <1>5

-----------------------------------------------------------------------------
(* The outlook when the reader is between handlers *)

\* What it is when no job looks at sources, or only the gate is left.
LEMMA IdleMeans ==
  ASSUME Outlook, NEW t \in Sources, \A j \in ToSet(jobs) : j.op = "gate",
         jobs # <<>> => Head(jobs).op = "gate"
  PROVE  /\ Bad(t) /\ dev[t].grabbed => failure \/ torn
         /\ Missed(t) => incomplete
         /\ Heard(t) /\ dev[t].fd = "none" => AddTodo(udev, t)
         /\ Heard(t) => Returned(udev, t)
         /\ dev[t].grabbed => Open(dev[t])
<1>1. ~CheckTodo(jobs, t) /\ ~GrabTodo(jobs, t) /\ ~SeeTodo(jobs, t) /\ ~InPass(jobs)
  BY DEF CheckTodo, GrabTodo, SeeTodo, InPass, IsPass
<1>2. Watched(t) /\ Retried(t) /\ Found(t) /\ ReturnLast(t) /\ Released(t)
  BY DEF Outlook
<1> QED
  BY <1>1, <1>2 DEF Watched, Retried, Found, ReturnLast, Released

\* No jobs at all.
LEMMA EmptyMeans ==
  ASSUME Outlook, NEW t \in Sources, jobs = <<>>
  PROVE  /\ Bad(t) /\ dev[t].grabbed => failure \/ torn
         /\ Missed(t) => incomplete
         /\ Heard(t) /\ dev[t].fd = "none" => AddTodo(udev, t)
         /\ Heard(t) => Returned(udev, t)
         /\ dev[t].grabbed => Open(dev[t])
<1>1. \A j \in ToSet(jobs) : j.op = "gate"
  BY SetOfShort
<1> QED
  BY <1>1, IdleMeans

\* A list of one job.
LEMMA OneJob ==
  ASSUME NEW j \in Listed, NEW q, q = <<j>>
  PROVE  q \in Seq(Listed) /\ ToSet(q) = {j} /\ Ordered(q)
<1>1. q \in Seq(Listed) /\ Len(q) = 1
  BY ShortListed
<1>2. ToSet(q) = {j}
  BY SetOfShort
<1>3. Len(q) <= 1
  BY <1>1
<1> QED
  BY <1>1, <1>2, <1>3, OrderedSimple

\* A handler's new jobs.
LEMMA NewJobsOutlook ==
  ASSUME jobs' \in Seq(Listed), Ordered(jobs'), NoRetire(jobs'), InPass(jobs') => AllPass(jobs'),
         ~FailTodo(jobs'), SinkInOrder',
         \A t \in Sources :
           /\ Released(t)' /\ Found(t)' /\ ReturnLast(t)'
           /\ Bad(t)' /\ dev'[t].grabbed => failure' \/ torn' \/ CheckTodo(jobs', t)
           /\ Missed(t)' => InPass(jobs') \/ incomplete'
  PROVE  Outlook'
<1>1. PICK q : q = jobs'
  OBVIOUS
<1>2. q # <<>> => ToSet(q) = {Head(q)} \cup ToSet(Tail(q))
  BY <1>1, SetOfRest
<1>3. \A t \in Sources : StageOf(q, t) \in {"none", "enter"}
  BY <1>1, ListedJobs
<1>4. RetireOK'
  <2>1. q # <<>> => NoRetire(Tail(q)) /\ Head(q).op # "retire"
    BY <1>1, <1>2 DEF NoRetire
  <2> QED
    BY <1>1, <2>1 DEF RetireOK
<1>5. JobsInOrder'
  BY <1>4 DEF JobsInOrder, PassWhole, FailNoted
<1>6. ASSUME NEW t \in Sources PROVE Watched(t)' /\ Retried(t)'
  <2>1. StageOf(q, t) \notin Taking
    BY <1>3 DEF Taking
  <2>2. Watched(t)'
    BY <1>1, <2>1 DEF Watched
  <2>3. InPass(q) => GrabTodo(q, t)
    BY <1>1, PassJob DEF AllPass, GrabTodo
  <2>4. Retried(t)'
    BY <1>1, <2>3 DEF Retried
  <2> QED
    BY <2>2, <2>4
<1> QED
  BY <1>5, <1>6 DEF Outlook

\* An event of a device is handled, or a device that is gone is closed.
LEMMA ReadOutlook ==
  ASSUME IInv, Outlook, NEW s \in Sources, Read(s)
  PROVE  Outlook'
<1>0. /\ TypeOK /\ dev \in [Sources -> DevSet] /\ dev[s] \in DevSet /\ fwd[s] \in FwdSet
      /\ incomplete \in BOOLEAN /\ src \in [Sources -> SrcSet] /\ src[s] \in SrcSet
      /\ fwd \in [Sources -> FwdSet] /\ src[s].queue \in Seq(Reports)
  BY DEF IInv, TypeOK, ReaderOK, OutsideOK, SrcSet
<1>1. UNCHANGED <<sink, sinks, failure, udev, jobs, pass, masks, torn, mode, inputs>> /\ jobs = <<>>
  BY DEF Read
<1>2. SinkInOrder'
  BY <1>1 DEF Outlook, SinkInOrder
<1>3. ASSUME /\ dev'[s].grabbed => dev[s].grabbed /\ Open(dev'[s]) /\ SameOutputs(s)
             /\ Open(dev'[s]) => Open(dev[s]) /\ dev'[s].grabbed = dev[s].grabbed
             /\ dev'[s].fd # "none"
             /\ \A t \in Sources : src'[t].plug = src[t].plug
             /\ \A t \in Sources \ {s} : dev'[t] = dev[t] /\ fwd'[t] = fwd[t]
             /\ incomplete => incomplete'
      PROVE  Outlook'
  <2>1. ASSUME NEW t \in Sources
        PROVE  /\ dev'[t].grabbed => dev[t].grabbed
               /\ Released(t)' /\ Found(t)' /\ ReturnLast(t)'
               /\ Bad(t)' => Bad(t) \/ (~dev'[t].grabbed /\ jobs = <<>>)
               /\ Missed(t)' => Missed(t)
    <3>1. (dev'[t].grabbed => dev[t].grabbed) /\ Released(t)'
      BY <1>3 DEF Outlook, Released
    <3>2. Found(t)' /\ ReturnLast(t)'
      <4>1. dev'[t].fd = "none" => dev[t].fd = "none"
        BY <1>3
      <4> QED
        BY <1>1, <1>3, <4>1, SameEvents
    <3>3. dev'[t].grabbed => (Bad(t)' <=> Bad(t))
      <4>1. dev'[t].grabbed => SameOutputs(t)
        BY <1>3 DEF SameOutputs
      <4> QED
        BY <1>1, <4>1, BadSame
    <3>4. Missed(t)' => Missed(t)
      BY <1>1, <1>3 DEF Missed, ShouldGrab, Keyboard, MouseHook, MouseBlock, Mouse
    <3> QED
      BY <1>1, <3>1, <3>2, <3>3, <3>4
  <2> QED
    BY <1>1, <1>2, <1>3, <2>1, SameJobsOutlook
<1>4. CASE dev[s].fd = "stale" /\ Close(s, "closed") /\ UNCHANGED <<incomplete, faults>>
  <2>1. PICK fd : fd = "closed"
    OBVIOUS
  <2>2. /\ dev'[s].fd = fd /\ ~dev'[s].grabbed
        /\ \A t \in Sources : src'[t].plug = src[t].plug
        /\ \A t \in Sources \ {s} : dev'[t] = dev[t] /\ fwd'[t] = fwd[t]
    BY <1>0, <1>4, <2>1, CloseMeans
  <2>3. ~Open(dev'[s])
    BY <2>1, <2>2 DEF Open
  <2> QED
    BY <1>3, <1>4, <2>1, <2>2, <2>3
<1>5. CASE /\ dev[s].fd = "open" /\ src[s].queue # <<>>
           /\ \E passes, refused \in BOOLEAN :
                LET st == Handled([dev |-> dev[s], fwd |-> fwd[s], incomplete |-> incomplete],
                                  Head(src[s].queue), passes, refused)
                IN /\ refused => faults < MaxFaults /\ dev[s].owed # {}
                   /\ faults' = faults + IF refused THEN 1 ELSE 0
                   /\ dev' = [dev EXCEPT ![s] = st.dev]
                   /\ fwd' = [fwd EXCEPT ![s] = st.fwd]
                   /\ incomplete' = st.incomplete
           /\ src' = [src EXCEPT ![s].queue = Tail(@)]
           /\ UNCHANGED tapped
  <2>1. PICK st0 : st0 = [dev |-> dev[s], fwd |-> fwd[s], incomplete |-> incomplete]
    OBVIOUS
  <2>2. st0 \in States /\ st0.dev = dev[s] /\ st0.fwd = fwd[s] /\ st0.incomplete = incomplete
    BY <1>0, <2>1 DEF States
  <2>3. PICK passes, refused, st :
           /\ passes \in BOOLEAN /\ refused \in BOOLEAN
           /\ st = Handled(st0, Head(src[s].queue), passes, refused)
           /\ dev' = [dev EXCEPT ![s] = st.dev]
           /\ fwd' = [fwd EXCEPT ![s] = st.fwd]
           /\ incomplete' = st.incomplete
    BY <1>5, <2>1
  <2>4. Head(src[s].queue) \in Reports
    BY <1>0, <1>5, SeqFacts
  <2>5. Alike(st, st0)
    BY <2>2, <2>3, <2>4, HandledFacts
  <2>6. dev'[s] = st.dev /\ fwd'[s] = st.fwd /\ \A t \in Sources \ {s} : dev'[t] = dev[t] /\ fwd'[t] = fwd[t]
    BY <1>0, <2>3
  <2>7. PICK y : y = [src[s] EXCEPT !.queue = Tail(@)]
    OBVIOUS
  <2>8. y.plug = src[s].plug /\ src' = [src EXCEPT ![s] = y]
    BY <1>0, <1>5, <2>7 DEF SrcSet
  <2>9. \A t \in Sources : src'[t].plug = src[t].plug
    BY <1>0, <2>8
  <2>10. SameOutputs(s) /\ dev'[s].fd = dev[s].fd /\ dev'[s].grabbed = dev[s].grabbed
    BY <2>2, <2>5, <2>6 DEF Alike, SameOutputs
  <2>11. incomplete => incomplete'
    BY <2>2, <2>3, <2>5 DEF Alike
  <2> QED
    BY <1>3, <1>5, <2>6, <2>9, <2>10, <2>11 DEF Open
<1> QED
  BY <1>4, <1>5 DEF Read

\* A udev event.
LEMMA UdevOutlook ==
  ASSUME IInv, Outlook, Udev
  PROVE  Outlook'
<1>0. TypeOK /\ SinkInOrder /\ sink \in SinkSet /\ sinks \in SUBSET [id : Nat, gen : Nat]
  BY DEF IInv, TypeOK, OutsideOK, ReaderOK, Outlook
<1>1. PICK u : u = Head(udev)
  OBVIOUS
<1>2. /\ udev # <<>> /\ jobs = <<>> /\ udev' = Tail(udev)
      /\ UNCHANGED <<sink, failure, pass, incomplete, masks, torn, mode>>
  BY DEF Udev
<1>3. /\ u \in ToSet(udev) /\ ToSet(udev') \subseteq ToSet(udev)
      /\ u.act \in {"add", "remove"} /\ u.node \in Nodes
      /\ \A t : AddTodo(udev, t) => AddTodo(udev', t) \/ (u.act = "add" /\ IsSource(u.node, t))
      /\ \A t : Returned(udev, t) =>
           /\ Returned(udev', t)
           /\ u.act = "remove" /\ IsSource(u.node, t) => AddTodo(udev', t)
  BY <1>0, <1>1, <1>2, EventFacts
<1>4. PICK n : n = u.node
  OBVIOUS
<1>5. n \in Nodes /\ (n.kind # "sink" => n.of \in Sources) /\ n.id \in Nat
  BY <1>0, <1>3, <1>4, NodeFacts
<1>6. sinks' \subseteq sinks => SinkInOrder'
  BY <1>0, <1>2, <1>3 DEF SinkInOrder
<1>7. CASE /\ u.act = "add" /\ jobs' = <<[SeeJob(n) EXCEPT !.scan = FALSE]>>
           /\ UNCHANGED <<src, tapped, fwd, dev, sinks>>
  <2>1. PICK j : j = [SeeJob(n) EXCEPT !.scan = FALSE]
    OBVIOUS
  <2>2. j \in Listed /\ j.op = "see" /\ j.node = n
    BY <1>5, <2>1, NewJobs DEF SeeJob
  <2>3. jobs' \in Seq(Listed) /\ ToSet(jobs') = {j} /\ Ordered(jobs')
    BY <1>7, <2>1, <2>2, OneJob
  <2>5. NoRetire(jobs') /\ ~InPass(jobs') /\ ~FailTodo(jobs')
    BY <2>2, <2>3 DEF NoRetire, InPass, IsPass, FailTodo
  <2>6. ASSUME NEW t \in Sources
        PROVE  /\ Released(t)' /\ Found(t)' /\ ReturnLast(t)'
               /\ Bad(t)' /\ dev'[t].grabbed => failure' \/ torn'
               /\ Missed(t)' => incomplete'
    <3>1. /\ Bad(t) /\ dev[t].grabbed => failure \/ torn
          /\ Missed(t) => incomplete
          /\ Heard(t) /\ dev[t].fd = "none" => AddTodo(udev, t)
          /\ Heard(t) => Returned(udev, t)
          /\ dev[t].grabbed => Open(dev[t])
      BY <1>2, EmptyMeans
    <3>2. Bad(t)' <=> Bad(t)
      <4>1. SameOutputs(t)
        BY <1>7 DEF SameOutputs
      <4> QED
        BY <1>2, <1>7, <4>1, BadSame
    <3>3. Missed(t)' => Missed(t)
      BY <1>2, <1>7 DEF Missed, ShouldGrab, Keyboard, MouseHook, MouseBlock, Mouse
    <3>4. Heard(t)' <=> Heard(t)
      BY <1>2, <1>7 DEF Heard
    <3>5. IsSource(n, t) => SeeTodo(jobs', t)
      BY <2>2, <2>3 DEF SeeTodo
    <3>6. Found(t)'
      BY <1>3, <1>4, <1>7, <3>1, <3>4, <3>5 DEF Found
    <3>7. ReturnLast(t)'
      BY <1>3, <3>1, <3>4 DEF ReturnLast
    <3> QED
      BY <1>2, <1>7, <3>1, <3>2, <3>3, <3>6, <3>7 DEF Released
  <2> QED
    BY <1>6, <1>7, <2>3, <2>5, <2>6, NewJobsOutlook
<1>8. CASE u.act = "remove" /\ n.kind = "source" /\ Close(n.of, "none") /\ UNCHANGED <<jobs, sinks>>
  <2>1. PICK s \in Sources : s = n.of
    BY <1>5, <1>8
  <2>2. PICK fd : fd = "none"
    OBVIOUS
  <2>3. /\ dev'[s].fd = fd /\ ~dev'[s].grabbed
        /\ \A t \in Sources : src'[t].plug = src[t].plug
        /\ \A t \in Sources \ {s} : dev'[t] = dev[t] /\ fwd'[t] = fwd[t]
    BY <1>0, <1>8, <2>1, <2>2, CloseMeans
  <2>4. ~Open(dev'[s]) /\ IsSource(n, s)
    BY <1>8, <2>1, <2>2, <2>3 DEF Open, IsSource
  <2>5. ASSUME NEW t \in Sources
        PROVE  /\ dev'[t].grabbed => dev[t].grabbed
               /\ Released(t)' /\ Found(t)' /\ ReturnLast(t)'
               /\ Bad(t)' => Bad(t) \/ (~dev'[t].grabbed /\ jobs = <<>>)
               /\ Missed(t)' => Missed(t)
    <3>1. /\ Heard(t) /\ dev[t].fd = "none" => AddTodo(udev, t)
          /\ Heard(t) => Returned(udev, t)
          /\ dev[t].grabbed => Open(dev[t])
      BY <1>2, EmptyMeans
    <3>2. Heard(t)' <=> Heard(t)
      BY <1>2, <2>3 DEF Heard
    <3>3. Found(t)'
      <4>1. CASE t = s
        BY <4>1, <1>3, <1>4, <1>8, <2>4, <3>1, <3>2 DEF Found
      <4>2. CASE t # s
        BY <4>2, <1>3, <1>8, <2>3, <3>1, <3>2 DEF Found
      <4> QED
        BY <4>1, <4>2
    <3>4. ReturnLast(t)'
      BY <1>3, <3>1, <3>2 DEF ReturnLast
    <3>5. t # s => (Bad(t)' <=> Bad(t))
      <4>1. t # s => SameOutputs(t)
        BY <2>3 DEF SameOutputs
      <4> QED
        BY <1>2, <1>8, <4>1, BadSame
    <3>6. Missed(t)' => Missed(t)
      BY <1>2, <2>3, <2>4 DEF Missed, ShouldGrab, Keyboard, MouseHook, MouseBlock, Mouse
    <3>7. Released(t)' /\ (dev'[t].grabbed => dev[t].grabbed)
      BY <2>3, <3>1 DEF Released
    <3> QED
      BY <1>2, <2>3, <3>3, <3>4, <3>5, <3>6, <3>7
  <2> QED
    BY <1>2, <1>6, <1>8, <2>5, SameJobsOutlook
<1>9. CASE /\ u.act = "remove" /\ n.kind = "sink" /\ sinks' = {k \in sinks : k.id # n.id}
           /\ UNCHANGED <<src, tapped, fwd, dev, jobs>>
  <2>1. sink.gen \in Nat /\ n.id < sink.gen
    BY <1>0, <1>3, <1>4, <1>9 DEF SinkInOrder, SinkSet
  <2>2. ASSUME NEW t \in Sources, Bad(t)', ~Bad(t), ~torn PROVE FALSE
    <3>1. NeedsForwarding(t) /\ Usable(t)
      BY <2>2, <1>2 DEF Bad, NeedsForwarding, Keyboard, MouseBlock
    <3>2. Keyboard(t) /\ ~(sinks' # {} /\ Max({k.gen : k \in sinks'}) = sink.gen)
      BY <2>2, <3>1, <1>2, <1>9 DEF Bad, Usable, Failed, Keyboard, SinkAdmitted, SinkAdmittedGeneration
    <3>3. sinks # {} /\ Max({k.gen : k \in sinks}) = sink.gen
      BY <3>1, <3>2 DEF Usable, SinkAdmitted, SinkAdmittedGeneration
    <3>4. \A k \in sinks : k.gen <= sink.gen
      BY <1>0 DEF SinkInOrder
    <3>5. PICK k \in sinks : k.gen = sink.gen
      BY <1>0, <2>1, <3>3, <3>4, NewestFacts
    <3>6. k.id = sink.gen
      BY <3>5, <2>2, <1>0 DEF SinkInOrder
    <3>7. k \in sinks'
      BY <3>5, <3>6, <2>1, <1>5, <1>9
    <3>8. PICK K \in SUBSET [id : Nat, gen : Nat] : K = sinks'
      BY <1>0, <1>9
    <3>9. \A x \in K : x.gen <= sink.gen
      BY <3>4, <3>8, <1>9
    <3>10. K # {} /\ Max({x.gen : x \in K}) = sink.gen
      BY <2>1, <3>5, <3>7, <3>8, <3>9, NewestFacts
    <3> QED
      BY <3>2, <3>8, <3>10
  <2>3. ASSUME NEW t \in Sources
        PROVE  Released(t)' /\ Found(t)' /\ ReturnLast(t)' /\ (Missed(t)' => Missed(t))
    <3>1. /\ Heard(t) /\ dev[t].fd = "none" => AddTodo(udev, t)
          /\ Heard(t) => Returned(udev, t)
          /\ dev[t].grabbed => Open(dev[t])
      BY <1>2, EmptyMeans
    <3>2. Heard(t)' <=> Heard(t)
      BY <1>2, <1>9 DEF Heard
    <3>3. Found(t)' /\ ReturnLast(t)'
      BY <1>3, <1>9, <3>1, <3>2 DEF Found, ReturnLast
    <3>4. Missed(t)' => Missed(t)
      BY <1>2, <1>9 DEF Missed, ShouldGrab, Keyboard, MouseHook, MouseBlock, Mouse
    <3> QED
      BY <1>9, <3>1, <3>3, <3>4 DEF Released
  <2>4. sinks' \subseteq sinks
    BY <1>9
  <2> QED
    BY <1>2, <1>6, <1>9, <2>2, <2>3, <2>4, SameJobsOutlook
<1> QED
  BY <1>1, <1>4, <1>7, <1>8, <1>9 DEF Udev

\* A scan looks for every source.
LEMMA ScanMeans ==
  ASSUME TypeOK
  PROVE  /\ ScanJobs \in Seq(Listed) /\ Ordered(ScanJobs) /\ NoRetire(ScanJobs)
         /\ ~InPass(ScanJobs) /\ ~FailTodo(ScanJobs)
         /\ \A t \in Sources : SeeTodo(ScanJobs, t)
<1>1. PICK q : q = ScanJobs
  OBVIOUS
<1>2. /\ q \in Seq(Listed) /\ \A j \in ToSet(q) : j.op = "see"
      /\ \A s \in Sources : SeeJob(SourceNode(s)) \in ToSet(q)
  BY <1>1, ScanFacts
<1>3. Ordered(q)
  <2>1. \A j \in ToSet(q) : j.op # "gate" /\ ~IsPass(j)
    BY <1>2 DEF IsPass
  <2> QED
    BY <1>2, <2>1, OrderedSimple
<1>4. NoRetire(q) /\ ~InPass(q) /\ ~FailTodo(q)
  BY <1>2 DEF NoRetire, InPass, IsPass, FailTodo
<1>5. ASSUME NEW t \in Sources PROVE SeeTodo(q, t)
  <2>1. PICK j : j = SeeJob(SourceNode(t))
    OBVIOUS
  <2>2. j.op = "see" /\ IsSource(j.node, t)
    BY <2>1 DEF SeeJob, SourceNode, IsSource
  <2> QED
    BY <1>2, <2>1, <2>2 DEF SeeTodo
<1> QED
  BY <1>1, <1>2, <1>3, <1>4, <1>5

\* A pass goes through every source.
LEMMA PassMeans ==
  /\ PassJobs \in Seq(Listed) /\ AllPass(PassJobs)
  /\ \A j \in ToSet(PassJobs) : IsPass(j) /\ j.stage \notin Taking /\ j.op = "grab"
<1>1. \A s : GrabJob(s, "pass").stage = "enter"
  BY PassJob
<1> QED
  BY <1>1, PassFacts, PassJob DEF AllPass, Taking

\* A list that has all of a pass in it.
LEMMA AllPassMeans ==
  ASSUME NEW q, AllPass(q), NEW t \in Sources
  PROVE  InPass(q) /\ CheckTodo(q, t) /\ GrabTodo(q, t)
<1>1. PICK j : j = GrabJob(t, "pass")
  OBVIOUS
<1>2. j \in ToSet(q) /\ IsPass(j) /\ j.op = "grab" /\ j.of = t /\ j.stage = "enter"
  BY <1>1, PassJob DEF AllPass
<1> QED
  BY <1>2 DEF InPass, CheckTodo, GrabTodo, Taking

\* The scan after the start, and the one that registers every source.
LEMMA ScanOutlook ==
  ASSUME IInv, Outlook, Start \/ EnableForwarding
  PROVE  Outlook'
<1>0. /\ TypeOK /\ sink \in SinkSet /\ mode \in [started : BOOLEAN, monitor : BOOLEAN, forwarding : BOOLEAN]
  BY DEF IInv, TypeOK, OutsideOK, ReaderOK
<1>1. /\ jobs = <<>> /\ jobs' = ScanJobs /\ src' = src /\ dev' = dev /\ fwd' = fwd
      /\ UNCHANGED <<failure, sinks, pass, incomplete, masks, torn>>
  BY DEF Start, EnableForwarding, outputs, kernel
<1>2. /\ jobs' \in Seq(Listed) /\ Ordered(jobs') /\ NoRetire(jobs')
      /\ ~InPass(jobs') /\ ~FailTodo(jobs')
      /\ \A t \in Sources : SeeTodo(jobs', t)
  BY <1>0, <1>1, ScanMeans
<1>3. sink'.gen = sink.gen /\ sink'.id = sink.id /\ (sink.up => sink'.up)
  <2>1. CASE Start
    BY <2>1 DEF Start, outputs
  <2>2. CASE EnableForwarding
    BY <2>2, <1>0 DEF EnableForwarding, SinkSet
  <2> QED
    BY <2>1, <2>2
<1>4. udev' = <<>> \/ (udev' = udev /\ mode'.started = mode.started /\ mode'.monitor = mode.monitor)
  <2>1. CASE Start
    BY <2>1 DEF Start
  <2>2. CASE EnableForwarding
    BY <2>2, <1>0 DEF EnableForwarding, kernel
  <2> QED
    BY <2>1, <2>2
<1>5. SinkInOrder'
  <2>1. ToSet(udev') \subseteq ToSet(udev)
    BY <1>4, SetOfShort
  <2> QED
    BY <1>1, <1>3, <2>1 DEF Outlook, SinkInOrder
<1>6. ASSUME NEW t \in Sources
      PROVE  /\ Released(t)' /\ Found(t)' /\ ReturnLast(t)'
             /\ Bad(t)' /\ dev'[t].grabbed => failure' \/ torn'
             /\ Missed(t)' => incomplete'
  <2>1. /\ Bad(t) /\ dev[t].grabbed => failure \/ torn
        /\ Missed(t) => incomplete
        /\ Heard(t) => Returned(udev, t)
        /\ dev[t].grabbed => Open(dev[t])
    BY <1>1, EmptyMeans
  <2>2. Bad(t)' => Bad(t)
    BY <1>1, <1>3 DEF Bad, NeedsForwarding, Usable, Failed, SinkAdmitted, SinkAdmittedGeneration,
         Keyboard, MouseBlock
  <2>3. Missed(t)' => Missed(t)
    BY <1>1 DEF Missed, ShouldGrab, Keyboard, MouseHook, MouseBlock, Mouse
  <2>4. Found(t)'
    BY <1>2 DEF Found
  <2>5. ReturnLast(t)'
    <3>1. CASE udev' = <<>>
      BY <3>1 DEF ReturnLast, Returned
    <3>2. CASE udev' = udev /\ mode'.started = mode.started /\ mode'.monitor = mode.monitor
      BY <3>2, <1>1, <2>1 DEF ReturnLast, Heard
    <3> QED
      BY <3>1, <3>2, <1>4
  <2> QED
    BY <1>1, <2>1, <2>2, <2>3, <2>4, <2>5 DEF Released
<1> QED
  BY <1>2, <1>5, <1>6, NewJobsOutlook

\* New demand: a pass goes through every source.
LEMMA SetMasksOutlook ==
  ASSUME IInv, Outlook, NEW demand \in Demands, SetMasks(demand)
  PROVE  Outlook'
<1>1. /\ jobs = <<>> /\ jobs' = PassJobs /\ src' = src /\ dev' = dev
      /\ UNCHANGED <<udev, fwd, sink, failure, sinks, pass, incomplete, torn, mode>>
  BY DEF SetMasks, outputs
<1>2. PICK q : q = PassJobs
  OBVIOUS
<1>3. /\ q \in Seq(Listed) /\ AllPass(q)
      /\ \A j \in ToSet(q) : IsPass(j) /\ j.op = "grab"
  BY <1>2, PassMeans
<1>4. Ordered(q) /\ NoRetire(q) /\ ~FailTodo(q)
  <2>1. Ordered(q)
    BY <1>3, OrderedSimple
  <2> QED
    BY <1>3, <2>1 DEF NoRetire, FailTodo, IsPass
<1>5. SinkInOrder'
  BY <1>1 DEF Outlook, SinkInOrder
<1>6. ASSUME NEW t \in Sources
      PROVE  /\ Released(t)' /\ Found(t)' /\ ReturnLast(t)'
             /\ CheckTodo(q, t) /\ InPass(q)
  <2>1. /\ Heard(t) /\ dev[t].fd = "none" => AddTodo(udev, t)
        /\ Heard(t) => Returned(udev, t)
        /\ dev[t].grabbed => Open(dev[t])
    BY <1>1, EmptyMeans
  <2>2. Heard(t)' <=> Heard(t)
    BY <1>1 DEF Heard
  <2>3. CheckTodo(q, t) /\ InPass(q)
    BY <1>3, AllPassMeans
  <2> QED
    BY <1>1, <2>1, <2>2, <2>3 DEF Released, Found, ReturnLast
<1> QED
  BY <1>1, <1>2, <1>3, <1>4, <1>5, <1>6, NewJobsOutlook

\* The periodic retry: failed outputs are looked at, and then the gate.
LEMMA RetryOutlook ==
  ASSUME IInv, Outlook, Retry
  PROVE  Outlook'
<1>0. TypeOK /\ dev \in [Sources -> DevSet] /\ fwd \in [Sources -> FwdSet] /\ failure \in BOOLEAN
  BY DEF IInv, TypeOK, ReaderOK, OutsideOK
<1>1. /\ jobs = <<>>
      /\ dev' = [s \in Sources |-> SettledAll[s].dev] /\ fwd' = [s \in Sources |-> SettledAll[s].fwd]
      /\ jobs' = (IF failure THEN SetToSeq({[op |-> "fail", of |-> s] : s \in Sources}) ELSE <<>>)
                 \o <<[op |-> "gate"]>>
      /\ UNCHANGED <<kernel, sink, sinks, pass, incomplete, masks, torn, mode, faults>>
  BY DEF Retry
<1>2. PICK S : S = {[op |-> "fail", of |-> s] : s \in Sources}
  OBVIOUS
<1>3. PICK p : p = (IF failure THEN SetToSeq(S) ELSE <<>>)
  OBVIOUS
<1>4. p \in Seq(Listed) /\ ToSet(p) = (IF failure THEN S ELSE {})
  BY <1>2, <1>3, FailFacts, ShortListed, SetOfShort
<1>5. PICK g : g = [op |-> "gate"]
  OBVIOUS
<1>6. g \in Listed /\ g.op = "gate"
  BY <1>5, NewJobs
<1>7. PICK q : q = <<g>>
  OBVIOUS
<1>8. q \in Seq(Listed) /\ ToSet(q) = {g} /\ Ordered(q)
  BY <1>6, <1>7, OneJob
<1>9. PICK r : r = p \o q
  OBVIOUS
<1>10. r = jobs'
  BY <1>1, <1>2, <1>3, <1>5, <1>7, <1>9
<1>11. \A j \in ToSet(p) : j.op = "fail"
  BY <1>2, <1>4
<1>12. r \in Seq(Listed) /\ ToSet(r) = ToSet(p) \cup {g}
  BY <1>4, <1>8, <1>9, ConcatListed, SetOfConcat
<1>13. Ordered(r)
  <2>1. \A j \in ToSet(p) : j.op # "gate" /\ ~IsPass(j)
    BY <1>11 DEF IsPass
  <2> QED
    BY <1>4, <1>8, <1>9, <2>1, OrderedConcat
<1>14. NoRetire(r) /\ ~InPass(r) /\ ~FailTodo(r)
  BY <1>6, <1>11, <1>12 DEF NoRetire, InPass, IsPass, FailTodo
<1>15. SinkInOrder'
  BY <1>1 DEF Outlook, SinkInOrder, kernel
<1>16. ASSUME NEW t \in Sources
       PROVE  /\ Released(t)' /\ Found(t)' /\ ReturnLast(t)'
              /\ Bad(t)' /\ dev'[t].grabbed => torn' \/ CheckTodo(r, t)
              /\ Missed(t)' => incomplete'
  <2>1. /\ Bad(t) /\ dev[t].grabbed => failure \/ torn
        /\ Missed(t) => incomplete
        /\ Heard(t) /\ dev[t].fd = "none" => AddTodo(udev, t)
        /\ Heard(t) => Returned(udev, t)
        /\ dev[t].grabbed => Open(dev[t])
    BY <1>1, EmptyMeans
  <2>2. SameOutputs(t) /\ dev'[t].fd = dev[t].fd /\ dev'[t].grabbed = dev[t].grabbed
    BY <1>0, <1>1, SettledAllFacts DEF SameOutputs
  <2>3. Bad(t)' <=> Bad(t)
    BY <1>1, <2>2, BadSame
  <2>4. failure => CheckTodo(r, t)
    <3> SUFFICES ASSUME failure PROVE CheckTodo(r, t)
      OBVIOUS
    <3>1. PICK j : j = [op |-> "fail", of |-> t]
      OBVIOUS
    <3>2. j \in ToSet(r) /\ j.op = "fail" /\ j.of = t
      BY <1>2, <1>4, <1>12, <3>1
    <3> QED
      BY <3>2 DEF CheckTodo
  <2>5. Missed(t)' => Missed(t)
    BY <1>1, <2>2 DEF Missed, ShouldGrab, Keyboard, MouseHook, MouseBlock, Mouse, Open
  <2>6. Heard(t)' <=> Heard(t)
    BY <1>1 DEF Heard, kernel
  <2>7. udev' = udev
    BY <1>1 DEF kernel
  <2>8. Found(t)' /\ ReturnLast(t)'
    BY <2>1, <2>2, <2>6, <2>7 DEF Found, ReturnLast
  <2>9. Released(t)'
    BY <2>1, <2>2 DEF Released, Open
  <2> QED
    BY <1>1, <2>1, <2>2, <2>3, <2>4, <2>5, <2>8, <2>9
<1> QED
  BY <1>10, <1>12, <1>13, <1>14, <1>15, <1>16, NewJobsOutlook

\* Stopping closes every device.
LEMMA StopOutlook ==
  ASSUME IInv, Outlook, Stop
  PROVE  Outlook'
<1>0. mode \in [started : BOOLEAN, monitor : BOOLEAN, forwarding : BOOLEAN]
  BY DEF IInv, TypeOK, ReaderOK
<1>1. /\ dev' = [s \in Sources |-> Untracked] /\ sinks' = {} /\ udev' = <<>>
      /\ jobs' = <<[op |-> "stopped"]>> /\ sink' = sink /\ ~mode'.started
  BY <1>0 DEF Stop
<1>2. PICK j : j = [op |-> "stopped"]
  OBVIOUS
<1>3. j \in Listed /\ j.op = "stopped"
  BY <1>2, NewJobs
<1>4. jobs' \in Seq(Listed) /\ ToSet(jobs') = {j} /\ Ordered(jobs')
  BY <1>1, <1>2, <1>3, OneJob
<1>5. NoRetire(jobs') /\ ~InPass(jobs') /\ ~FailTodo(jobs')
  BY <1>3, <1>4 DEF NoRetire, InPass, IsPass, FailTodo
<1>6. SinkInOrder'
  BY <1>1, SetOfShort DEF Outlook, SinkInOrder
<1>7. ASSUME NEW t \in Sources
      PROVE  /\ Released(t)' /\ Found(t)' /\ ReturnLast(t)' /\ ~dev'[t].grabbed /\ ~Missed(t)'
  <2>1. ~dev'[t].grabbed /\ dev'[t].fd = "none"
    BY <1>1 DEF Untracked
  <2> QED
    BY <1>1, <2>1 DEF Released, Found, ReturnLast, Heard, Missed, Open
<1> QED
  BY <1>4, <1>5, <1>6, <1>7, NewJobsOutlook

\* The gate: a handler's last job ends it, or starts a pass.
LEMMA GateOutlook ==
  ASSUME IInv, Outlook, Gate
  PROVE  Outlook'
<1>0. TypeOK /\ incomplete \in BOOLEAN
  BY DEF IInv, TypeOK, ReaderOK
<1>1. UNCHANGED <<kernel, outputs, dev, sinks, pass, incomplete, masks, torn, mode, faults>> /\ Job("gate")
  BY DEF Gate
<1>2. jobs # <<>> /\ jobs \in Seq(Jobs) /\ Head(jobs).op = "gate" /\ ToSet(jobs) = {Head(jobs)} \cup ToSet(Tail(jobs))
  BY <1>0, <1>1, HeadRest DEF Job
<1>3. Tail(jobs) = <<>>
  BY <1>2, OrderedRest DEF Outlook, JobsInOrder
<1>4. \A j \in ToSet(jobs) : j.op = "gate"
  BY <1>2, <1>3, SetOfShort
<1>5. SinkInOrder'
  BY <1>1 DEF Outlook, SinkInOrder, kernel, outputs
<1>6. ASSUME NEW t \in Sources
      PROVE  /\ Released(t)' /\ Found(t)' /\ ReturnLast(t)'
             /\ Bad(t)' /\ dev'[t].grabbed => failure' \/ torn'
             /\ Missed(t)' => incomplete'
  <2>1. /\ Bad(t) /\ dev[t].grabbed => failure \/ torn
        /\ Missed(t) => incomplete
        /\ Heard(t) /\ dev[t].fd = "none" => AddTodo(udev, t)
        /\ Heard(t) => Returned(udev, t)
        /\ dev[t].grabbed => Open(dev[t])
    BY <1>2, <1>4, IdleMeans
  <2>2. src' = src /\ udev' = udev /\ fwd' = fwd /\ sink' = sink /\ failure' = failure
    BY <1>1 DEF kernel, outputs
  <2>3. Bad(t)' <=> Bad(t)
    <3>1. SameOutputs(t)
      BY <1>1, <2>2 DEF SameOutputs
    <3> QED
      BY <1>1, <2>2, <3>1, BadSame
  <2>4. Missed(t)' => Missed(t)
    BY <1>1 DEF Missed, ShouldGrab, Keyboard, MouseHook, MouseBlock, Mouse
  <2>5. Heard(t)' <=> Heard(t)
    BY <1>1, <2>2 DEF Heard
  <2> QED
    BY <1>1, <2>1, <2>2, <2>3, <2>4, <2>5 DEF Released, Found, ReturnLast
<1>7. CASE jobs' = <<>>
  <2>1. PICK q \in Seq(Listed) : q = <<>>
    BY ShortListed
  <2>2. ToSet(q) = {} /\ Len(q) <= 1
    BY <2>1, SetOfShort
  <2>3. Ordered(q) /\ NoRetire(q) /\ ~InPass(q) /\ ~FailTodo(q)
    <3>1. Ordered(q)
      BY <2>1, <2>2, OrderedSimple
    <3> QED
      BY <2>2, <3>1 DEF NoRetire, InPass, FailTodo
  <2>4. jobs' = q
    BY <1>7, <2>1
  <2> QED
    BY <1>5, <1>6, <2>1, <2>3, <2>4, NewJobsOutlook
<1>8. CASE jobs' = (IF mode.forwarding /\ ~mode.monitor THEN ScanJobs ELSE <<>>)
                   \o <<[op |-> "ensure"]>> \o PassJobs
  <2>1. PICK p : p = (IF mode.forwarding /\ ~mode.monitor THEN ScanJobs ELSE <<>>)
    OBVIOUS
  <2>2. p \in Seq(Listed) /\ \A j \in ToSet(p) : j.op = "see"
    BY <1>0, <2>1, ScanFacts, ShortListed, SetOfShort
  <2>3. PICK e : e = [op |-> "ensure"]
    OBVIOUS
  <2>4. e \in Listed /\ e.op = "ensure"
    BY <2>3, NewJobs
  <2>5. PICK q : q = <<e>>
    OBVIOUS
  <2>6. q \in Seq(Listed) /\ ToSet(q) = {e}
    BY <2>4, <2>5, OneJob
  <2>7. PICK r : r = p \o q
    OBVIOUS
  <2>8. r \in Seq(Listed) /\ ToSet(r) = ToSet(p) \cup {e}
    BY <2>2, <2>6, <2>7, ConcatListed, SetOfConcat
  <2>9. PICK all : all = PassJobs
    OBVIOUS
  <2>10. /\ all \in Seq(Listed) /\ AllPass(all)
         /\ \A j \in ToSet(all) : IsPass(j) /\ j.op = "grab"
    BY <2>9, PassMeans
  <2>11. PICK x : x = r \o all
    OBVIOUS
  <2>12. x \in Seq(Listed) /\ ToSet(x) = ToSet(r) \cup ToSet(all)
    BY <2>8, <2>10, <2>11, ConcatListed, SetOfConcat
  <2>13. jobs' = x
    BY <1>8, <2>1, <2>3, <2>5, <2>7, <2>9, <2>11
  <2>14. \A j \in ToSet(r) : j.op \in {"see", "ensure"}
    BY <2>2, <2>4, <2>8
  <2>15. Ordered(x)
    <3>1. Ordered(all)
      BY <2>10, OrderedSimple
    <3>2. \A j \in ToSet(r) : j.op # "gate" /\ ~IsPass(j)
      BY <2>14 DEF IsPass
    <3> QED
      BY <2>8, <2>10, <2>11, <3>1, <3>2, OrderedConcat
  <2>16. NoRetire(x) /\ ~FailTodo(x) /\ AllPass(x)
    <3>1. \A j \in ToSet(x) : j.op \in {"see", "ensure", "grab"} /\ (j.op = "grab" => IsPass(j))
      BY <2>10, <2>12, <2>14
    <3>2. NoRetire(x) /\ ~FailTodo(x)
      BY <3>1 DEF NoRetire, FailTodo, IsPass
    <3> QED
      BY <2>10, <2>12, <3>2 DEF AllPass
  <2> QED
    BY <1>5, <1>6, <2>12, <2>13, <2>15, <2>16, NewJobsOutlook
<1> QED
  BY <1>7, <1>8 DEF Gate
-----------------------------------------------------------------------------
(* The outlook after a job that is no part of a grab's change *)

\* The jobs behind such a one.
LEMMA RestMeans ==
  ASSUME TypeOK, JobsInOrder, jobs # <<>>, Head(jobs).op # "grab", NEW q, q = Tail(jobs)
  PROVE  /\ q \in Seq(Listed) /\ Ordered(q) /\ NoRetire(q)
         /\ InPass(q) => AllPass(q)
         /\ FailTodo(q) => incomplete
         /\ InPass(q) <=> InPass(jobs)
         /\ \A t : GrabTodo(q, t) <=> GrabTodo(jobs, t)
         /\ \A t : CheckTodo(jobs, t) => CheckTodo(q, t) \/ (Head(jobs).op = "fail" /\ Head(jobs).of = t)
         /\ \A t : SeeTodo(jobs, t) => SeeTodo(q, t) \/ (Head(jobs).op = "see" /\ IsSource(Head(jobs).node, t))
<1>1. PICK h : h = Head(jobs)
  OBVIOUS
<1>2. /\ jobs \in Seq(Jobs) /\ h \in Jobs /\ q \in Seq(Listed) /\ ToSet(jobs) = {h} \cup ToSet(q)
      /\ h.op # "grab"
  BY <1>1, HeadRest
<1>3. Ordered(q)
  BY <1>2, OrderedRest DEF JobsInOrder
<1>4. NoRetire(q)
  BY <1>1, <1>2 DEF JobsInOrder, RetireOK, FailingOpen
<1>5. ~IsPass(h)
  BY <1>2 DEF IsPass
<1>6. InPass(q) <=> InPass(jobs)
  BY <1>2, <1>5 DEF InPass
<1>7. ASSUME InPass(q), NEW s \in Sources PROVE GrabJob(s, "pass") \in ToSet(q)
  <2>1. GrabJob(s, "pass") \in ToSet(jobs)
    BY <1>1, <1>5, <1>6, <1>7 DEF JobsInOrder, PassWhole, AllPass
  <2>2. GrabJob(s, "pass") # h
    BY <1>5, PassJob
  <2> QED
    BY <2>1, <2>2, <1>2
<1>8. FailTodo(q) => incomplete
  BY <1>2 DEF FailTodo, JobsInOrder, FailNoted
<1>9. \A t : GrabTodo(q, t) <=> GrabTodo(jobs, t)
  BY <1>2 DEF GrabTodo
<1>10. \A t : CheckTodo(jobs, t) => CheckTodo(q, t) \/ (h.op = "fail" /\ h.of = t)
  BY <1>2 DEF CheckTodo
<1>11. \A t : SeeTodo(jobs, t) => SeeTodo(q, t) \/ (h.op = "see" /\ IsSource(h.node, t))
  BY <1>2 DEF SeeTodo
<1> QED
  BY <1>1, <1>2, <1>3, <1>4, <1>6, <1>7, <1>8, <1>9, <1>10, <1>11 DEF AllPass

\* The job is done, and p is what it adds.
LEMMA PushOutlook ==
  ASSUME IInv, Outlook, jobs # <<>>, Head(jobs).op # "grab",
         NEW p \in Seq(Listed), jobs' = p \o Tail(jobs),
         \A j \in ToSet(p) : j.op # "gate" /\ ~IsPass(j),
         FailTodo(p) => incomplete', NoRetire(p) \/ RetireOK',
         UNCHANGED <<src, udev, sink, failure, pass, masks, mode>>,
         incomplete => incomplete', torn => torn', SinkInOrder',
         \A t \in Sources :
           /\ Released(t)'
           /\ dev'[t].fd = "none" =>
                /\ dev[t].fd = "none"
                /\ ~(Heard(t) /\ Head(jobs).op = "see" /\ IsSource(Head(jobs).node, t))
           /\ Bad(t)' /\ dev'[t].grabbed =>
                \/ failure \/ torn' \/ CheckTodo(p, t)
                \/ Bad(t) /\ dev[t].grabbed /\ ~(Head(jobs).op = "fail" /\ Head(jobs).of = t)
           /\ Missed(t)' => Missed(t) \/ GrabTodo(p, t)
  PROVE  Outlook'
<1>0. TypeOK /\ JobsInOrder
  BY DEF IInv, Outlook
<1>1. PICK q : q = Tail(jobs)
  OBVIOUS
<1>2. /\ q \in Seq(Listed) /\ Ordered(q) /\ NoRetire(q)
      /\ InPass(q) => AllPass(q)
      /\ FailTodo(q) => incomplete
      /\ InPass(q) <=> InPass(jobs)
      /\ \A t : GrabTodo(q, t) <=> GrabTodo(jobs, t)
      /\ \A t : CheckTodo(jobs, t) => CheckTodo(q, t) \/ (Head(jobs).op = "fail" /\ Head(jobs).of = t)
      /\ \A t : SeeTodo(jobs, t) => SeeTodo(q, t) \/ (Head(jobs).op = "see" /\ IsSource(Head(jobs).node, t))
  BY <1>0, <1>1, RestMeans
<1>3. PICK r : r = jobs'
  OBVIOUS
<1>4. r = p \o q
  BY <1>1, <1>3
<1>5. r \in Seq(Listed) /\ ToSet(r) = ToSet(p) \cup ToSet(q)
  BY <1>2, <1>4, ConcatListed, SetOfConcat
<1>6. Ordered(r)
  BY <1>2, <1>4, OrderedConcat
<1>7. InPass(r) <=> InPass(q)
  BY <1>5 DEF InPass
<1>8. InPass(r) => AllPass(r)
  BY <1>2, <1>5, <1>7 DEF AllPass
<1>9. FailTodo(r) => incomplete'
  BY <1>2, <1>5 DEF FailTodo
<1>10. RetireOK'
  <2>1. CASE NoRetire(p)
    <3>1. NoRetire(r)
      BY <2>1, <1>2, <1>5 DEF NoRetire
    <3>2. r # <<>> => ToSet(r) = {Head(r)} \cup ToSet(Tail(r))
      BY <1>5, SetOfRest
    <3>3. r # <<>> => NoRetire(Tail(r)) /\ Head(r).op # "retire"
      BY <3>1, <3>2 DEF NoRetire
    <3> QED
      BY <1>3, <3>3 DEF RetireOK
  <2> QED
    BY <2>1
<1>11. JobsInOrder'
  BY <1>3, <1>6, <1>8, <1>9, <1>10 DEF JobsInOrder, PassWhole, FailNoted
<1>12. /\ \A t : CheckTodo(r, t) <=> CheckTodo(p, t) \/ CheckTodo(q, t)
       /\ \A t : GrabTodo(r, t) <=> GrabTodo(p, t) \/ GrabTodo(q, t)
       /\ \A t : SeeTodo(q, t) => SeeTodo(r, t)
  BY <1>5 DEF CheckTodo, GrabTodo, SeeTodo
<1>13. ASSUME NEW t \in Sources PROVE Watched(t)' /\ Retried(t)' /\ Found(t)' /\ ReturnLast(t)'
  <2>0. Watched(t) /\ Retried(t) /\ Found(t) /\ ReturnLast(t)
    BY DEF Outlook
  <2>1. StageOf(r, t) \notin Taking
    BY <1>5, ListedJobs DEF Taking
  <2>2. Watched(t)'
    <3> SUFFICES ASSUME Bad(t)', dev'[t].grabbed, ~failure, ~torn', ~CheckTodo(p, t)
                 PROVE  CheckTodo(q, t)
      BY <1>3, <1>12, <2>1 DEF Watched
    <3>1. Bad(t) /\ dev[t].grabbed /\ ~(Head(jobs).op = "fail" /\ Head(jobs).of = t)
      OBVIOUS
    <3>2. CheckTodo(jobs, t)
      BY <2>0, <3>1 DEF Watched
    <3> QED
      BY <1>2, <3>1, <3>2
  <2>3. Retried(t)'
    <3> SUFFICES ASSUME Missed(t)', ~GrabTodo(p, t), ~GrabTodo(q, t)
                 PROVE  (InPass(q) /\ pass.again) \/ (~InPass(q) /\ incomplete')
      BY <1>3, <1>7, <1>12 DEF Retried
    <3>1. Missed(t)
      OBVIOUS
    <3> QED
      BY <1>2, <2>0, <3>1 DEF Retried
  <2>4. Heard(t)' <=> Heard(t)
    BY DEF Heard
  <2>5. Found(t)'
    BY <1>2, <1>3, <1>12, <2>0, <2>4 DEF Found
  <2>6. ReturnLast(t)'
    BY <2>0, <2>4 DEF ReturnLast
  <2> QED
    BY <2>2, <2>3, <2>5, <2>6
<1> QED
  BY <1>11, <1>13 DEF Outlook

\* The job is done, and adds nothing.
LEMMA TailOutlook ==
  ASSUME IInv, Outlook, jobs # <<>>, Head(jobs).op \notin {"grab", "fail"}, jobs' = Tail(jobs),
         UNCHANGED <<src, udev, sink, failure, pass, masks, mode>>,
         incomplete => incomplete', torn => torn', SinkInOrder',
         \A t \in Sources :
           /\ dev'[t].fd = dev[t].fd /\ dev'[t].grabbed = dev[t].grabbed
           /\ dev[t].fd = "none" /\ Heard(t) => ~(Head(jobs).op = "see" /\ IsSource(Head(jobs).node, t))
           /\ Bad(t)' /\ dev[t].grabbed => Bad(t)
  PROVE  Outlook'
<1>0. TypeOK
  BY DEF IInv
<1>1. PICK p \in Seq(Listed) : p = <<>>
  BY ShortListed
<1>2. ToSet(p) = {}
  BY <1>1, SetOfShort
<1>3. jobs' = p \o Tail(jobs)
  <2>1. Tail(jobs) \in Seq(Listed)
    BY <1>0, HeadRest
  <2> QED
    BY <1>1, <2>1
<1>4. /\ \A j \in ToSet(p) : j.op # "gate" /\ ~IsPass(j)
      /\ ~FailTodo(p) /\ NoRetire(p)
  BY <1>2 DEF FailTodo, NoRetire
<1>5. ASSUME NEW t \in Sources PROVE Released(t)' /\ (Missed(t)' => Missed(t))
  BY DEF Outlook, Released, Missed, Open, ShouldGrab, Keyboard, MouseHook, MouseBlock, Mouse
<1> QED
  BY <1>1, <1>3, <1>4, <1>5, PushOutlook

\* What forwarding is ensured for, and what is left alone.
LEMMA EnsureMeans ==
  ASSUME NEW D, NEW S, EnsureForwarding(D, S)
  PROVE  /\ Wants(D, S) \subseteq S
         /\ \A t \in Wants(D, S) : Failed(t)
         /\ \A t \in Sources : t \notin Wants(D, S) => dev'[t] = D[t] /\ fwd'[t] = fwd[t]
<1>1. PICK unable :
         /\ fwd' = EnsuredForward(D, S, unable)
         /\ dev' = [s \in Sources |->
                     IF s \notin Wants(D, S) THEN D[s]
                     ELSE [D[s] EXCEPT !.owed = {}, !.ready = fwd'[s].open /\ ~HasClone(s)]]
  BY DEF EnsureForwarding
<1>2. \A t \in Sources : t \notin Wants(D, S) => dev'[t] = D[t] /\ fwd'[t] = fwd[t]
  BY <1>1 DEF EnsuredForward
<1> QED
  BY <1>2 DEF Wants

\* Registering forwarding again touches only outputs that do not work.
LEMMA EnsureOutlook ==
  ASSUME IInv, Outlook, Ensure
  PROVE  Outlook'
<1>0. TypeOK /\ dev \in [Sources -> DevSet]
  BY DEF IInv, TypeOK, ReaderOK
<1>1. /\ Job("ensure") /\ jobs' = Tail(jobs)
      /\ UNCHANGED <<src, udev, sink, failure, sinks, pass, incomplete, masks, torn, mode>>
  BY DEF Ensure
<1>2. PICK S : EnsureForwarding(dev, S)
  BY DEF Ensure
<1>3. \A t \in Sources : dev'[t].fd = dev[t].fd /\ dev'[t].grabbed = dev[t].grabbed
  BY <1>0, <1>2, EnsureFacts
<1>4. /\ \A t \in Wants(dev, S) : Failed(t)
      /\ \A t \in Sources : t \notin Wants(dev, S) => dev'[t] = dev[t] /\ fwd'[t] = fwd[t]
  BY <1>2, EnsureMeans
<1>5. ASSUME NEW t \in Sources, Bad(t)' PROVE Bad(t)
  <2>1. CASE t \in Wants(dev, S)
    BY <2>1, <1>1, <1>4, <1>5 DEF Bad, NeedsForwarding, Usable, Keyboard, MouseBlock
  <2>2. CASE t \notin Wants(dev, S)
    <3>1. SameOutputs(t)
      BY <2>2, <1>4 DEF SameOutputs
    <3> QED
      BY <3>1, <1>1, <1>5, BadSame
  <2> QED
    BY <2>1, <2>2
<1>6. SinkInOrder'
  BY <1>1 DEF Outlook, SinkInOrder
<1>7. jobs # <<>> /\ Head(jobs).op = "ensure"
  BY <1>1 DEF Job
<1> QED
  BY <1>1, <1>3, <1>5, <1>6, <1>7, TailOutlook

\* A clone is retired after its source failed open.
LEMMA RetireOutlook ==
  ASSUME IInv, Outlook, Retire
  PROVE  Outlook'
<1>0. TypeOK /\ dev \in [Sources -> DevSet] /\ fwd \in [Sources -> FwdSet]
  BY DEF IInv, TypeOK, ReaderOK, OutsideOK
<1>1. PICK s : s = Head(jobs).of
  OBVIOUS
<1>2. /\ fwd' = [fwd EXCEPT ![s] = NoForward(@.id)]
      /\ dev' = [dev EXCEPT ![s].owed = {}, ![s].ready = FALSE]
      /\ jobs' = Tail(jobs) /\ Job("retire")
      /\ UNCHANGED <<src, udev, sink, failure, sinks, pass, incomplete, masks, torn, mode>>
  BY <1>1 DEF Retire
<1>3. jobs # <<>> /\ Head(jobs).op = "retire" /\ Head(jobs) \in Jobs
  BY <1>0, <1>2, HeadRest DEF Job
<1>4. s \in Sources
  BY <1>1, <1>3, OtherFacts
<1>5. ~dev[s].grabbed
  BY <1>1, <1>3 DEF Outlook, JobsInOrder, RetireOK, FailingOpen
<1>6. PICK d : d = [dev[s] EXCEPT !.owed = {}, !.ready = FALSE]
  OBVIOUS
<1>7. d.fd = dev[s].fd /\ d.grabbed = dev[s].grabbed
  <2>1. dev[s] \in DevSet
    BY <1>0, <1>4
  <2> QED
    BY <1>6, <2>1 DEF DevSet
<1>8. dev'[s] = d /\ \A t \in Sources \ {s} : dev'[t] = dev[t] /\ fwd'[t] = fwd[t]
  BY <1>0, <1>2, <1>4, <1>6
<1>9. ASSUME NEW t \in Sources PROVE Bad(t)' /\ dev[t].grabbed => Bad(t)
  <2>1. t # s => SameOutputs(t)
    BY <1>8 DEF SameOutputs
  <2>2. t # s => (Bad(t)' <=> Bad(t))
    BY <1>2, <2>1, BadSame
  <2> QED
    BY <1>5, <2>2
<1>10. SinkInOrder'
  BY <1>2 DEF Outlook, SinkInOrder
<1>11. \A t \in Sources : dev'[t].fd = dev[t].fd /\ dev'[t].grabbed = dev[t].grabbed
  BY <1>7, <1>8
<1> QED
  BY <1>2, <1>3, <1>9, <1>10, <1>11, TailOutlook

\* A source is looked at: it is tracked, and its grab is to come.
LEMMA SeeSourceOutlook ==
  ASSUME IInv, Outlook, jobs # <<>>, Head(jobs).op = "see", NEW s \in Sources,
         NEW D \in [Sources -> DevSet], EnsureForwarding(D, {s}),
         jobs' = <<GrabJob(s, "track")>> \o Tail(jobs),
         UNCHANGED <<src, udev, sink, failure, sinks, pass, incomplete, masks, torn, mode>>,
         IsSource(Head(jobs).node, s), Open(D[s]), D[s].grabbed => dev[s].grabbed,
         \A t \in Sources \ {s} : D[t] = dev[t]
  PROVE  Outlook'
<1>0. TypeOK
  BY DEF IInv
<1>1. PICK g : g = GrabJob(s, "track")
  OBVIOUS
<1>2. g \in Listed /\ g.op = "grab" /\ g.of = s /\ g.stage = "enter" /\ g.within = "track"
  BY <1>1, NewJobs DEF GrabJob
<1>3. PICK p : p = <<g>>
  OBVIOUS
<1>4. p \in Seq(Listed) /\ ToSet(p) = {g} /\ jobs' = p \o Tail(jobs)
  BY <1>1, <1>2, <1>3, OneJob
<1>5. /\ \A j \in ToSet(p) : j.op # "gate" /\ ~IsPass(j)
      /\ ~FailTodo(p) /\ NoRetire(p) /\ CheckTodo(p, s) /\ GrabTodo(p, s)
  BY <1>2, <1>4 DEF IsPass, FailTodo, NoRetire, CheckTodo, GrabTodo, Taking
<1>6. \A t \in Sources : dev'[t].fd = D[t].fd /\ dev'[t].grabbed = D[t].grabbed
  <2>1. PICK S : S = {s}
    OBVIOUS
  <2> QED
    BY <1>0, <2>1, EnsureFacts
<1>7. \A t \in Sources \ {s} : dev'[t] = dev[t] /\ fwd'[t] = fwd[t]
  <2>1. PICK S : S = {s}
    OBVIOUS
  <2>2. /\ Wants(D, S) \subseteq S
        /\ \A t \in Sources : t \notin Wants(D, S) => dev'[t] = D[t] /\ fwd'[t] = fwd[t]
    BY <2>1, EnsureMeans
  <2> QED
    BY <2>1, <2>2
<1>8. SinkInOrder'
  BY DEF Outlook, SinkInOrder
<1>9. ASSUME NEW t \in Sources
      PROVE  /\ Released(t)'
             /\ dev'[t].fd = "none" =>
                  /\ dev[t].fd = "none"
                  /\ ~(Heard(t) /\ Head(jobs).op = "see" /\ IsSource(Head(jobs).node, t))
             /\ Bad(t)' /\ dev'[t].grabbed => CheckTodo(p, t) \/ (Bad(t) /\ dev[t].grabbed)
             /\ Missed(t)' => Missed(t) \/ GrabTodo(p, t)
  <2>1. CASE t = s
    <3>1. Open(dev'[s]) /\ dev'[s].fd # "none"
      BY <1>6 DEF Open
    <3> QED
      BY <1>5, <2>1, <3>1 DEF Released
  <2>2. CASE t # s
    <3>1. dev'[t] = dev[t] /\ SameOutputs(t)
      BY <1>7, <2>2 DEF SameOutputs
    <3>2. Bad(t)' <=> Bad(t)
      BY <3>1, BadSame
    <3>3. Missed(t)' => Missed(t)
      BY <3>1 DEF Missed, ShouldGrab, Keyboard, MouseHook, MouseBlock, Mouse
    <3>4. ~IsSource(Head(jobs).node, t)
      BY <2>2 DEF IsSource
    <3> QED
      BY <3>1, <3>2, <3>3, <3>4 DEF Outlook, Released
  <2> QED
    BY <2>1, <2>2
<1> QED
  BY <1>4, <1>5, <1>8, <1>9, PushOutlook

\* A node is looked at.
LEMMA SeeOutlook ==
  ASSUME IInv, Outlook, See
  PROVE  Outlook'
<1>0. /\ TypeOK /\ SinkInOrder /\ dev \in [Sources -> DevSet] /\ sinks \in SUBSET [id : Nat, gen : Nat]
      /\ sink \in SinkSet
  BY DEF IInv, TypeOK, ReaderOK, OutsideOK, Outlook
<1>1. UNCHANGED <<src, udev, sink, failure, pass, masks, mode>> /\ Job("see")
  BY DEF See
<1>2. jobs # <<>> /\ Head(jobs).op = "see" /\ Head(jobs) \in Jobs
  BY <1>0, <1>1, HeadRest DEF Job
<1>3. PICK n : n = Head(jobs).node
  OBVIOUS
<1>4. n \in Nodes /\ (n.kind # "sink" => n.of \in Sources) /\ n.id \in Nat
  BY <1>0, <1>2, <1>3, OtherFacts, NodeFacts
<1>5. PICK found : found = (IF Head(jobs).scan THEN Admitted(n) ELSE Present(n))
  OBVIOUS
<1>6. found => Present(n)
  BY <1>5 DEF Admitted
<1>7. ASSUME NEW t \in Sources, Heard(t), IsSource(n, t) PROVE found
  <2>1. n.kind = "source" /\ src[n.of].plug = "ready"
    BY <1>7 DEF Heard, IsSource
  <2>2. Present(n)
    BY <2>1 DEF Present
  <2>3. Admitted(n)
    BY <2>1, <2>2 DEF Admitted
  <2> QED
    BY <1>5, <2>2, <2>3
<1>8. CASE ~found /\ jobs' = Tail(jobs) /\ UNCHANGED <<tapped, fwd, dev, sinks, incomplete, torn, faults>>
  <2>1. SinkInOrder'
    BY <1>0, <1>1, <1>8 DEF SinkInOrder
  <2>2. ASSUME NEW t \in Sources PROVE Bad(t)' => Bad(t)
    <3>1. SameOutputs(t)
      BY <1>8 DEF SameOutputs
    <3> QED
      BY <1>1, <1>8, <3>1, BadSame
  <2> QED
    BY <1>1, <1>2, <1>3, <1>7, <1>8, <2>1, <2>2, TailOutlook
<1>9. CASE /\ found /\ n.kind = "source"
           /\ EnsureForwarding(IF Open(dev[n.of]) THEN dev
                               ELSE [dev EXCEPT ![n.of] = [Untracked EXCEPT !.fd = "open"]],
                               {n.of})
           /\ jobs' = <<GrabJob(n.of, "track")>> \o Tail(jobs)
           /\ UNCHANGED <<sinks, incomplete, torn>>
  <2>1. PICK s \in Sources : s = n.of
    BY <1>4, <1>9
  <2>2. PICK e : e = [Untracked EXCEPT !.fd = "open"]
    OBVIOUS
  <2>3. e \in DevSet /\ e.fd = "open" /\ ~e.grabbed
    BY <2>2 DEF Untracked, DevSet
  <2>4. PICK D : D = (IF Open(dev[s]) THEN dev ELSE [dev EXCEPT ![s] = e])
    OBVIOUS
  <2>5. /\ D \in [Sources -> DevSet] /\ Open(D[s]) /\ (D[s].grabbed => dev[s].grabbed)
        /\ \A t \in Sources \ {s} : D[t] = dev[t]
    <3>1. CASE Open(dev[s])
      BY <1>0, <2>4, <3>1
    <3>2. CASE ~Open(dev[s])
      <4>1. D = [dev EXCEPT ![s] = e]
        BY <2>4, <3>2
      <4>2. D \in [Sources -> DevSet] /\ D[s] = e /\ \A t \in Sources \ {s} : D[t] = dev[t]
        BY <1>0, <2>3, <4>1
      <4> QED
        BY <2>3, <4>2 DEF Open
    <3> QED
      BY <3>1, <3>2
  <2>6. EnsureForwarding(D, {s})
    BY <1>9, <2>1, <2>2, <2>4
  <2>7. IsSource(Head(jobs).node, s)
    BY <1>3, <1>9, <2>1 DEF IsSource
  <2> QED
    BY <1>1, <1>2, <1>9, <2>1, <2>5, <2>6, <2>7, SeeSourceOutlook
<1>10. CASE /\ found /\ n.kind = "clone"
            /\ dev' = [dev EXCEPT ![n.of].ready = TRUE]
            /\ incomplete' = (incomplete \/ ~dev[n.of].ready)
            /\ jobs' = Tail(jobs)
            /\ UNCHANGED <<tapped, fwd, sinks, torn, faults>>
  <2>1. PICK s \in Sources : s = n.of
    BY <1>4, <1>10
  <2>2. PICK d : d = [dev[s] EXCEPT !.ready = TRUE]
    OBVIOUS
  <2>3. d.fd = dev[s].fd /\ d.grabbed = dev[s].grabbed /\ d.ready = TRUE
    BY <1>0, <2>2 DEF DevSet
  <2>4. dev'[s] = d /\ \A t \in Sources \ {s} : dev'[t] = dev[t]
    BY <1>0, <1>10, <2>1, <2>2
  <2>5. \A t \in Sources :
          dev'[t].fd = dev[t].fd /\ dev'[t].grabbed = dev[t].grabbed /\ (dev[t].ready => dev'[t].ready)
    BY <2>3, <2>4
  <2>6. ASSUME NEW t \in Sources, Bad(t)' PROVE Bad(t)
    BY <1>1, <1>10, <2>5, <2>6 DEF Bad, NeedsForwarding, Usable, Failed, SinkAdmitted, SinkAdmittedGeneration,
         Keyboard, MouseBlock
  <2>7. SinkInOrder'
    BY <1>0, <1>1, <1>10 DEF SinkInOrder
  <2>8. \A t \in Sources : ~IsSource(n, t)
    BY <1>10 DEF IsSource
  <2> QED
    BY <1>1, <1>2, <1>3, <1>10, <2>5, <2>6, <2>7, <2>8, TailOutlook
<1>11. CASE /\ found /\ n.kind = "sink"
            /\ LET new == \A k \in sinks : k.id # n.id
               IN /\ sinks' = IF new THEN sinks \cup {[id |-> n.id, gen |-> sink.gen]} ELSE sinks
                  /\ incomplete' = (incomplete \/ new)
                  /\ torn' = (torn \/ (new /\ sink.gen # n.id))
            /\ jobs' = Tail(jobs)
            /\ UNCHANGED <<tapped, fwd, dev, faults>>
  <2>1. n.id = sink.id /\ sink.gen \in Nat /\ sink.id \in Nat
    BY <1>0, <1>6, <1>11 DEF Present, SinkSet
  <2>2. PICK k0 : k0 = [id |-> n.id, gen |-> sink.gen]
    OBVIOUS
  <2>3. k0 \in [id : Nat, gen : Nat] /\ k0.id = sink.id /\ k0.gen = sink.gen
    BY <2>1, <2>2
  <2>4. /\ sinks' = sinks \/ (sinks' = sinks \cup {k0} /\ (sink.gen # sink.id => torn'))
        /\ incomplete => incomplete'
        /\ torn => torn'
    BY <1>11, <2>1, <2>2
  <2>5. PICK K : K = sinks'
    OBVIOUS
  <2>6. K \in SUBSET [id : Nat, gen : Nat] /\ sinks \subseteq K
    BY <1>0, <2>3, <2>4, <2>5
  <2>7. \A k \in K : k.gen <= sink.gen /\ k.id <= sink.id /\ (~torn' => k.gen = k.id)
    BY <1>0, <2>1, <2>3, <2>4, <2>5 DEF SinkInOrder
  <2>8. SinkInOrder'
    BY <1>0, <1>1, <2>5, <2>7 DEF SinkInOrder
  <2>9. ASSUME NEW t \in Sources, Bad(t)', ~Bad(t) PROVE FALSE
    <3>1. NeedsForwarding(t) /\ Usable(t)
      BY <2>9, <1>1 DEF Bad, NeedsForwarding, Keyboard, MouseBlock
    <3>2. Keyboard(t) /\ ~(K # {} /\ Max({k.gen : k \in K}) = sink.gen)
      BY <2>5, <2>9, <3>1, <1>1, <1>11 DEF Bad, Usable, Failed, Keyboard, SinkAdmitted, SinkAdmittedGeneration
    <3>3. sinks # {} /\ Max({k.gen : k \in sinks}) = sink.gen
      BY <3>1, <3>2 DEF Usable, SinkAdmitted, SinkAdmittedGeneration
    <3>4. \A k \in sinks : k.gen <= sink.gen
      BY <1>0 DEF SinkInOrder
    <3>5. PICK k \in sinks : k.gen = sink.gen
      BY <1>0, <2>1, <3>3, <3>4, NewestFacts
    <3>6. k \in K /\ \A x \in K : x.gen <= sink.gen
      BY <2>6, <2>7, <3>5
    <3>7. K # {} /\ Max({x.gen : x \in K}) = sink.gen
      BY <2>1, <2>6, <3>5, <3>6, NewestFacts
    <3> QED
      BY <3>2, <3>7
  <2>10. \A t \in Sources : ~IsSource(n, t)
    BY <1>11 DEF IsSource
  <2> QED
    BY <1>1, <1>2, <1>3, <1>11, <2>4, <2>8, <2>9, <2>10, TailOutlook
<1> QED
  BY <1>3, <1>5, <1>8, <1>9, <1>10, <1>11 DEF See

\* A source whose outputs are dead fails open, and a failed clone is replaced.
LEMMA FailOpenOutlook ==
  ASSUME IInv, Outlook, FailOpen
  PROVE  Outlook'
<1>0. TypeOK /\ incomplete \in BOOLEAN /\ dev \in [Sources -> DevSet] /\ fwd \in [Sources -> FwdSet]
  BY DEF IInv, TypeOK, ReaderOK, OutsideOK
<1>1. UNCHANGED <<kernel, outputs, dev, sinks, pass, masks, torn, mode, faults>> /\ Job("fail")
  BY DEF FailOpen
<1>2. jobs # <<>> /\ Head(jobs).op = "fail" /\ Head(jobs) \in Jobs
  BY <1>0, <1>1, HeadRest DEF Job
<1>3. PICK s \in Sources : s = Head(jobs).of
  BY <1>2, OtherFacts
<1>4. PICK grabbed \in BOOLEAN : grabbed = dev[s].grabbed
  BY <1>0, <1>3 DEF DevSet
<1>5. PICK cloneFailed \in BOOLEAN : cloneFailed = (fwd[s].open /\ fwd[s].failed)
  BY <1>0, <1>3 DEF FwdSet
<1>6. PICK dead \in BOOLEAN : dead = (cloneFailed \/ (grabbed /\ NeedsForwarding(s) /\ ~Usable(s)))
  <2>1. (cloneFailed \/ (grabbed /\ NeedsForwarding(s) /\ ~Usable(s))) \in BOOLEAN
    OBVIOUS
  <2> QED
    BY <2>1
<1>7. PICK g : g = GrabJob(s, "fail")
  OBVIOUS
<1>8. PICK x : x = [op |-> "retire", of |-> s]
  OBVIOUS
<1>9. /\ g \in Listed /\ g.op = "grab" /\ g.of = s /\ g.stage = "enter" /\ g.within = "fail"
      /\ x \in Listed /\ x.op = "retire" /\ x.of = s
  BY <1>7, <1>8, NewJobs DEF GrabJob
<1>10. PICK a : a = (IF dead /\ grabbed THEN <<g>> ELSE <<>>)
  OBVIOUS
<1>11. PICK b : b = (IF cloneFailed THEN <<x>> ELSE <<>>)
  OBVIOUS
<1>12. jobs' = (a \o b) \o Tail(jobs) /\ incomplete' = (incomplete \/ dead)
  BY <1>3, <1>4, <1>5, <1>6, <1>7, <1>8, <1>10, <1>11, Zenon DEF FailOpen
<1>13. /\ a \in Seq(Listed) /\ ToSet(a) = (IF dead /\ grabbed THEN {g} ELSE {})
       /\ b \in Seq(Listed) /\ ToSet(b) = (IF cloneFailed THEN {x} ELSE {})
  BY <1>9, <1>10, <1>11, ShortListed, SetOfShort
<1>14. PICK p : p = a \o b
  OBVIOUS
<1>15. p \in Seq(Listed) /\ ToSet(p) = ToSet(a) \cup ToSet(b) /\ jobs' = p \o Tail(jobs)
  BY <1>12, <1>13, <1>14, ConcatListed, SetOfConcat
<1>16. \A j \in ToSet(p) : j.op # "gate" /\ ~IsPass(j)
  BY <1>9, <1>13, <1>15 DEF IsPass
<1>17. FailTodo(p) => incomplete'
  BY <1>9, <1>12, <1>13, <1>15 DEF FailTodo
<1>18. dead /\ grabbed => CheckTodo(p, s)
  BY <1>9, <1>13, <1>15 DEF CheckTodo, Taking
<1>19. NoRetire(p) \/ RetireOK'
  <2>1. CASE ~cloneFailed
    BY <2>1, <1>9, <1>13, <1>15 DEF NoRetire
  <2>2. CASE cloneFailed
    <3>1. PICK q : q = Tail(jobs)
      OBVIOUS
    <3>2. q \in Seq(Listed) /\ NoRetire(q)
      BY <1>0, <1>2, <3>1, RestMeans DEF Outlook
    <3>3. PICK r : r = <<x>> \o q
      OBVIOUS
    <3>4. r \in Seq(Listed) /\ r # <<>> /\ Head(r) = x /\ Tail(r) = q
      BY <1>9, <3>2, <3>3, ConsFacts, ShortListed, ConcatListed
    <3>5. CASE grabbed
      <4>1. a = <<g>> /\ b = <<x>>
        BY <2>2, <3>5, <1>6, <1>10, <1>11
      <4>2. jobs' = <<g>> \o r
        BY <4>1, <1>9, <1>12, <3>1, <3>2, <3>3
      <4>3. PICK y : y = jobs'
        OBVIOUS
      <4>4. y # <<>> /\ Head(y) = g /\ Tail(y) = r
        BY <4>2, <4>3, <1>9, <3>4, ConsFacts
      <4>5. FailingOpen(g, s)
        BY <1>9 DEF FailingOpen
      <4> QED
        BY <1>9, <3>2, <3>4, <4>3, <4>4, <4>5 DEF RetireOK
    <3>6. CASE ~grabbed
      <4>1. a = <<>> /\ b = <<x>>
        BY <2>2, <3>6, <1>10, <1>11
      <4>2. jobs' = r
        BY <4>1, <1>9, <1>12, <3>1, <3>2, <3>3
      <4>3. ~dev'[s].grabbed
        BY <1>1, <1>4, <3>6
      <4> QED
        BY <1>9, <3>2, <3>4, <4>2, <4>3 DEF RetireOK
    <3> QED
      BY <3>5, <3>6
  <2> QED
    BY <2>1, <2>2
<1>20. UNCHANGED <<src, udev, sink, failure, pass, masks, mode, fwd, dev, sinks, torn>>
  BY <1>1 DEF kernel, outputs
<1>21. SinkInOrder'
  BY <1>20 DEF Outlook, SinkInOrder
<1>22. ASSUME NEW t \in Sources
       PROVE  /\ Released(t)'
              /\ dev'[t].fd = "none" => dev[t].fd = "none"
              /\ Bad(t)' /\ dev'[t].grabbed =>
                   CheckTodo(p, t) \/ (Bad(t) /\ dev[t].grabbed /\ Head(jobs).of # t)
              /\ Missed(t)' => Missed(t)
  <2>1. Bad(t)' <=> Bad(t)
    <3>1. SameOutputs(t)
      BY <1>20 DEF SameOutputs
    <3> QED
      BY <1>20, <3>1, BadSame
  <2>2. Missed(t)' => Missed(t)
    BY <1>20 DEF Missed, ShouldGrab, Keyboard, MouseHook, MouseBlock, Mouse
  <2>3. Bad(s) /\ grabbed => dead
    BY <1>6 DEF Bad
  <2>4. Released(t)'
    BY <1>20 DEF Outlook, Released
  <2>5. CASE t = s
    BY <2>5, <2>1, <2>2, <2>3, <2>4, <1>4, <1>18, <1>20
  <2>6. CASE t # s
    BY <2>6, <2>1, <2>2, <2>4, <1>3, <1>20
  <2> QED
    BY <2>5, <2>6
<1>23. incomplete => incomplete'
  BY <1>12
<1> QED
  BY <1>2, <1>15, <1>16, <1>17, <1>19, <1>20, <1>21, <1>22, <1>23, PushOutlook
-----------------------------------------------------------------------------
(* Failing open and remembering *)

\* It holds before the reader starts.
LEMMA InitOutlook == Init => Outlook
<1> SUFFICES ASSUME Init PROVE Outlook
  OBVIOUS
<1>1. jobs = <<>> /\ ToSet(jobs) = {} /\ udev = <<>> /\ ToSet(udev) = {} /\ sinks = {}
  BY SetOfShort DEF Init
<1>2. SinkInOrder
  BY <1>1 DEF Init, SinkInOrder
<1>3. JobsInOrder
  <2>1. Ordered(jobs)
    <3>1. PICK q \in Seq(Listed) : q = jobs
      BY <1>1, ShortListed
    <3>2. Len(q) <= 1
      BY <3>1, <1>1
    <3> QED
      BY <3>1, <3>2, OrderedSimple
  <2> QED
    BY <1>1, <2>1 DEF JobsInOrder, RetireOK, PassWhole, FailNoted, FailTodo
<1>4. ASSUME NEW s \in Sources PROVE Released(s) /\ Watched(s) /\ Retried(s) /\ Found(s) /\ ReturnLast(s)
  <2>1. ~dev[s].grabbed /\ ~Open(dev[s]) /\ ~mode.started
    BY DEF Init, Untracked, Open
  <2>2. StageOf(jobs, s) \notin Taking
    BY <1>1 DEF StageOf, Taking
  <2> QED
    BY <2>1, <2>2 DEF Released, Watched, Retried, Missed, Found, ReturnLast, Heard
<1> QED
  BY <1>2, <1>3, <1>4 DEF Outlook

\* A step that changes nothing.
LEMMA StutterOutlook ==
  ASSUME IInv, Outlook, UNCHANGED vars
  PROVE  Outlook'
<1>1. UNCHANGED <<udev, fwd, sink, failure, reader>> /\ src' = src
  BY DEF vars, kernel, outputs
<1> QED
  BY <1>1, QuietOutlook

\* Every step keeps the outlook.
LEMMA NextOutlook == IInv /\ Outlook /\ [Next]_vars => Outlook'
<1> SUFFICES ASSUME IInv, Outlook, [Next]_vars PROVE Outlook'
  OBVIOUS
<1>1. CASE UNCHANGED vars
  BY <1>1, StutterOutlook
<1>2. CASE Start \/ EnableForwarding
  BY <1>2, ScanOutlook
<1>3. CASE Udev
  BY <1>3, UdevOutlook
<1>4. CASE Retry
  BY <1>4, RetryOutlook
<1>5. CASE Stop
  BY <1>5, StopOutlook
<1>6. CASE Step
  BY <1>6, SeeOutlook, EnsureOutlook, EnterGrabOutlook, RegrabOutlook, ProbeOutlook, SettleOutlook,
     GrabOutlook, ReleaseOutlook, FailOpenOutlook, RetireOutlook, GateOutlook DEF Step
<1>7. CASE Initialize
  BY <1>7, InitializeOutlook
<1>8. CASE SinkFails \/ Detach
  BY <1>8, FailureOutlook
<1>9. CASE Destroy \/ Recreate
  BY <1>9, SinkOutlook
<1>10. CASE \E demand \in Demands : SetMasks(demand)
  BY <1>10, SetMasksOutlook
<1>11. CASE \E o \in Sources \cup {"sink"} : Tap(o)
  BY <1>11, WorldOutlook
<1>12. ASSUME NEW s \in Sources,
              \/ Read(s) \/ Plug(s) \/ Unplug(s) \/ Reseat(s) \/ Foreign(s) \/ CloneFails(s)
              \/ \E k \in Keys : Key(s, k)
       PROVE  Outlook'
  BY <1>12, ReadOutlook, WorldOutlook, LeavingOutlook, FailureOutlook
<1> QED
  BY <1>1, <1>2, <1>3, <1>4, <1>5, <1>6, <1>7, <1>8, <1>9, <1>10, <1>11, <1>12 DEF Next

\* In every state of the reader, its jobs are in order, a grab on dead outputs is
\* watched, a missed one is retried, and a source that is there is found.
THEOREM OutlookHolds == Spec => []Outlook
  BY InitOutlook, NextOutlook, InductiveInvariant, PTL DEF Spec

\* Between two handlers, a grab whose outputs do not work has a retry due,
\* whenever the sequencer's failures and recreations and udev's events came.
THEOREM DeadOutputsFailOpen == Spec => []FailsOpen
<1>1. Outlook => FailsOpen
  <2> SUFFICES ASSUME Outlook, NEW s \in Sources, jobs = <<>>, dev[s].grabbed,
                      NeedsForwarding(s), ~Usable(s)
               PROVE  failure \/ incomplete \/ torn
    BY DEF FailsOpen
  <2>1. Bad(s) /\ dev[s].grabbed => failure \/ torn
    BY EmptyMeans
  <2> QED
    BY <2>1 DEF Bad
<1> QED
  BY <1>1, OutlookHolds, PTL

\* Between two handlers, a demanded source that could be grabbed and is not has a
\* retry due or an event waiting: none is missed between the monitor and the
\* scan, and no admission, end of a deferral or failed attempt is lost.
THEOREM SourcesNotForgotten == Spec => []NotForgotten
<1>1. IInv /\ Outlook => NotForgotten
  <2> SUFFICES ASSUME IInv, Outlook, NEW s \in Sources, jobs = <<>>, Able(s), ~dev[s].grabbed
               PROVE  failure \/ incomplete \/ udev # <<>>
    BY DEF NotForgotten
  <2>1. /\ Missed(s) => incomplete
        /\ Heard(s) /\ dev[s].fd = "none" => AddTodo(udev, s)
    BY EmptyMeans
  <2>2. dev[s].fd \in {"none", "open", "stale"}
    BY DEF IInv, TypeOK, ReaderOK, DevSet, Able
  <2>3. CASE dev[s].fd = "none"
    <3>1. AddTodo(udev, s)
      BY <2>1, <2>3 DEF Able, Heard
    <3>2. ToSet(udev) # {}
      BY <3>1 DEF AddTodo
    <3> QED
      BY <3>2, SetOfShort
  <2>4. CASE dev[s].fd # "none"
    BY <2>1, <2>2, <2>4 DEF Missed, Open, Able
  <2> QED
    BY <2>3, <2>4
<1> QED
  BY <1>1, OutlookHolds, InductiveInvariant, PTL
=============================================================================
