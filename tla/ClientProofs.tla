---------------------------- MODULE ClientProofs ----------------------------
(***************************************************************************)
(* Proofs about Client, for every set of roles, buffer capacity, recursion *)
(* limit and number of calls and posted frames.                            *)
(*                                                                         *)
(* What the application has been given, what is buffered and what is still *)
(* on the wire are stages of one history, the service's.  Two parts of the *)
(* invariant say so with a path: the grants the client holds lead, through *)
(* the frames on the wire, to the grants of the service; the keyboard      *)
(* record given last leads, through the buffered messages and then through *)
(* the wire, to the last one the service sent.                             *)
(***************************************************************************)
EXTENDS Client, SequenceTheorems, TLAPS

-----------------------------------------------------------------------------
(* The inductive invariant                                                 *)

FrameSet ==
    [kind : Events \cup {"hook", "response", "more"}, id : Nat, ok : BOOLEAN,
     scopes : SUBSET Scopes, n : Nat, prev : Nat]
PartSet == [part : {"header", "payload"}, f : FrameSet]
MessageSet ==
    [kind : Events \cup {"overflow"}, scopes : SUBSET Scopes, n : Nat, prev : Nat]

OpSet == {"hello", "query", "list", "authorize", "next", "hook"}

\* Only ksi_connect's request has id 1.
RequestSet == {r \in [id : Nat, op : OpSet] : r.id = 1 <=> r.op = "hello"}
CallSet ==
    {s \in [fn : {"request", "next", "handler"}, id : Nat, op : OpSet] :
        s.fn = "request" => (s.id = 1 <=> s.op = "hello")}

BufferSet ==
    [notes : Seq(MessageSet), leases : Seq(MessageSet), obs : Nat, dropped : Nat,
     pending : SUBSET Scopes, granted : SUBSET Scopes, ready : BOOLEAN,
     outstanding : Nat, handler : BOOLEAN, up : BOOLEAN]

\* The types of the variables.
TypeOK ==
    /\ role \in {"rpc", "lease", "callback", "observer"}
    /\ c \in BufferSet
    /\ stack \in Seq(CallSet)
    /\ rx \in FrameSet \cup {NoFrame}
    /\ open \in BOOLEAN
    /\ eof \in BOOLEAN
    /\ torn \in BOOLEAN
    /\ nextId \in Nat /\ nextId >= 2
    /\ wire \in Seq(PartSet)
    /\ late \in BOOLEAN
    /\ asked \in SUBSET RequestSet
    /\ grants \in SUBSET Scopes
    /\ posts \in Nat
    /\ keySeq \in Nat
    /\ seen \in MessageSet
    /\ owed \in Nat

\* Headers and payloads alternate on the wire w, each payload after its own
\* header; the stream ends with a payload and starts with what r waits for.
InStep(w, r) ==
    /\ r # NoFrame => w # <<>> /\ w[1].f = r
    /\ w # <<>> => w[1].part = (IF r = NoFrame THEN "header" ELSE "payload")
    /\ w # <<>> => w[Len(w)].part = "payload"
    /\ \A i \in 1..(Len(w) - 1) : /\ w[i].part # w[i + 1].part
                                  /\ w[i].part = "header" => w[i + 1].f = w[i].f

\* The elements of s lead from a to b, each by a step <<element, before, after>>
\* of the set R.
Path(s, R, X, a, b) ==
    \E g \in [Nat -> X] :
        /\ g[0] = a
        /\ g[Len(s)] = b
        /\ \A i \in 1..Len(s) : <<s[i], g[i - 1], g[i]>> \in R

\* What a frame, once its payload is read, does to the grants of a lease stream.
GrantEffect(f, before, after) ==
    /\ f.kind = "granted" => after = f.scopes
    /\ f.kind = "revoked" => after = before \ f.scopes
    /\ f.kind = "response" /\ f.ok => f.scopes = after
    /\ (f.kind = "response" /\ f.id # 1) \/ f.kind \notin {"granted", "revoked", "response"}
          => after = before
GrantSteps ==
    {t \in PartSet \X (SUBSET Scopes) \X (SUBSET Scopes) :
        IF t[1].part = "payload" THEN GrantEffect(t[1].f, t[2], t[3]) ELSE t[3] = t[2]}

\* What a frame or a buffered message does to the keyboard sequence number: a
\* delta is relative to the record before it.
KeyEffect(m, before, after) ==
    IF m.kind \in KeyRecords
    THEN after = m.n /\ (m.kind = "delta" => m.prev = before /\ before < after)
    ELSE after = before
WireKeySteps ==
    {t \in PartSet \X Nat \X Nat :
        IF t[1].part = "payload" THEN KeyEffect(t[1].f, t[2], t[3]) ELSE t[3] = t[2]}
LeaseKeySteps == {t \in MessageSet \X Nat \X Nat : KeyEffect(t[1], t[2], t[3])}

\* While the stream is open, the client's grants and the wire give the service's.
GrantsLead ==
    open /\ role = "lease" => Path(wire, GrantSteps, SUBSET Scopes, c.granted, grants)

\* While the stream is open, the last record given, the buffer and the wire lead
\* to the last one sent; notifications hold no keyboard records.
KeysReach(leases, from, w, to) ==
    \E k \in Nat : /\ Path(leases, LeaseKeySteps, Nat, from, k)
                   /\ Path(w, WireKeySteps, Nat, k, to)
NoKeys(notes) == \A i \in 1..Len(notes) : notes[i].kind \notin KeyRecords
KeysLead ==
    /\ open => KeysReach(c.leases, seen.n, wire, keySeq)
    /\ NoKeys(c.notes)

\* Only an observer buffers observations.
OnlyObserversObserve ==
    role # "observer" => c.obs = 0 /\ c.dropped = 0 /\ owed = 0

IInv ==
    /\ TypeOK
    /\ InStep(wire, rx)
    /\ ObservationsCounted
    /\ OnlyObserversObserve
    /\ GrantsLead
    /\ KeysLead

-----------------------------------------------------------------------------
(* Lemmas about paths                                                      *)

\* Nothing leads from a value to itself.
LEMMA PathEmpty ==
  ASSUME NEW R, NEW X, NEW a \in X
  PROVE  Path(<<>>, R, X, a, a)
<1> DEFINE g == [n \in Nat |-> a]
<1>1. g \in [Nat -> X] /\ g[0] = a /\ g[Len(<<>>)] = a
  OBVIOUS
<1>2. \A i \in 1..Len(<<>>) : <<(<<>>)[i], g[i - 1], g[i]>> \in R
  OBVIOUS
<1> QED
  BY <1>1, <1>2 DEF Path

\* The first element is taken off: it makes the first step of the path.
LEMMA PathTail ==
  ASSUME NEW S, NEW s \in Seq(S), s # <<>>, NEW R, NEW X, NEW a, NEW b,
         Path(s, R, X, a, b)
  PROVE  \E x \in X : <<Head(s), a, x>> \in R /\ Path(Tail(s), R, X, x, b)
<1>1. PICK g \in [Nat -> X] : /\ g[0] = a
                              /\ g[Len(s)] = b
                              /\ \A i \in 1..Len(s) : <<s[i], g[i - 1], g[i]>> \in R
  BY DEF Path
<1>2. /\ Len(s) \in Nat \ {0}
      /\ Head(s) = s[1]
      /\ Len(Tail(s)) = Len(s) - 1
      /\ \A i \in 1..(Len(s) - 1) : Tail(s)[i] = s[i + 1]
  BY EmptySeq, HeadTailProperties
<1> DEFINE h == [n \in Nat |-> g[n + 1]]
<1>3. h \in [Nat -> X] /\ g[1] \in X /\ h[0] = g[1] /\ h[Len(s) - 1] = b
  BY <1>1, <1>2
<1>4. \A i \in 1..(Len(s) - 1) : <<Tail(s)[i], h[i - 1], h[i]>> \in R
  <2> TAKE i \in 1..(Len(s) - 1)
  <2>1. i + 1 \in 1..Len(s) /\ i - 1 \in Nat /\ i \in Nat
    BY <1>2
  <2>2. h[i - 1] = g[i] /\ h[i] = g[i + 1] /\ (i + 1) - 1 = i
    BY <2>1
  <2>3. <<s[i + 1], g[(i + 1) - 1], g[i + 1]>> \in R
    BY <1>1, <2>1
  <2> QED
    BY <1>2, <2>2, <2>3
<1>5. <<Head(s), a, g[1]>> \in R
  <2>1. 1 \in 1..Len(s) /\ 1 - 1 = 0
    BY <1>2
  <2> QED
    BY <1>1, <1>2, <2>1
<1>6. Path(Tail(s), R, X, g[1], b)
  <2> HIDE DEF h
  <2> QED
    BY <1>2, <1>3, <1>4 DEF Path
<1> QED
  BY <1>3, <1>5, <1>6

\* One more element at the end makes one more step.
LEMMA PathAppend ==
  ASSUME NEW S, NEW s \in Seq(S), NEW e \in S, NEW R, NEW X, NEW a, NEW b, NEW x \in X,
         Path(s, R, X, a, b), <<e, b, x>> \in R
  PROVE  Path(Append(s, e), R, X, a, x)
<1>1. PICK g \in [Nat -> X] : /\ g[0] = a
                              /\ g[Len(s)] = b
                              /\ \A i \in 1..Len(s) : <<s[i], g[i - 1], g[i]>> \in R
  BY DEF Path
<1>2. /\ Len(s) \in Nat
      /\ Len(Append(s, e)) = Len(s) + 1
      /\ \A i \in 1..Len(s) : Append(s, e)[i] = s[i]
      /\ Append(s, e)[Len(s) + 1] = e
  BY LenProperties, AppendProperties
<1> DEFINE h == [n \in Nat |-> IF n <= Len(s) THEN g[n] ELSE x]
<1>3. h \in [Nat -> X] /\ h[0] = a /\ h[Len(s) + 1] = x
  BY <1>1, <1>2
<1>4. \A i \in 1..(Len(s) + 1) : <<Append(s, e)[i], h[i - 1], h[i]>> \in R
  <2> TAKE i \in 1..(Len(s) + 1)
  <2>1. CASE i = Len(s) + 1
    <3>1. h[i - 1] = b /\ h[i] = x
      BY <1>1, <1>2, <2>1
    <3> QED
      BY <1>2, <2>1, <3>1
  <2>2. CASE i # Len(s) + 1
    <3>1. i \in 1..Len(s) /\ h[i - 1] = g[i - 1] /\ h[i] = g[i]
      BY <1>2, <2>2
    <3> QED
      BY <1>1, <1>2, <3>1
  <2> QED
    BY <2>1, <2>2
<1> HIDE DEF h
<1> QED
  BY <1>2, <1>3, <1>4 DEF Path

\* The last element is replaced by one that can end the path anywhere.
LEMMA PathReplaceLast ==
  ASSUME NEW S, NEW s \in Seq(S), s # <<>>, NEW e \in S, NEW R, NEW X, NEW a, NEW b,
         NEW x \in X, Path(s, R, X, a, b), \A y \in X : <<e, y, x>> \in R
  PROVE  Path([s EXCEPT ![Len(s)] = e], R, X, a, x)
<1>1. PICK g \in [Nat -> X] : /\ g[0] = a
                              /\ g[Len(s)] = b
                              /\ \A i \in 1..Len(s) : <<s[i], g[i - 1], g[i]>> \in R
  BY DEF Path
<1> DEFINE t == [s EXCEPT ![Len(s)] = e]
<1>2. /\ Len(s) \in Nat \ {0}
      /\ Len(t) = Len(s)
      /\ \A i \in 1..Len(s) : t[i] = IF i = Len(s) THEN e ELSE s[i]
  BY EmptySeq, ExceptSeq
<1> HIDE DEF t
<1> DEFINE h == [n \in Nat |-> IF n = Len(s) THEN x ELSE g[n]]
<1>3. h \in [Nat -> X] /\ h[0] = a /\ h[Len(s)] = x
  BY <1>1, <1>2
<1>4. \A i \in 1..Len(s) : <<t[i], h[i - 1], h[i]>> \in R
  <2> TAKE i \in 1..Len(s)
  <2>0. i \in Nat /\ i - 1 \in Nat /\ i - 1 # Len(s)
    BY <1>2
  <2>1. h[i - 1] = g[i - 1] /\ h[i - 1] \in X
    BY <2>0
  <2>2. CASE i = Len(s)
    BY <1>2, <1>3, <2>1, <2>2
  <2>3. CASE i # Len(s)
    <3>1. h[i] = g[i] /\ t[i] = s[i]
      BY <1>2, <2>0, <2>3
    <3> QED
      BY <1>1, <2>1, <3>1
  <2> QED
    BY <2>2, <2>3
<1> HIDE DEF h
<1> QED
  BY <1>2, <1>3, <1>4 DEF Path, t

-----------------------------------------------------------------------------
(* Lemmas about the wire                                                   *)

\* A frame read by halves, and a posted one, keep the stream in step.
LEMMA HeaderInStep ==
  ASSUME NEW w \in Seq(PartSet), w # <<>>, InStep(w, NoFrame)
  PROVE  /\ Head(w).part = "header"
         /\ Head(w).f \in FrameSet
         /\ Tail(w) \in Seq(PartSet)
         /\ InStep(Tail(w), Head(w).f)
<1>1. /\ Len(w) \in Nat \ {0} /\ Head(w) = w[1] /\ Head(w) \in PartSet
      /\ Tail(w) \in Seq(PartSet) /\ Len(Tail(w)) = Len(w) - 1
      /\ \A i \in 1..(Len(w) - 1) : Tail(w)[i] = w[i + 1]
  BY EmptySeq, HeadTailProperties
<1>2. Head(w).part = "header" /\ Head(w).f \in FrameSet
  BY <1>1 DEF InStep, PartSet
<1>3. Len(w) # 1
  BY <1>1, <1>2 DEF InStep
<1>4. Len(w) >= 2 /\ 1 \in 1..(Len(w) - 1) /\ w[2].f = Head(w).f /\ w[2].part # "header"
  BY <1>1, <1>2, <1>3 DEF InStep
<1>5. w[2] \in PartSet
  BY <1>4, <1>1, ElementOfSeq
<1>6. Tail(w) # <<>> /\ Tail(w)[1] = w[2] /\ Tail(w)[Len(Tail(w))] = w[Len(w)]
  BY <1>1, <1>4, EmptySeq
<1>7. Head(w).f # NoFrame
  BY <1>2 DEF FrameSet, NoFrame, Events, KeyRecords
<1>8. Tail(w)[1].part = "payload"
  BY <1>4, <1>5, <1>6 DEF PartSet
<1>9. \A i \in 1..(Len(Tail(w)) - 1) :
          /\ Tail(w)[i].part # Tail(w)[i + 1].part
          /\ Tail(w)[i].part = "header" => Tail(w)[i + 1].f = Tail(w)[i].f
  <2> TAKE i \in 1..(Len(Tail(w)) - 1)
  <2>1. i + 1 \in 1..(Len(w) - 1) /\ i \in 1..(Len(w) - 1)
    BY <1>1
  <2>2. Tail(w)[i] = w[i + 1] /\ Tail(w)[i + 1] = w[(i + 1) + 1]
    BY <1>1, <2>1
  <2> QED
    BY <2>1, <2>2 DEF InStep
<1>10. Tail(w)[Len(Tail(w))].part = "payload"
  BY <1>6 DEF InStep
<1> QED
  BY <1>1, <1>2, <1>4, <1>6, <1>7, <1>8, <1>9, <1>10 DEF InStep

\* After the payload its own header is consumed and the next header comes.
LEMMA PayloadInStep ==
  ASSUME NEW w \in Seq(PartSet), NEW r \in FrameSet, InStep(w, r)
  PROVE  /\ w # <<>>
         /\ Head(w) = [part |-> "payload", f |-> r]
         /\ Tail(w) \in Seq(PartSet)
         /\ InStep(Tail(w), NoFrame)
<1>0. r # NoFrame
  BY DEF FrameSet, NoFrame, Events, KeyRecords
<1>1. w # <<>> /\ w[1].f = r /\ w[1].part = "payload"
  BY <1>0 DEF InStep
<1>2. /\ Len(w) \in Nat \ {0} /\ Head(w) = w[1] /\ Head(w) \in PartSet
      /\ Tail(w) \in Seq(PartSet) /\ Len(Tail(w)) = Len(w) - 1
      /\ \A i \in 1..(Len(w) - 1) : Tail(w)[i] = w[i + 1]
  BY <1>1, EmptySeq, HeadTailProperties
<1>3. Head(w) = [part |-> "payload", f |-> r]
  BY <1>1, <1>2 DEF PartSet
<1>4. ASSUME Tail(w) # <<>>
      PROVE  Tail(w)[1].part = "header" /\ Tail(w)[Len(Tail(w))].part = "payload"
  <2>1. Len(Tail(w)) \in Nat \ {0}
    BY <1>2, <1>4, EmptySeq
  <2>2. 1 \in 1..(Len(w) - 1) /\ 2 \in 1..Len(w)
    BY <1>2, <2>1
  <2>3. w[2] \in PartSet
    BY <2>2, ElementOfSeq
  <2>4. w[2].part = "header"
    BY <1>1, <2>2, <2>3 DEF InStep, PartSet
  <2>5. Tail(w)[Len(Tail(w))] = w[Len(w)]
    BY <1>2, <2>1
  <2> QED
    BY <1>1, <1>2, <2>2, <2>4, <2>5 DEF InStep
<1>5. \A i \in 1..(Len(Tail(w)) - 1) :
          /\ Tail(w)[i].part # Tail(w)[i + 1].part
          /\ Tail(w)[i].part = "header" => Tail(w)[i + 1].f = Tail(w)[i].f
  <2> TAKE i \in 1..(Len(Tail(w)) - 1)
  <2>1. i + 1 \in 1..(Len(w) - 1) /\ i \in 1..(Len(w) - 1)
    BY <1>2
  <2>2. Tail(w)[i] = w[i + 1] /\ Tail(w)[i + 1] = w[(i + 1) + 1]
    BY <1>2, <2>1
  <2> QED
    BY <2>1, <2>2 DEF InStep
<1> QED
  BY <1>1, <1>2, <1>3, <1>4, <1>5 DEF InStep

\* A posted frame goes behind whole frames, so it keeps the stream in step.
LEMMA PostInStep ==
  ASSUME NEW w \in Seq(PartSet), NEW r \in FrameSet \cup {NoFrame}, InStep(w, r),
         NEW f \in FrameSet
  PROVE  /\ w \o Parts(f) \in Seq(PartSet)
         /\ InStep(w \o Parts(f), r)
<1> DEFINE h == [part |-> "header", f |-> f]
           p == [part |-> "payload", f |-> f]
           v == w \o Parts(f)
<1>0. h \in PartSet /\ p \in PartSet
  BY DEF PartSet
<1>1. Parts(f) \in Seq(PartSet) /\ Len(Parts(f)) = 2 /\ Parts(f)[1] = h /\ Parts(f)[2] = p
  BY <1>0 DEF Parts
<1>2. /\ v \in Seq(PartSet) /\ Len(v) = Len(w) + 2 /\ Len(w) \in Nat
      /\ \A i \in 1..(Len(w) + 2) : v[i] = IF i <= Len(w) THEN w[i] ELSE Parts(f)[i - Len(w)]
  <2> HIDE DEF h, p
  <2>1. Len(w) \in Nat
    BY LenProperties
  <2>2. /\ v \in Seq(PartSet) /\ Len(v) = Len(w) + Len(Parts(f))
        /\ \A i \in 1..(Len(w) + Len(Parts(f))) :
              v[i] = IF i <= Len(w) THEN w[i] ELSE Parts(f)[i - Len(w)]
    BY <1>1, ConcatProperties
  <2> QED
    BY <1>1, <2>1, <2>2
<1>3. /\ \A i \in 1..Len(w) : v[i] = w[i]
      /\ v[Len(w) + 1] = h /\ v[Len(w) + 2] = p
  BY <1>1, <1>2
<1>4. v # <<>> /\ Len(v) - 1 = Len(w) + 1
  BY <1>2
<1> HIDE DEF v
<1>5. \A i \in 1..(Len(w) + 1) : /\ v[i].part # v[i + 1].part
                                 /\ v[i].part = "header" => v[i + 1].f = v[i].f
  <2> TAKE i \in 1..(Len(w) + 1)
  <2>1. CASE i = Len(w) + 1
    BY <1>2, <1>3, <2>1
  <2>2. CASE i = Len(w)
    <3>1. w # <<>> /\ w[Len(w)].part = "payload"
      BY <2>2, <1>2 DEF InStep
    <3> QED
      BY <1>2, <1>3, <2>2, <3>1
  <2>3. CASE i < Len(w)
    <3>1. i \in 1..(Len(w) - 1) /\ i + 1 \in 1..Len(w) /\ i \in 1..Len(w)
      BY <1>2, <2>3
    <3> QED
      BY <1>3, <3>1 DEF InStep
  <2> QED
    BY <1>2, <2>1, <2>2, <2>3
<1>6. CASE w = <<>>
  <2>1. r = NoFrame /\ Len(w) = 0
    BY <1>6 DEF InStep
  <2> QED
    BY <1>2, <1>3, <1>4, <1>5, <1>6, <2>1 DEF InStep, v
<1>7. CASE w # <<>>
  <2>1. Len(w) \in Nat \ {0}
    BY <1>7, EmptySeq
  <2>2. v[1] = w[1]
    BY <1>3, <2>1
  <2> QED
    BY <1>2, <1>3, <1>4, <1>5, <1>7, <2>2 DEF InStep, v
<1> QED
  BY <1>6, <1>7

\* A posted frame is two parts at the end.
LEMMA PostIsAppend ==
  ASSUME NEW w \in Seq(PartSet), NEW f \in FrameSet
  PROVE  w \o Parts(f) =
         Append(Append(w, [part |-> "header", f |-> f]), [part |-> "payload", f |-> f])
<1> DEFINE h == [part |-> "header", f |-> f]
           p == [part |-> "payload", f |-> f]
<1>0. h \in PartSet /\ p \in PartSet
  BY DEF PartSet
<1>1. Parts(f) = <<h, p>>
  BY DEF Parts
<1> HIDE DEF h, p
<1>2. <<h>> \in Seq(PartSet) /\ <<p>> \in Seq(PartSet) /\ <<h>> \o <<p>> = <<h, p>>
  <2>1. <<h>> \in Seq(PartSet) /\ <<p>> \in Seq(PartSet) /\ <<h, p>> \in Seq(PartSet)
    BY <1>0
  <2>2. Len(<<h>>) = 1 /\ Len(<<p>>) = 1 /\ Len(<<h, p>>) = 2
    OBVIOUS
  <2>3. Len(<<h>> \o <<p>>) = 2 /\ <<h>> \o <<p>> \in Seq(PartSet)
    BY <2>1, <2>2, ConcatProperties
  <2>4. \A i \in 1..2 : (<<h>> \o <<p>>)[i] = <<h, p>>[i]
    BY <2>1, <2>2, ConcatProperties
  <2> QED
    BY <2>1, <2>2, <2>3, <2>4, SeqEqual
<1>3. Append(w, h) = w \o <<h>> /\ Append(w, h) \in Seq(PartSet)
  BY <1>0, AppendIsConcat, AppendProperties
<1>4. Append(Append(w, h), p) = Append(w, h) \o <<p>>
  BY <1>0, <1>3, AppendIsConcat
<1>5. (w \o <<h>>) \o <<p>> = w \o (<<h>> \o <<p>>)
  BY <1>2, ConcatAssociative
<1> QED
  BY <1>1, <1>2, <1>3, <1>4, <1>5 DEF h, p

\* A posted frame takes the grants one step further.
LEMMA PostGrants ==
  ASSUME NEW w \in Seq(PartSet), NEW f \in FrameSet, NEW a,
         NEW b \in SUBSET Scopes, NEW x \in SUBSET Scopes,
         Path(w, GrantSteps, SUBSET Scopes, a, b), GrantEffect(f, b, x)
  PROVE  Path(w \o Parts(f), GrantSteps, SUBSET Scopes, a, x)
<1> DEFINE h == [part |-> "header", f |-> f]
           p == [part |-> "payload", f |-> f]
<1>1. h \in PartSet /\ p \in PartSet
  BY DEF PartSet
<1>2. <<h, b, b>> \in GrantSteps /\ <<p, b, x>> \in GrantSteps
  BY <1>1 DEF GrantSteps
<1>3. w \o Parts(f) = Append(Append(w, h), p)
  BY PostIsAppend
<1> HIDE DEF h, p
<1>4. Append(w, h) \in Seq(PartSet)
  BY <1>1, AppendProperties
<1>5. Path(Append(w, h), GrantSteps, SUBSET Scopes, a, b)
  BY <1>1, <1>2, PathAppend
<1>6. Path(Append(Append(w, h), p), GrantSteps, SUBSET Scopes, a, x)
  BY <1>1, <1>2, <1>4, <1>5, PathAppend
<1> QED
  BY <1>3, <1>6

\* A posted frame takes the keyboard sequence one step further.
LEMMA PostKeys ==
  ASSUME NEW w \in Seq(PartSet), NEW f \in FrameSet, NEW leases, NEW a,
         NEW b \in Nat, NEW x \in Nat, KeysReach(leases, a, w, b), KeyEffect(f, b, x)
  PROVE  KeysReach(leases, a, w \o Parts(f), x)
<1> DEFINE h == [part |-> "header", f |-> f]
           p == [part |-> "payload", f |-> f]
<1>0. PICK k \in Nat : /\ Path(leases, LeaseKeySteps, Nat, a, k)
                      /\ Path(w, WireKeySteps, Nat, k, b)
  BY DEF KeysReach
<1>1. h \in PartSet /\ p \in PartSet
  BY DEF PartSet
<1>2. <<h, b, b>> \in WireKeySteps /\ <<p, b, x>> \in WireKeySteps
  BY <1>1 DEF WireKeySteps
<1>3. w \o Parts(f) = Append(Append(w, h), p)
  BY PostIsAppend
<1> HIDE DEF h, p
<1>4. Append(w, h) \in Seq(PartSet)
  BY <1>1, AppendProperties
<1>5. Path(Append(w, h), WireKeySteps, Nat, k, b)
  BY <1>0, <1>1, <1>2, PathAppend
<1>6. Path(Append(Append(w, h), p), WireKeySteps, Nat, k, x)
  BY <1>1, <1>2, <1>4, <1>5, PathAppend
<1> QED
  BY <1>0, <1>3, <1>6 DEF KeysReach

\* Reading a part makes the first step of both paths.
LEMMA ReadGrants ==
  ASSUME NEW w \in Seq(PartSet), w # <<>>, NEW a, NEW b,
         Path(w, GrantSteps, SUBSET Scopes, a, b)
  PROVE  \E x \in SUBSET Scopes :
            /\ IF Head(w).part = "payload" THEN GrantEffect(Head(w).f, a, x) ELSE x = a
            /\ Path(Tail(w), GrantSteps, SUBSET Scopes, x, b)
<1>1. PICK x \in SUBSET Scopes : /\ <<Head(w), a, x>> \in GrantSteps
                                /\ Path(Tail(w), GrantSteps, SUBSET Scopes, x, b)
  BY PathTail
<1>2. IF Head(w).part = "payload" THEN GrantEffect(Head(w).f, a, x) ELSE x = a
  BY <1>1 DEF GrantSteps
<1> QED
  BY <1>1, <1>2

\* The same for the keyboard records on the wire.
LEMMA ReadKeys ==
  ASSUME NEW w \in Seq(PartSet), w # <<>>, NEW a, NEW b,
         Path(w, WireKeySteps, Nat, a, b)
  PROVE  \E x \in Nat :
            /\ IF Head(w).part = "payload" THEN KeyEffect(Head(w).f, a, x) ELSE x = a
            /\ Path(Tail(w), WireKeySteps, Nat, x, b)
<1>1. PICK x \in Nat : /\ <<Head(w), a, x>> \in WireKeySteps
                      /\ Path(Tail(w), WireKeySteps, Nat, x, b)
  BY PathTail
<1>2. IF Head(w).part = "payload" THEN KeyEffect(Head(w).f, a, x) ELSE x = a
  BY <1>1 DEF WireKeySteps
<1> QED
  BY <1>1, <1>2

-----------------------------------------------------------------------------
(* Lemmas about the buffers                                                *)

\* An event changes the grants as the service meant it and touches no buffer.
LEMMA AbsorbProps ==
  ASSUME TypeOK, NEW d \in BufferSet, NEW f \in FrameSet, f.kind \in Events
  PROVE  LET e == Absorb(d, f) IN
         /\ e \in BufferSet
         /\ e.notes = d.notes /\ e.leases = d.leases
         /\ e.obs = d.obs /\ e.dropped = d.dropped
         /\ \A x : role = "lease" /\ GrantEffect(f, d.granted, x) => e.granted = x
<1> DEFINE e == Absorb(d, f)
<1>0. f.scopes \in SUBSET Scopes /\ d.granted \in SUBSET Scopes /\ d.pending \in SUBSET Scopes
  BY DEF FrameSet, BufferSet
<1>1. CASE f.kind = "granted" /\ role \in {"lease", "rpc"}
  <2>1. e = [d EXCEPT !.granted = f.scopes]
    BY <1>1 DEF Absorb
  <2> QED
    BY <1>0, <1>1, <2>1 DEF BufferSet, GrantEffect
<1>2. CASE f.kind = "revoked" /\ role \in {"lease", "rpc"}
  <2>1. e = [[d EXCEPT !.granted = d.granted \ f.scopes,
                       !.pending = d.pending \cup f.scopes] EXCEPT !.pending = {}]
    BY <1>2 DEF Absorb, ApplyRevocation
  <2>2. e = [d EXCEPT !.granted = d.granted \ f.scopes, !.pending = {}]
    BY <2>1 DEF BufferSet
  <2>3. d.granted \ f.scopes \in SUBSET Scopes /\ {} \in SUBSET Scopes
    BY <1>0
  <2>4. e.granted = d.granted \ f.scopes
    BY <2>2 DEF BufferSet
  <2>5. \A x : GrantEffect(f, d.granted, x) => e.granted = x
    BY <1>2, <2>4 DEF GrantEffect
  <2> QED
    BY <2>2, <2>3, <2>5 DEF BufferSet
<1>3. CASE f.kind = "revoked" /\ role \notin {"lease", "rpc"}
  <2>1. e = [d EXCEPT !.granted = d.granted \ f.scopes, !.pending = d.pending \cup f.scopes]
    BY <1>3 DEF Absorb, ApplyRevocation
  <2> QED
    BY <1>0, <1>3, <2>1 DEF BufferSet, GrantEffect
<1>4. CASE f.kind # "revoked" /\ ~(f.kind = "granted" /\ role \in {"lease", "rpc"})
  <2>1. e = d
    BY <1>4 DEF Absorb
  <2>2. f.kind # "response"
    BY DEF Events, KeyRecords
  <2> QED
    BY <1>4, <2>1, <2>2 DEF GrantEffect
<1> QED
  BY <1>1, <1>2, <1>3, <1>4

\* queue_lease_event: the message makes the step its frame made on the wire.
LEMMA QueueLeaseProps ==
  ASSUME NEW d \in BufferSet, NEW f \in FrameSet, f.kind \in Events
  PROVE  LET q == QueueLease(d, f) IN
         /\ q \in BufferSet
         /\ q.notes = d.notes /\ q.obs = d.obs /\ q.dropped = d.dropped
         /\ q.granted = d.granted
         /\ \A a, k, x \in Nat :
              Path(d.leases, LeaseKeySteps, Nat, a, k) /\ KeyEffect(f, k, x)
                => Path(q.leases, LeaseKeySteps, Nat, a, x)
<1> DEFINE m == KeyMessage(IF Coalesces(d, f) THEN "snapshot" ELSE f.kind, d.granted, f.n,
                           IF Coalesces(d, f) THEN 0 ELSE f.prev)
           q == QueueLease(d, f)
<1>1. m \in MessageSet /\ m.n = f.n
  BY DEF KeyMessage, MessageSet, FrameSet, BufferSet, Events, KeyRecords
<1>2. d.leases \in Seq(MessageSet)
  BY DEF BufferSet
<1>3. CASE Coalesces(d, f)
  <2> DEFINE l == [d.leases EXCEPT ![Len(d.leases)] = m]
  <2>1. d.leases # <<>> /\ f.kind \in KeyRecords
    BY <1>3 DEF Coalesces
  <2>2. l \in Seq(MessageSet)
    BY <1>1, <1>2, <2>1, EmptySeq, ExceptSeq
  <2>3. q = [[d EXCEPT !.leases = l] EXCEPT !.ready = Buffered([d EXCEPT !.leases = l])]
    BY <1>3 DEF QueueLease, UpdateReadiness
  <2>4. q \in BufferSet /\ q.leases = l /\ q.notes = d.notes /\ q.obs = d.obs
        /\ q.dropped = d.dropped /\ q.granted = d.granted
    <3>1. Buffered([d EXCEPT !.leases = l]) \in BOOLEAN
      BY DEF Buffered
    <3> HIDE DEF l
    <3> QED
      BY <2>2, <2>3, <3>1 DEF BufferSet
  <2>5. ASSUME NEW a \in Nat, NEW k \in Nat, NEW x \in Nat,
               Path(d.leases, LeaseKeySteps, Nat, a, k), KeyEffect(f, k, x)
        PROVE  Path(q.leases, LeaseKeySteps, Nat, a, x)
    <3>1. x = f.n /\ m.kind = "snapshot"
      BY <1>3, <2>1, <2>5 DEF KeyEffect, KeyMessage
    <3>2. \A y \in Nat : <<m, y, x>> \in LeaseKeySteps
      BY <1>1, <3>1 DEF LeaseKeySteps, KeyEffect, KeyRecords
    <3> HIDE DEF m
    <3>3. Path(l, LeaseKeySteps, Nat, a, x)
      BY <1>1, <1>2, <2>1, <2>5, <3>2, PathReplaceLast
    <3> QED
      BY <2>4, <3>3
  <2> QED
    BY <2>4, <2>5
<1>4. CASE ~Coalesces(d, f)
  <2> DEFINE l == Append(d.leases, m)
  <2>2. l \in Seq(MessageSet)
    BY <1>1, <1>2, AppendProperties
  <2>3. q = [[d EXCEPT !.leases = l] EXCEPT !.ready = Buffered([d EXCEPT !.leases = l])]
    BY <1>4 DEF QueueLease, UpdateReadiness
  <2>4. q \in BufferSet /\ q.leases = l /\ q.notes = d.notes /\ q.obs = d.obs
        /\ q.dropped = d.dropped /\ q.granted = d.granted
    <3>1. Buffered([d EXCEPT !.leases = l]) \in BOOLEAN
      BY DEF Buffered
    <3> HIDE DEF l
    <3> QED
      BY <2>2, <2>3, <3>1 DEF BufferSet
  <2>5. ASSUME NEW a \in Nat, NEW k \in Nat, NEW x \in Nat,
               Path(d.leases, LeaseKeySteps, Nat, a, k), KeyEffect(f, k, x)
        PROVE  Path(q.leases, LeaseKeySteps, Nat, a, x)
    <3>1. m.kind = f.kind /\ m.prev = f.prev
      BY <1>4 DEF KeyMessage
    <3>2. <<m, k, x>> \in LeaseKeySteps
      BY <1>1, <2>5, <3>1 DEF LeaseKeySteps, KeyEffect
    <3> HIDE DEF m
    <3>3. Path(l, LeaseKeySteps, Nat, a, x)
      BY <1>1, <1>2, <2>5, <3>2, PathAppend
    <3> QED
      BY <2>4, <3>3
  <2> QED
    BY <2>4, <2>5
<1> QED
  BY <1>3, <1>4
\* queue_notification appends a notification.
LEMMA QueueNotificationProps ==
  ASSUME NEW d \in BufferSet, NEW f \in FrameSet, f.kind \in Events,
         f.kind \notin KeyRecords
  PROVE  LET q == QueueNotification(d, f) IN
         /\ q \in BufferSet
         /\ q.leases = d.leases /\ q.obs = d.obs /\ q.dropped = d.dropped
         /\ q.granted = d.granted
         /\ NoKeys(d.notes) => NoKeys(q.notes)
<1> DEFINE m == Message(f.kind, f.scopes, 0)
           l == Append(d.notes, m)
           q == QueueNotification(d, f)
<1>1. m \in MessageSet /\ m.kind \notin KeyRecords
  BY DEF Message, MessageSet, FrameSet, Events
<1> HIDE DEF m
<1>2. d.notes \in Seq(MessageSet)
  BY DEF BufferSet
<1>3. /\ l \in Seq(MessageSet) /\ Len(l) = Len(d.notes) + 1 /\ Len(d.notes) \in Nat
      /\ \A i \in 1..Len(d.notes) : l[i] = d.notes[i]
      /\ l[Len(d.notes) + 1] = m
  BY <1>1, <1>2, AppendProperties, LenProperties
<1>4. NoKeys(d.notes) => NoKeys(l)
  <2> SUFFICES ASSUME NoKeys(d.notes), NEW i \in 1..Len(l)
               PROVE  l[i].kind \notin KeyRecords
    BY DEF NoKeys
  <2>1. CASE i = Len(d.notes) + 1
    BY <1>1, <1>3, <2>1
  <2>2. CASE i # Len(d.notes) + 1
    <3>1. i \in 1..Len(d.notes) /\ l[i] = d.notes[i]
      BY <1>3, <2>2
    <3> QED
      BY <3>1 DEF NoKeys
  <2> QED
    BY <2>1, <2>2
<1>5. q = [[d EXCEPT !.notes = l] EXCEPT !.ready = Buffered([d EXCEPT !.notes = l])]
  BY DEF QueueNotification, UpdateReadiness, m
<1>6. Buffered([d EXCEPT !.notes = l]) \in BOOLEAN
  BY DEF Buffered
<1> HIDE DEF l
<1>7. /\ q \in BufferSet /\ q.notes = l /\ q.leases = d.leases /\ q.obs = d.obs
      /\ q.dropped = d.dropped /\ q.granted = d.granted
  BY <1>3, <1>5, <1>6 DEF BufferSet
<1> QED
  BY <1>4, <1>7

\* queue_observation buffers or counts one more.
LEMMA QueueObservationProps ==
  ASSUME NEW d \in BufferSet, NEW f \in FrameSet
  PROVE  LET q == QueueObservation(d, f) IN
         /\ q \in BufferSet
         /\ q.leases = d.leases /\ q.notes = d.notes /\ q.granted = d.granted
         /\ q.obs + q.dropped = d.obs + d.dropped + 1
<1> DEFINE q == QueueObservation(d, f)
<1>1. CASE d.obs = Capacity
  <2>1. q = [d EXCEPT !.dropped = d.dropped + 1]
    BY <1>1 DEF QueueObservation
  <2>2. /\ q \in BufferSet /\ q.leases = d.leases /\ q.notes = d.notes
        /\ q.granted = d.granted /\ q.obs = d.obs /\ q.dropped = d.dropped + 1
    BY <2>1 DEF BufferSet
  <2>3. d.obs \in Nat /\ d.dropped \in Nat
    BY DEF BufferSet
  <2> HIDE DEF q
  <2> QED
    BY <2>2, <2>3 DEF q
<1>2. CASE d.obs # Capacity
  <2> DEFINE e == [d EXCEPT !.obs = d.obs + 1]
  <2>1. q = [e EXCEPT !.ready = Buffered(e)]
    BY <1>2 DEF QueueObservation, UpdateReadiness
  <2>2. Buffered(e) \in BOOLEAN
    BY DEF Buffered
  <2>3. /\ e \in BufferSet /\ e.leases = d.leases /\ e.notes = d.notes
        /\ e.granted = d.granted /\ e.obs = d.obs + 1 /\ e.dropped = d.dropped
    BY DEF BufferSet
  <2> HIDE DEF e
  <2>4. /\ q \in BufferSet /\ q.leases = e.leases /\ q.notes = e.notes
        /\ q.granted = e.granted /\ q.obs = e.obs /\ q.dropped = e.dropped
    BY <2>1, <2>2, <2>3 DEF BufferSet
  <2>5. d.obs \in Nat /\ d.dropped \in Nat
    BY DEF BufferSet
  <2> QED
    BY <2>3, <2>4, <2>5
<1> QED
  BY <1>1, <1>2

\* queue_service_event, for whatever role the connection has.
LEMMA QueueEventProps ==
  ASSUME TypeOK, NEW d \in BufferSet, NEW f \in FrameSet, f.kind \in Events,
         CanQueue(d, f), NEW o \in Nat, o = d.obs + d.dropped,
         role # "observer" => d.obs = 0 /\ d.dropped = 0,
         NoKeys(d.notes)
  PROVE  LET q == QueueEvent(d, f) IN
         /\ q \in BufferSet
         /\ q.granted = d.granted
         /\ NoKeys(q.notes)
         /\ OwedOn(o, f) \in Nat /\ OwedOn(o, f) = q.obs + q.dropped
         /\ role # "observer" => q.obs = 0 /\ q.dropped = 0 /\ OwedOn(o, f) = o
         /\ \A a, k, x \in Nat :
              Path(d.leases, LeaseKeySteps, Nat, a, k) /\ KeyEffect(f, k, x)
                => Path(q.leases, LeaseKeySteps, Nat, a, x)
<1> DEFINE q == QueueEvent(d, f)
<1>0. d.obs \in Nat /\ d.dropped \in Nat
  BY DEF BufferSet
<1>1. CASE role \in {"lease", "rpc"}
  <2>1. q = QueueLease(d, f) /\ OwedOn(o, f) = o
    BY <1>1 DEF QueueEvent, OwedOn
  <2> QED
    BY <1>1, <2>1, QueueLeaseProps
<1>2. CASE role = "callback"
  <2>1. f.kind \notin KeyRecords /\ OwedOn(o, f) = o
    BY <1>2 DEF CanQueue, KeyRecords, OwedOn
  <2>2. \A k, x \in Nat : KeyEffect(f, k, x) => x = k
    BY <2>1 DEF KeyEffect
  <2>3. q = IF f.kind = "device" THEN d ELSE QueueNotification(d, f)
    BY <1>2 DEF QueueEvent
  <2>4. /\ q \in BufferSet /\ q.leases = d.leases /\ q.obs = d.obs
        /\ q.dropped = d.dropped /\ q.granted = d.granted /\ NoKeys(q.notes)
    BY <2>1, <2>3, QueueNotificationProps
  <2> QED
    BY <1>0, <1>2, <2>1, <2>2, <2>4
<1>3. CASE role = "observer"
  <2>1. f.kind \notin KeyRecords
    BY <1>3 DEF CanQueue, KeyRecords
  <2>2. \A k, x \in Nat : KeyEffect(f, k, x) => x = k
    BY <2>1 DEF KeyEffect
  <2>3. CASE f.kind = "revoked"
    <3>1. q = IF "monitor" \in f.scopes THEN [d EXCEPT !.obs = 0, !.dropped = 0] ELSE d
      BY <1>3, <2>3 DEF QueueEvent
    <3>2. /\ q \in BufferSet /\ q.leases = d.leases /\ q.notes = d.notes
          /\ q.granted = d.granted
          /\ q.obs + q.dropped = IF "monitor" \in f.scopes THEN 0 ELSE o
      <4>1. CASE "monitor" \in f.scopes
        <5>1. q = [d EXCEPT !.obs = 0, !.dropped = 0]
          BY <3>1, <4>1
        <5>2. /\ q \in BufferSet /\ q.leases = d.leases /\ q.notes = d.notes
              /\ q.granted = d.granted /\ q.obs = 0 /\ q.dropped = 0
          <6>1. d \in BufferSet /\ 0 \in Nat
            OBVIOUS
          <6> HIDE DEF q
          <6> QED
            BY <5>1, <6>1 DEF BufferSet
        <5> QED
          BY <4>1, <5>2
      <4>2. CASE "monitor" \notin f.scopes
        BY <3>1, <4>2
      <4> QED
        BY <4>1, <4>2
    <3>3. OwedOn(o, f) = IF "monitor" \in f.scopes THEN 0 ELSE o
      BY <1>3, <2>3 DEF OwedOn
    <3> QED
      BY <1>3, <2>2, <3>2, <3>3
  <2>4. CASE f.kind # "revoked"
    <3>1. q = QueueObservation(d, f) /\ OwedOn(o, f) = o + 1
      BY <1>3, <2>4 DEF QueueEvent, OwedOn
    <3> QED
      BY <1>0, <1>3, <2>2, <3>1, QueueObservationProps
  <2> QED
    BY <2>3, <2>4
<1> QED
  BY <1>1, <1>2, <1>3 DEF TypeOK

\* A message is taken: the application is owed that much less, and a keyboard
\* record makes the first step of the path of the buffered ones.
LEMMA TakeProps ==
  ASSUME TypeOK, NEW d \in BufferSet, CanTake(d), NEW o \in Nat, o = d.obs + d.dropped,
         role # "observer" => d.obs = 0 /\ d.dropped = 0,
         NoKeys(d.notes)
  PROVE  LET t == Take(d)
             m == Taken(d) IN
         /\ t \in BufferSet
         /\ m \in MessageSet
         /\ t.granted = d.granted
         /\ NoKeys(t.notes)
         /\ OwedAfter(o, m) \in Nat /\ OwedAfter(o, m) = t.obs + t.dropped
         /\ role # "observer" => t.obs = 0 /\ t.dropped = 0 /\ OwedAfter(o, m) = o
         /\ \A k \in Nat :
              Path(d.leases, LeaseKeySteps, Nat, seen.n, k)
                => /\ Path(t.leases, LeaseKeySteps, Nat, SeenAfter(m).n, k)
                   /\ SeenAfter(m) # seen /\ SeenAfter(m).kind = "delta"
                        => SeenAfter(m).prev = seen.n /\ seen.n < SeenAfter(m).n
<1> DEFINE t == Take(d)
           m == Taken(d)
<1>0. /\ d.obs \in Nat /\ d.dropped \in Nat
      /\ d.notes \in Seq(MessageSet) /\ d.leases \in Seq(MessageSet)
      /\ seen.n \in Nat
  BY DEF BufferSet, TypeOK, MessageSet
<1>1. CASE role \in {"lease", "rpc"}
  <2> DEFINE e == [d EXCEPT !.leases = Tail(d.leases)]
  <2>1. d.leases # <<>> /\ m = Head(d.leases) /\ OwedAfter(o, m) = o
    BY <1>1 DEF CanTake, Taken, OwedAfter
  <2>2. m \in MessageSet /\ Tail(d.leases) \in Seq(MessageSet)
    BY <1>0, <2>1, HeadTailProperties
  <2>3. t = [e EXCEPT !.ready = Buffered(e)]
    BY <1>1 DEF Take, UpdateReadiness
  <2>4. Buffered(e) \in BOOLEAN
    BY DEF Buffered
  <2>5. e \in BufferSet /\ e.leases = Tail(d.leases) /\ e.notes = d.notes
        /\ e.obs = d.obs /\ e.dropped = d.dropped /\ e.granted = d.granted
    BY <2>2 DEF BufferSet
  <2> HIDE DEF e
  <2>6. t \in BufferSet /\ t.leases = e.leases /\ t.notes = e.notes
        /\ t.obs = e.obs /\ t.dropped = e.dropped /\ t.granted = e.granted
    BY <2>3, <2>4, <2>5 DEF BufferSet
  <2> HIDE DEF t, m
  <2>7. ASSUME NEW k \in Nat, Path(d.leases, LeaseKeySteps, Nat, seen.n, k)
        PROVE  /\ Path(t.leases, LeaseKeySteps, Nat, SeenAfter(m).n, k)
               /\ SeenAfter(m) # seen /\ SeenAfter(m).kind = "delta"
                    => SeenAfter(m).prev = seen.n /\ seen.n < SeenAfter(m).n
    <3>1. PICK x \in Nat : /\ <<Head(d.leases), seen.n, x>> \in LeaseKeySteps
                          /\ Path(Tail(d.leases), LeaseKeySteps, Nat, x, k)
      BY <1>0, <2>1, <2>7, PathTail
    <3>2. KeyEffect(m, seen.n, x)
      BY <2>1, <3>1 DEF LeaseKeySteps
    <3>3. SeenAfter(m).n = x
      BY <3>2 DEF SeenAfter, KeyEffect
    <3>4. SeenAfter(m) # seen /\ SeenAfter(m).kind = "delta"
            => SeenAfter(m).prev = seen.n /\ seen.n < SeenAfter(m).n
      BY <3>2 DEF SeenAfter, KeyEffect
    <3> QED
      BY <2>5, <2>6, <3>1, <3>3, <3>4
  <2> QED
    BY <1>0, <1>1, <2>1, <2>2, <2>5, <2>6, <2>7 DEF t, m
<1>2. CASE role = "callback"
  <2> DEFINE p == IF m.kind = "revoked" THEN d.pending \ m.scopes ELSE d.pending
             e == [d EXCEPT !.notes = Tail(d.notes), !.pending = p]
  <2>1. d.notes # <<>> /\ m = Head(d.notes) /\ OwedAfter(o, m) = o
    BY <1>2 DEF CanTake, Taken, OwedAfter
  <2>2. /\ m \in MessageSet /\ Tail(d.notes) \in Seq(MessageSet)
        /\ Len(d.notes) \in Nat \ {0} /\ Len(Tail(d.notes)) = Len(d.notes) - 1
        /\ m = d.notes[1] /\ \A i \in 1..(Len(d.notes) - 1) : Tail(d.notes)[i] = d.notes[i + 1]
    BY <1>0, <2>1, EmptySeq, HeadTailProperties
  <2>3. t = [e EXCEPT !.ready = Buffered(e)]
    BY <1>2 DEF Take, UpdateReadiness
  <2>4. Buffered(e) \in BOOLEAN
    BY DEF Buffered
  <2>5. e \in BufferSet /\ e.leases = d.leases /\ e.notes = Tail(d.notes)
        /\ e.obs = d.obs /\ e.dropped = d.dropped /\ e.granted = d.granted
    <3>1. p \in SUBSET Scopes
      BY DEF BufferSet
    <3> HIDE DEF p
    <3> QED
      BY <2>2, <3>1 DEF BufferSet
  <2> HIDE DEF e
  <2>6. t \in BufferSet /\ t.leases = e.leases /\ t.notes = e.notes
        /\ t.obs = e.obs /\ t.dropped = e.dropped /\ t.granted = e.granted
    BY <2>3, <2>4, <2>5 DEF BufferSet
  <2>7. m.kind \notin KeyRecords
    BY <2>2 DEF NoKeys
  <2>8. SeenAfter(m) = seen
    BY <2>7 DEF SeenAfter
  <2>9. NoKeys(Tail(d.notes))
    <3> SUFFICES ASSUME NEW i \in 1..Len(Tail(d.notes))
                 PROVE  Tail(d.notes)[i].kind \notin KeyRecords
      BY DEF NoKeys
    <3>1. i + 1 \in 1..Len(d.notes) /\ Tail(d.notes)[i] = d.notes[i + 1]
      BY <2>2
    <3> QED
      BY <3>1 DEF NoKeys
  <2> QED
    BY <1>0, <1>2, <2>1, <2>2, <2>5, <2>6, <2>8, <2>9
<1>3. CASE role = "observer"
  <2> DEFINE e == [d EXCEPT !.pending = {},
                            !.obs = IF m.kind = "observe" THEN d.obs - 1 ELSE d.obs,
                            !.dropped = IF m.kind = "overflow" THEN 0 ELSE d.dropped]
  <2>1. d.pending # {} \/ d.obs # 0 \/ d.dropped # 0
    BY <1>3 DEF CanTake
  <2>2. m = IF d.pending # {} THEN Message("revoked", d.pending, 0)
            ELSE IF d.obs # 0 THEN Message("observe", {}, 1)
            ELSE Message("overflow", {}, d.dropped)
    BY <1>3 DEF Taken
  <2>3. m \in MessageSet /\ m.kind \notin KeyRecords
    BY <2>2 DEF Message, MessageSet, BufferSet, Events, KeyRecords
  <2>4. t = [e EXCEPT !.ready = Buffered(e)]
    BY <1>3 DEF Take, UpdateReadiness
  <2>5. Buffered(e) \in BOOLEAN
    BY DEF Buffered
  <2>6. /\ m.kind = "observe" => d.obs - 1 \in Nat /\ m.n = 1
        /\ m.kind = "overflow" => d.obs = 0 /\ m.n = d.dropped
        /\ m.kind \notin {"observe", "overflow"} => m.n = 0
    BY <1>0, <2>2 DEF Message
  <2>7. e \in BufferSet /\ e.leases = d.leases /\ e.notes = d.notes
        /\ e.granted = d.granted /\ e.obs + e.dropped = o - m.n
        /\ o - m.n \in Nat
    <3>1. e \in BufferSet /\ e.leases = d.leases /\ e.notes = d.notes
          /\ e.granted = d.granted
      BY <1>0, <2>6 DEF BufferSet
    <3>2. /\ e.obs = IF m.kind = "observe" THEN d.obs - 1 ELSE d.obs
          /\ e.dropped = IF m.kind = "overflow" THEN 0 ELSE d.dropped
      BY DEF BufferSet
    <3> HIDE DEF e
    <3> QED
      BY <1>0, <2>6, <3>1, <3>2
  <2> HIDE DEF e
  <2>8. t \in BufferSet /\ t.leases = e.leases /\ t.notes = e.notes
        /\ t.obs = e.obs /\ t.dropped = e.dropped /\ t.granted = e.granted
    BY <2>4, <2>5, <2>7 DEF BufferSet
  <2>9. SeenAfter(m) = seen /\ OwedAfter(o, m) = o - m.n
    BY <1>3, <2>3 DEF SeenAfter, OwedAfter
  <2> QED
    BY <1>0, <1>3, <2>3, <2>7, <2>8, <2>9
<1> QED
  BY <1>1, <1>2, <1>3 DEF TypeOK
-----------------------------------------------------------------------------
(* The steps                                                               *)

\* A step that leaves the stream, the buffers and the service's view alone.
LEMMA QuietStep ==
  ASSUME IInv, TypeOK', open' => open,
         c'.notes = c.notes, c'.leases = c.leases, c'.obs = c.obs,
         c'.dropped = c.dropped, c'.granted = c.granted,
         UNCHANGED <<role, rx, wire, grants, keySeq, seen, owed>>
  PROVE  IInv'
<1>1. InStep(wire, rx)'
  BY DEF IInv
<1>2. ObservationsCounted' /\ OnlyObserversObserve'
  BY DEF IInv, ObservationsCounted, OnlyObserversObserve
<1>3. GrantsLead' /\ KeysLead'
  BY DEF IInv, GrantsLead, KeysLead
<1> QED
  BY <1>1, <1>2, <1>3 DEF IInv

\* The calls left on the stack, and one more.
LEMMA StackProps ==
  ASSUME TypeOK
  PROVE  /\ Pop \in Seq(CallSet)
         /\ SubSeq(stack, 1, Len(stack) - 2) \in Seq(CallSet)
         /\ \A s \in CallSet : Append(stack, s) \in Seq(CallSet)
         /\ stack # <<>> => Top \in CallSet
<1>1. stack \in Seq(CallSet) /\ Len(stack) \in Nat
  BY LenProperties DEF TypeOK
<1>2. \A i \in 1..Len(stack) : stack[i] \in CallSet
  BY <1>1, ElementOfSeq
<1>3. SubSeq(stack, 1, Len(stack) - 1) \in Seq(CallSet)
  <2>1. \A i \in 1..(Len(stack) - 1) : stack[i] \in CallSet
    BY <1>1, <1>2
  <2> QED
    BY <1>1, <2>1, SubSeqProperties
<1>4. SubSeq(stack, 1, Len(stack) - 2) \in Seq(CallSet)
  <2>1. \A i \in 1..(Len(stack) - 2) : stack[i] \in CallSet
    BY <1>1, <1>2
  <2> QED
    BY <1>1, <2>1, SubSeqProperties
<1>5. stack # <<>> => Top \in CallSet
  BY <1>1, <1>2, EmptySeq DEF Top
<1> QED
  BY <1>1, <1>3, <1>4, <1>5, AppendProperties DEF Pop

\* The last part arrives: nothing that has been read changes.
LEMMA ArriveStep ==
  ASSUME IInv, Arrive
  PROVE  IInv'
<1>1. TypeOK'
  BY DEF IInv, TypeOK, Arrive
<1> QED
  BY <1>1, QuietStep DEF Arrive

\* A request is sent: its id is not that of HELLO, and a torn send closes.
LEMMA RequestStep ==
  ASSUME IInv, NEW op \in OpSet, op # "hello", Request(op)
  PROVE  IInv'
<1>1. PICK outcome \in SendOutcomes :
        /\ open' = (open /\ outcome # "timeout")
        /\ asked' = IF Reaches(outcome) THEN asked \cup {[id |-> nextId, op |-> op]} ELSE asked
        /\ stack' = IF outcome = "ok"
                    THEN Append(stack, [fn |-> "request", id |-> nextId, op |-> op])
                    ELSE stack
  BY DEF Request
<1>2. UNCHANGED <<role, c, rx, eof, torn, wire, late, grants, posts, keySeq, seen, owed>>
      /\ nextId' = nextId + 1
  BY DEF Request
<1>3. [id |-> nextId, op |-> op] \in RequestSet
  BY DEF IInv, TypeOK, RequestSet
<1>4. [fn |-> "request", id |-> nextId, op |-> op] \in CallSet
  BY DEF IInv, TypeOK, CallSet
<1>5. stack' \in Seq(CallSet)
  BY <1>1, <1>4, StackProps DEF IInv, TypeOK
<1>6. asked' \in SUBSET RequestSet
  BY <1>1, <1>3 DEF IInv, TypeOK
<1>7. TypeOK'
  BY <1>1, <1>2, <1>5, <1>6 DEF IInv, TypeOK
<1> QED
  BY <1>1, <1>2, <1>7, QuietStep

\* A *_next call hands out a buffered message or starts to wait.
LEMMA NextMessageStep ==
  ASSUME IInv, NextMessage
  PROVE  IInv'
<1>1. UNCHANGED <<role, rx, open, eof, torn, nextId, wire, late, asked, grants,
                  posts, keySeq>>
  BY DEF NextMessage
<1>2. CASE CanTake(c)
  <2>1. /\ c' = Take(c) /\ seen' = SeenAfter(Taken(c)) /\ owed' = OwedAfter(owed, Taken(c))
        /\ UNCHANGED stack
    BY <1>2 DEF NextMessage
  <2>2. /\ c \in BufferSet /\ owed \in Nat /\ owed = c.obs + c.dropped /\ NoKeys(c.notes)
        /\ role # "observer" => c.obs = 0 /\ c.dropped = 0 /\ owed = 0
        /\ seen \in MessageSet
    BY DEF IInv, TypeOK, ObservationsCounted, OnlyObserversObserve, KeysLead
  <2>3. /\ c' \in BufferSet
        /\ Taken(c) \in MessageSet
        /\ c'.granted = c.granted
        /\ NoKeys(c'.notes)
        /\ owed' \in Nat /\ owed' = c'.obs + c'.dropped
        /\ role # "observer" => c'.obs = 0 /\ c'.dropped = 0 /\ owed' = owed
        /\ \A k \in Nat :
              Path(c.leases, LeaseKeySteps, Nat, seen.n, k)
                => Path(c'.leases, LeaseKeySteps, Nat, seen'.n, k)
    BY <1>2, <2>1, <2>2, TakeProps DEF IInv
  <2>4. seen' \in MessageSet
    BY <2>1, <2>2, <2>3 DEF SeenAfter
  <2>5. TypeOK'
    BY <1>1, <2>1, <2>3, <2>4 DEF IInv, TypeOK
  <2>6. InStep(wire, rx)' /\ ObservationsCounted' /\ OnlyObserversObserve'
    BY <1>1, <2>2, <2>3 DEF IInv, ObservationsCounted, OnlyObserversObserve
  <2>7. GrantsLead'
    BY <1>1, <2>3 DEF IInv, GrantsLead
  <2>8. KeysLead'
    BY <1>1, <2>3 DEF IInv, KeysLead, KeysReach
  <2> QED
    BY <2>5, <2>6, <2>7, <2>8 DEF IInv
<1>3. CASE ~CanTake(c)
  <2>1. /\ stack' = Append(stack, [fn |-> "next", id |-> 0, op |-> "next"])
        /\ UNCHANGED <<c, seen, owed>>
    BY <1>3 DEF NextMessage
  <2>2. [fn |-> "next", id |-> 0, op |-> "next"] \in CallSet
    BY DEF CallSet, OpSet
  <2>3. stack' \in Seq(CallSet)
    BY <2>1, <2>2, StackProps DEF IInv
  <2>4. TypeOK'
    BY <1>1, <2>1, <2>3 DEF IInv, TypeOK
  <2> QED
    BY <1>1, <2>1, <2>4, QuietStep
<1> QED
  BY <1>2, <1>3

\* ksi_hook_reply_event touches no buffer.
LEMMA ReplyEventStep ==
  ASSUME IInv, ReplyEvent
  PROVE  IInv'
<1>1. PICK outcome \in HookOutcomes :
        /\ Torn(outcome)
        /\ c' = IF outcome = "ok" THEN [c EXCEPT !.outstanding = 0] ELSE c
  BY DEF ReplyEvent
<1>2. c \in BufferSet
  BY DEF IInv, TypeOK
<1>3. /\ c' \in BufferSet /\ c'.notes = c.notes /\ c'.leases = c.leases /\ c'.obs = c.obs
      /\ c'.dropped = c.dropped /\ c'.granted = c.granted
  BY <1>1, <1>2 DEF BufferSet
<1>4. torn' \in BOOLEAN
  BY <1>1 DEF Torn
<1>5. TypeOK'
  BY <1>3, <1>4 DEF IInv, TypeOK, ReplyEvent
<1> QED
  BY <1>3, <1>5, QuietStep DEF ReplyEvent

\* The nested handler's reply pops calls and reads nothing.
LEMMA HandlerReturnStep ==
  ASSUME IInv, HandlerReturn
  PROVE  IInv'
<1>1. PICK outcome \in HookOutcomes :
        /\ Torn(outcome)
        /\ stack' = IF outcome = "ok" THEN Pop ELSE SubSeq(stack, 1, Len(stack) - 2)
  BY DEF HandlerReturn
<1>2. torn' \in BOOLEAN
  BY <1>1 DEF Torn
<1>3. stack' \in Seq(CallSet)
  BY <1>1, StackProps DEF IInv
<1>4. TypeOK'
  BY <1>2, <1>3 DEF IInv, TypeOK, HandlerReturn
<1> QED
  BY <1>4, QuietStep DEF HandlerReturn

\* Installing a handler touches no buffer.
LEMMA SetNestedHandlerStep ==
  ASSUME IInv, SetNestedHandler
  PROVE  IInv'
<1>1. c \in BufferSet /\ c' = [c EXCEPT !.handler = ~c.handler]
  BY DEF IInv, TypeOK, SetNestedHandler
<1>2. /\ c' \in BufferSet /\ c'.notes = c.notes /\ c'.leases = c.leases /\ c'.obs = c.obs
      /\ c'.dropped = c.dropped /\ c'.granted = c.granted
  BY <1>1 DEF BufferSet
<1>3. TypeOK'
  BY <1>2 DEF IInv, TypeOK, SetNestedHandler
<1> QED
  BY <1>2, <1>3, QuietStep DEF SetNestedHandler

\* A timeout gives up the call and keeps the header that was read.
LEMMA TimeoutStep ==
  ASSUME IInv, Timeout
  PROVE  IInv'
<1>1. stack' \in Seq(CallSet)
  BY StackProps DEF IInv, Timeout
<1>2. open' \in BOOLEAN /\ (open' => open)
  <2>1. open \in BOOLEAN /\ (open' = FALSE \/ open' = open)
    BY DEF IInv, TypeOK, Timeout, TerminalFailure
  <2>2. CASE open' = FALSE
    BY <2>2
  <2>3. CASE open' = open
    BY <2>1, <2>3
  <2> QED
    BY <2>1, <2>2, <2>3
<1>3. TypeOK'
  BY <1>1, <1>2 DEF IInv, TypeOK, Timeout
<1> QED
  BY <1>2, <1>3, QuietStep DEF Timeout

\* UNAVAILABLE gives up the call.
LEMMA ClosedStep ==
  ASSUME IInv, Closed
  PROVE  IInv'
<1>1. stack' \in Seq(CallSet)
  BY StackProps DEF IInv, Closed
<1>2. TypeOK'
  BY <1>1 DEF IInv, TypeOK, Closed
<1> QED
  BY <1>2, QuietStep DEF Closed

\* The service closes its end; what it sent can still be read.
LEMMA ServiceCloseStep ==
  ASSUME IInv, ServiceClose
  PROVE  IInv'
<1>1. TypeOK'
  BY DEF IInv, TypeOK, ServiceClose
<1> QED
  BY <1>1, QuietStep DEF ServiceClose
\* The header of the first frame is read; its payload is next.
LEMMA ReadHeaderStep ==
  ASSUME IInv, ReadHeader
  PROVE  IInv'
<1>1. rx = NoFrame /\ wire # <<>> /\ wire \in Seq(PartSet)
  <2>1. Len(wire) > (IF late THEN 1 ELSE 0) /\ rx = NoFrame
    BY DEF ReadHeader, Readable
  <2> QED
    BY <2>1, LenProperties DEF IInv, TypeOK
<1>2. /\ Head(wire).part = "header" /\ Head(wire).f \in FrameSet
      /\ Tail(wire) \in Seq(PartSet) /\ InStep(Tail(wire), Head(wire).f)
  BY <1>1, HeaderInStep DEF IInv
<1>3. /\ rx' = Head(wire).f /\ wire' = Tail(wire)
      /\ UNCHANGED <<stack, open, late, role, c, eof, torn, nextId, asked, grants, posts,
                     keySeq, seen, owed>>
  BY <1>2 DEF ReadHeader
<1>4. TypeOK'
  BY <1>2, <1>3 DEF IInv, TypeOK
<1>5. InStep(wire, rx)' /\ ObservationsCounted' /\ OnlyObserversObserve'
  BY <1>2, <1>3 DEF IInv, ObservationsCounted, OnlyObserversObserve
<1>6. GrantsLead'
  <2> SUFFICES ASSUME open, role = "lease"
               PROVE  Path(Tail(wire), GrantSteps, SUBSET Scopes, c.granted, grants)
    BY <1>3 DEF GrantsLead
  <2> QED
    BY <1>1, <1>2, ReadGrants DEF IInv, GrantsLead
<1>7. KeysLead'
  <2> SUFFICES ASSUME open
               PROVE  KeysReach(c.leases, seen.n, Tail(wire), keySeq)
    BY <1>3 DEF IInv, KeysLead
  <2> QED
    BY <1>1, <1>2, ReadKeys DEF IInv, KeysLead, KeysReach
<1> QED
  BY <1>4, <1>5, <1>6, <1>7 DEF IInv

\* What reading a payload does to the stream.
LEMMA PayloadRead ==
  ASSUME IInv, NEW f, ReadPayload(f)
  PROVE  /\ rx = f /\ rx \in FrameSet /\ rx' = NoFrame
         /\ wire' = Tail(wire) /\ wire' \in Seq(PartSet) /\ late' = late
         /\ InStep(wire, rx)'
         /\ \A a : Path(wire, GrantSteps, SUBSET Scopes, a, grants)
              => \E x \in SUBSET Scopes :
                    GrantEffect(rx, a, x) /\ Path(wire', GrantSteps, SUBSET Scopes, x, grants)
         /\ \A a : Path(wire, WireKeySteps, Nat, a, keySeq)
              => \E x \in Nat :
                    KeyEffect(rx, a, x) /\ Path(wire', WireKeySteps, Nat, x, keySeq)
<1>1. /\ rx = f /\ rx' = NoFrame /\ wire' = Tail(wire) /\ late' = late
      /\ rx # NoFrame
  BY DEF ReadPayload
<1>2. rx \in FrameSet /\ wire \in Seq(PartSet)
  BY <1>1 DEF IInv, TypeOK
<1>3. /\ wire # <<>> /\ Head(wire) = [part |-> "payload", f |-> rx]
      /\ Tail(wire) \in Seq(PartSet) /\ InStep(Tail(wire), NoFrame)
  BY <1>2, PayloadInStep DEF IInv
<1>4. Head(wire).part = "payload" /\ Head(wire).f = rx
  BY <1>3
<1>5. ASSUME NEW a, Path(wire, GrantSteps, SUBSET Scopes, a, grants)
      PROVE  \E x \in SUBSET Scopes :
                GrantEffect(rx, a, x) /\ Path(Tail(wire), GrantSteps, SUBSET Scopes, x, grants)
  BY <1>2, <1>3, <1>4, <1>5, ReadGrants
<1>6. ASSUME NEW a, Path(wire, WireKeySteps, Nat, a, keySeq)
      PROVE  \E x \in Nat :
                KeyEffect(rx, a, x) /\ Path(Tail(wire), WireKeySteps, Nat, x, keySeq)
  BY <1>2, <1>3, <1>4, <1>6, ReadKeys
<1> QED
  BY <1>1, <1>2, <1>3, <1>5, <1>6

\* A payload that does nothing to the buffers or to the grants, or closes.
LEMMA PlainPayload ==
  ASSUME IInv, ReadPayload(rx), stack' \in Seq(CallSet), torn' \in BOOLEAN,
         open' \in BOOLEAN, c' \in BufferSet,
         c'.notes = c.notes, c'.leases = c.leases, c'.obs = c.obs, c'.dropped = c.dropped,
         rx.kind \notin Events,
         open' => open /\ \A x : role = "lease" /\ GrantEffect(rx, c.granted, x)
                                  => c'.granted = x,
         UNCHANGED <<role, eof, nextId, asked, grants, posts, keySeq, seen, owed>>
  PROVE  IInv'
<1>1. /\ rx \in FrameSet /\ rx' = NoFrame
      /\ wire' \in Seq(PartSet) /\ late' = late /\ InStep(wire, rx)'
  BY PayloadRead
<1>2. TypeOK'
  BY <1>1 DEF IInv, TypeOK
<1>3. ObservationsCounted' /\ OnlyObserversObserve'
  BY DEF IInv, ObservationsCounted, OnlyObserversObserve
<1>4. GrantsLead'
  <2> SUFFICES ASSUME open', role = "lease"
               PROVE  Path(wire', GrantSteps, SUBSET Scopes, c'.granted, grants)
    BY DEF GrantsLead
  <2>1. open /\ Path(wire, GrantSteps, SUBSET Scopes, c.granted, grants)
    BY DEF IInv, GrantsLead
  <2>2. PICK x \in SUBSET Scopes :
          GrantEffect(rx, c.granted, x) /\ Path(wire', GrantSteps, SUBSET Scopes, x, grants)
    BY <2>1, PayloadRead
  <2> QED
    BY <2>2
<1>5. KeysLead'
  <2>1. NoKeys(c'.notes)
    BY DEF IInv, KeysLead
  <2>2. ASSUME open' PROVE KeysReach(c'.leases, seen.n, wire', keySeq)
    <3>1. PICK k \in Nat : /\ Path(c.leases, LeaseKeySteps, Nat, seen.n, k)
                          /\ Path(wire, WireKeySteps, Nat, k, keySeq)
      BY <2>2 DEF IInv, KeysLead, KeysReach
    <3>2. PICK x \in Nat : KeyEffect(rx, k, x) /\ Path(wire', WireKeySteps, Nat, x, keySeq)
      BY <3>1, PayloadRead
    <3>3. x = k
      BY <3>2 DEF KeyEffect, Events
    <3> QED
      BY <3>1, <3>2, <3>3 DEF KeysReach
  <2> QED
    BY <2>1, <2>2 DEF KeysLead
<1> QED
  BY <1>1, <1>2, <1>3, <1>4, <1>5 DEF IInv

\* An event is absorbed and queued, then perhaps handed out in the same call.
LEMMA HandleEventStep ==
  ASSUME IInv, HandleEvent
  PROVE  /\ IInv'
         /\ (seen' # seen /\ open /\ seen'.kind = "delta")
              => seen'.prev = seen.n /\ seen.n < seen'.n
<1> DEFINE d == Absorb(c, rx)
           q == QueueEvent(d, rx)
           o == OwedOn(owed, rx)
<1>1. ReadPayload(rx) /\ rx.kind \in Events
  BY DEF HandleEvent
<1>2. UNCHANGED <<role, eof, torn, nextId, asked, grants, posts, keySeq>>
  BY DEF HandleEvent
<1>3. /\ rx \in FrameSet /\ rx' = NoFrame
      /\ wire' \in Seq(PartSet) /\ late' = late /\ InStep(wire, rx)'
  BY <1>1, PayloadRead
<1>4. /\ d \in BufferSet /\ d.notes = c.notes /\ d.leases = c.leases
      /\ d.obs = c.obs /\ d.dropped = c.dropped
      /\ \A x : role = "lease" /\ GrantEffect(rx, c.granted, x) => d.granted = x
  BY <1>1, <1>3, AbsorbProps DEF IInv, TypeOK
<1>5. /\ owed \in Nat /\ owed = c.obs + c.dropped /\ NoKeys(c.notes)
      /\ role # "observer" => c.obs = 0 /\ c.dropped = 0 /\ owed = 0
      /\ seen \in MessageSet /\ stack \in Seq(CallSet) /\ Pop \in Seq(CallSet)
      /\ open \in BOOLEAN
  BY StackProps DEF IInv, TypeOK, ObservationsCounted, OnlyObserversObserve, KeysLead
<1> HIDE DEF d
<1>6. ASSUME open, role = "lease"
      PROVE  Path(wire', GrantSteps, SUBSET Scopes, d.granted, grants)
  <2>1. Path(wire, GrantSteps, SUBSET Scopes, c.granted, grants)
    BY <1>6 DEF IInv, GrantsLead
  <2>2. PICK x \in SUBSET Scopes :
          GrantEffect(rx, c.granted, x) /\ Path(wire', GrantSteps, SUBSET Scopes, x, grants)
    BY <1>1, <1>6, <2>1, PayloadRead
  <2> QED
    BY <1>4, <1>6, <2>2
<1>7. CASE ~CanQueue(d, rx)
  <2>1. c' = d /\ stack' = Pop /\ open' = FALSE /\ UNCHANGED <<seen, owed>>
    BY <1>7 DEF HandleEvent, TerminalFailure, d
  <2>2. TypeOK'
    BY <1>2, <1>3, <1>4, <1>5, <2>1 DEF IInv, TypeOK
  <2>3. ObservationsCounted' /\ OnlyObserversObserve'
    BY <1>2, <1>4, <1>5, <2>1 DEF ObservationsCounted, OnlyObserversObserve
  <2>4. GrantsLead' /\ KeysLead'
    BY <1>4, <1>5, <2>1 DEF GrantsLead, KeysLead
  <2> QED
    BY <1>3, <2>1, <2>2, <2>3, <2>4 DEF IInv
<1>8. CASE CanQueue(d, rx)
  <2>1. /\ q \in BufferSet /\ q.granted = d.granted /\ NoKeys(q.notes)
        /\ o \in Nat /\ o = q.obs + q.dropped
        /\ role # "observer" => q.obs = 0 /\ q.dropped = 0 /\ o = owed
        /\ \A a, k, x \in Nat :
              Path(d.leases, LeaseKeySteps, Nat, a, k) /\ KeyEffect(rx, k, x)
                => Path(q.leases, LeaseKeySteps, Nat, a, x)
    BY <1>1, <1>3, <1>4, <1>5, <1>8, QueueEventProps DEF IInv
  <2> HIDE DEF q, o
  <2>2. ASSUME open
        PROVE  \E x \in Nat : /\ Path(q.leases, LeaseKeySteps, Nat, seen.n, x)
                              /\ Path(wire', WireKeySteps, Nat, x, keySeq)
    <3>1. PICK k \in Nat : /\ Path(c.leases, LeaseKeySteps, Nat, seen.n, k)
                          /\ Path(wire, WireKeySteps, Nat, k, keySeq)
      BY <2>2 DEF IInv, KeysLead, KeysReach
    <3>2. PICK x \in Nat : KeyEffect(rx, k, x) /\ Path(wire', WireKeySteps, Nat, x, keySeq)
      BY <1>1, <3>1, PayloadRead
    <3>3. seen.n \in Nat
      BY <1>5 DEF MessageSet
    <3>4. Path(q.leases, LeaseKeySteps, Nat, seen.n, x)
      BY <1>4, <2>1, <3>1, <3>2, <3>3
    <3> QED
      BY <3>2, <3>4
  <2>3. CASE Waiting("next") /\ CanTake(q)
    <3>1. /\ c' = Take(q) /\ stack' = Pop /\ UNCHANGED open
          /\ seen' = SeenAfter(Taken(q)) /\ owed' = OwedAfter(o, Taken(q))
      BY <1>8, <2>3 DEF HandleEvent, d, q, o
    <3>2. /\ c' \in BufferSet
          /\ Taken(q) \in MessageSet
          /\ c'.granted = q.granted
          /\ NoKeys(c'.notes)
          /\ owed' \in Nat /\ owed' = c'.obs + c'.dropped
          /\ role # "observer" => c'.obs = 0 /\ c'.dropped = 0 /\ owed' = o
          /\ \A k \in Nat :
                Path(q.leases, LeaseKeySteps, Nat, seen.n, k)
                  => /\ Path(c'.leases, LeaseKeySteps, Nat, seen'.n, k)
                     /\ (seen' # seen /\ seen'.kind = "delta")
                          => seen'.prev = seen.n /\ seen.n < seen'.n
      BY <2>1, <2>3, <3>1, TakeProps DEF IInv
    <3>3. seen' \in MessageSet
      BY <1>5, <3>1, <3>2 DEF SeenAfter
    <3>4. TypeOK'
      BY <1>2, <1>3, <1>5, <3>1, <3>2, <3>3 DEF IInv, TypeOK
    <3>5. ObservationsCounted' /\ OnlyObserversObserve'
      BY <1>2, <1>5, <2>1, <3>2 DEF ObservationsCounted, OnlyObserversObserve
    <3>6. GrantsLead'
      BY <1>2, <1>6, <2>1, <3>1, <3>2 DEF GrantsLead
    <3>7. KeysLead'
      BY <1>2, <2>2, <3>1, <3>2 DEF KeysLead, KeysReach
    <3>8. (seen' # seen /\ open /\ seen'.kind = "delta")
              => seen'.prev = seen.n /\ seen.n < seen'.n
      BY <2>2, <3>2
    <3> QED
      BY <1>3, <3>4, <3>5, <3>6, <3>7, <3>8 DEF IInv
  <2>4. CASE ~(Waiting("next") /\ CanTake(q))
    <3>1. c' = q /\ owed' = o /\ UNCHANGED <<stack, open, seen>>
      BY <1>8, <2>4 DEF HandleEvent, d, q, o
    <3>2. TypeOK'
      BY <1>2, <1>3, <1>5, <2>1, <3>1 DEF IInv, TypeOK
    <3>3. ObservationsCounted' /\ OnlyObserversObserve'
      BY <1>2, <1>5, <2>1, <3>1 DEF ObservationsCounted, OnlyObserversObserve
    <3>4. GrantsLead'
      BY <1>2, <1>6, <2>1, <3>1 DEF GrantsLead
    <3>5. KeysLead'
      BY <1>2, <2>1, <2>2, <3>1 DEF KeysLead, KeysReach
    <3> QED
      BY <1>3, <3>1, <3>2, <3>3, <3>4, <3>5 DEF IInv
  <2> QED
    BY <2>3, <2>4
<1> QED
  BY <1>7, <1>8

\* A hook event leaves grants, events and observations alone.
LEMMA HandleHookStep ==
  ASSUME IInv, HandleHook
  PROVE  IInv'
<1>1. /\ ReadPayload(rx) /\ rx.kind = "hook" /\ rx.kind \notin Events
      /\ UNCHANGED <<role, eof, nextId, asked, grants, posts, keySeq, seen, owed>>
  BY DEF HandleHook, Events, KeyRecords
<1>2. /\ c \in BufferSet /\ open \in BOOLEAN /\ torn \in BOOLEAN
      /\ stack \in Seq(CallSet) /\ Pop \in Seq(CallSet)
  BY StackProps DEF IInv, TypeOK
<1>3. rx \in FrameSet /\ rx.id \in Nat
  BY <1>1, PayloadRead DEF FrameSet
<1>4. \A x : GrantEffect(rx, c.granted, x) => c.granted = x
  BY <1>1 DEF GrantEffect
<1>5. CASE /\ c' = [c EXCEPT !.outstanding = rx.id] /\ stack' = Pop
           /\ UNCHANGED <<open, torn>>
  <2>1. /\ c' \in BufferSet /\ c'.notes = c.notes /\ c'.leases = c.leases /\ c'.obs = c.obs
        /\ c'.dropped = c.dropped /\ c'.granted = c.granted
    BY <1>2, <1>3, <1>5 DEF BufferSet
  <2> QED
    BY <1>1, <1>2, <1>4, <1>5, <2>1, PlainPayload
<1>6. CASE TerminalFailure /\ stack' = Pop /\ UNCHANGED <<c, torn>>
  <2>1. open' = FALSE
    BY <1>6 DEF TerminalFailure
  <2> QED
    BY <1>1, <1>2, <1>6, <2>1, PlainPayload
<1>7. CASE /\ stack' = Append(stack, [fn |-> "handler", id |-> rx.id, op |-> "hook"])
           /\ UNCHANGED <<c, open, torn>>
  <2>1. [fn |-> "handler", id |-> rx.id, op |-> "hook"] \in CallSet
    BY <1>3 DEF CallSet, OpSet
  <2>2. stack' \in Seq(CallSet)
    BY <1>7, <2>1, StackProps DEF IInv
  <2> QED
    BY <1>1, <1>2, <1>4, <1>7, <2>2, PlainPayload
<1>8. CASE /\ \E outcome \in SendOutcomes :
                /\ Torn(outcome)
                /\ stack' = IF outcome = "ok" THEN stack ELSE Pop
           /\ UNCHANGED <<c, open>>
  <2>1. stack' \in Seq(CallSet)
    BY <1>2, <1>8
  <2>2. torn' \in BOOLEAN
    BY <1>8 DEF Torn
  <2> QED
    BY <1>1, <1>2, <1>4, <1>8, <2>1, <2>2, PlainPayload
<1> QED
  BY <1>5, <1>6, <1>7, <1>8 DEF HandleHook

\* The answer to HELLO replaces the grants, the one to AUTHORIZE repeats what the notice
\* ahead of it said, and an answer nobody waits for closes the stream.
LEMMA HandleResponseStep ==
  ASSUME IInv, HandleResponse
  PROVE  IInv'
<1>1. /\ ReadPayload(rx) /\ rx.kind \in {"response", "more"} /\ rx.kind \notin Events
      /\ UNCHANGED <<role, eof, torn, nextId, asked, grants, posts, keySeq, seen, owed>>
  BY DEF HandleResponse, Events, KeyRecords
<1>2. /\ c \in BufferSet /\ open \in BOOLEAN /\ torn \in BOOLEAN
      /\ stack \in Seq(CallSet) /\ Pop \in Seq(CallSet)
  BY StackProps DEF IInv, TypeOK
<1>3. rx \in FrameSet
  BY <1>1, PayloadRead
<1> DEFINE Mine == Waiting("request") /\ IsResponse(rx, Top) /\ (rx.kind = "more" => Top.op = "list")
<1>4. CASE ~Mine
  <2>1. open' = FALSE /\ stack' = Pop /\ c' = c
    BY <1>4 DEF HandleResponse, TerminalFailure
  <2> QED
    BY <1>1, <1>2, <2>1, PlainPayload
<1>5. CASE Mine
  <2>1. /\ stack' = IF rx.kind = "more" THEN stack ELSE Pop
        /\ c' = IF rx.kind = "more" THEN c ELSE Accept(c, rx, Top.op)
        /\ open' = (open /\ ~(Top.op = "hello" /\ ~rx.ok))
    BY <1>5 DEF HandleResponse
  <2>2. Top \in CallSet /\ rx.id = Top.id /\ (Top.id = 1 <=> Top.op = "hello")
    BY <1>5, StackProps DEF IInv, Waiting, IsResponse, CallSet
  <2>3. CASE rx.kind = "more"
    <3>1. \A x : GrantEffect(rx, c.granted, x) => c.granted = x
      BY <2>3 DEF GrantEffect
    <3>2. stack' = stack /\ c' = c /\ open' \in BOOLEAN /\ (open' => open)
      BY <2>1, <2>3
    <3> QED
      BY <1>1, <1>2, <3>1, <3>2, PlainPayload
  <2>4. CASE rx.kind = "response"
    <3>1. rx.scopes \in SUBSET Scopes /\ c.granted \in SUBSET Scopes
      BY <1>2, <1>3 DEF FrameSet, BufferSet
    <3>2. stack' = Pop /\ c' = Accept(c, rx, Top.op) /\ open' \in BOOLEAN /\ (open' => open)
      BY <2>1, <2>4
    <3>3. CASE rx.ok /\ Top.op = "hello"
      <4>1. c' = [c EXCEPT !.granted = rx.scopes, !.up = TRUE]
        BY <3>2, <3>3 DEF Accept
      <4>2. /\ c' \in BufferSet /\ c'.notes = c.notes /\ c'.leases = c.leases /\ c'.obs = c.obs
            /\ c'.dropped = c.dropped /\ c'.granted = rx.scopes
        BY <1>2, <3>1, <4>1 DEF BufferSet
      <4>3. \A x : GrantEffect(rx, c.granted, x) => c'.granted = x
        BY <2>4, <3>3, <4>2 DEF GrantEffect
      <4> QED
        BY <1>1, <1>2, <3>2, <4>2, <4>3, PlainPayload
    <3>4. CASE rx.ok /\ Top.op = "authorize"
      <4>1. c' = [c EXCEPT !.granted = c.granted \cup rx.scopes]
        BY <3>2, <3>4 DEF Accept
      <4>2. /\ c' \in BufferSet /\ c'.notes = c.notes /\ c'.leases = c.leases /\ c'.obs = c.obs
            /\ c'.dropped = c.dropped /\ c'.granted = c.granted \cup rx.scopes
        BY <1>2, <3>1, <4>1 DEF BufferSet
      <4>3. rx.id # 1
        BY <2>2, <3>4
      <4>4. \A x : GrantEffect(rx, c.granted, x) => c'.granted = x
        BY <2>4, <3>4, <4>2, <4>3 DEF GrantEffect
      <4> QED
        BY <1>1, <1>2, <3>2, <4>2, <4>4, PlainPayload
    <3>5. CASE ~rx.ok \/ Top.op \notin {"hello", "authorize"}
      <4>1. c' = c
        BY <3>2, <3>5 DEF Accept
      <4>2. open' => Top.op # "hello"
        BY <2>1, <3>5
      <4>3. open' => \A x : GrantEffect(rx, c.granted, x) => c'.granted = x
        BY <2>2, <2>4, <4>1, <4>2 DEF GrantEffect
      <4> QED
        BY <1>1, <1>2, <3>2, <4>1, <4>3, PlainPayload
    <3> QED
      BY <3>3, <3>4, <3>5
  <2> QED
    BY <1>1, <2>3, <2>4
<1> QED
  BY <1>4, <1>5
\* The stream w leads from the client's view to the grants g and the number k.
Leads(w, g, k) ==
    /\ w \in Seq(PartSet)
    /\ InStep(w, rx)
    /\ open /\ role = "lease" => Path(w, GrantSteps, SUBSET Scopes, c.granted, g)
    /\ open => KeysReach(c.leases, seen.n, w, k)

\* A frame posted with what the service does when it sends it.
LEMMA PostLeads ==
  ASSUME IInv, NEW w, NEW g \in SUBSET Scopes, NEW k \in Nat, Leads(w, g, k),
         NEW f \in FrameSet, NEW h \in SUBSET Scopes, NEW l \in Nat,
         role = "lease" => GrantEffect(f, g, h), KeyEffect(f, k, l)
  PROVE  Leads(w \o Parts(f), h, l)
<1>1. w \in Seq(PartSet) /\ InStep(w, rx) /\ rx \in FrameSet \cup {NoFrame}
  BY DEF Leads, IInv, TypeOK
<1>2. w \o Parts(f) \in Seq(PartSet) /\ InStep(w \o Parts(f), rx)
  BY <1>1, PostInStep
<1>3. ASSUME open, role = "lease"
      PROVE  Path(w \o Parts(f), GrantSteps, SUBSET Scopes, c.granted, h)
  BY <1>1, <1>3, PostGrants DEF Leads
<1>4. ASSUME open
      PROVE  KeysReach(c.leases, seen.n, w \o Parts(f), l)
  BY <1>1, <1>4, PostKeys DEF Leads
<1> QED
  BY <1>2, <1>3, <1>4 DEF Leads

\* The whole step of a service that posts.
LEMMA PostStep ==
  ASSUME IInv, Leads(wire', grants', keySeq'), grants' \in SUBSET Scopes, keySeq' \in Nat,
         late' \in BOOLEAN, posts' \in Nat, asked' \subseteq asked,
         UNCHANGED <<role, c, stack, rx, open, eof, torn, nextId, seen, owed>>
  PROVE  IInv'
<1>1. TypeOK'
  BY DEF IInv, TypeOK, Leads
<1>2. InStep(wire, rx)' /\ ObservationsCounted' /\ OnlyObserversObserve'
  BY DEF IInv, ObservationsCounted, OnlyObserversObserve, Leads
<1>3. GrantsLead' /\ KeysLead'
  BY DEF IInv, GrantsLead, KeysLead, Leads
<1> QED
  BY <1>1, <1>2, <1>3 DEF IInv

\* The service answers, and tells a lease stream its grants before or after.
LEMMA AnswerStep ==
  ASSUME IInv, NEW r \in asked, Answer(r)
  PROVE  IInv'
<1>1. PICK ok \in BOOLEAN, more \in SUBSET Scopes :
        /\ more # {} => role = "lease" /\ r.op \in {"hello", "authorize"}
        /\ grants' = grants \cup more
        /\ LET response == Parts(Frame("response", r.id, ok, IF ok THEN grants' ELSE {}, 0))
               told == IF role = "lease" THEN Parts(Frame("granted", 0, TRUE, grants', 0))
                                         ELSE <<>>
           IN  Post(CASE r.op = "hello" -> response \o told
                      [] r.op = "authorize" -> told \o response
                      [] OTHER -> response)
  BY DEF Answer
<1> DEFINE answer == Frame("response", r.id, ok, IF ok THEN grants' ELSE {}, 0)
           notice == Frame("granted", 0, TRUE, grants', 0)
           response == Parts(answer)
           told == IF role = "lease" THEN Parts(notice) ELSE <<>>
<1>2. /\ asked' = asked \ {r}
      /\ UNCHANGED <<role, c, stack, rx, open, eof, torn, nextId, posts, keySeq, seen, owed>>
  BY DEF Answer
<1>3. /\ grants \in SUBSET Scopes /\ keySeq \in Nat /\ r \in RequestSet /\ posts \in Nat
      /\ wire \in Seq(PartSet) /\ role \in {"rpc", "lease", "callback", "observer"}
  BY DEF IInv, TypeOK
<1>4. grants' \in SUBSET Scopes
  BY <1>1, <1>3
<1>5. /\ answer \in FrameSet /\ answer.kind = "response" /\ answer.id = r.id
      /\ answer.ok => answer.scopes = grants'
  BY <1>3, <1>4 DEF Frame, FrameSet, RequestSet
<1>6. notice \in FrameSet /\ notice.kind = "granted" /\ notice.scopes = grants'
  BY <1>4 DEF Frame, FrameSet, Events
<1>7. r.id = 1 <=> r.op = "hello"
  BY <1>3 DEF RequestSet
<1>8. late' = TRUE /\ wire' = wire \o (CASE r.op = "hello" -> response \o told
                                          [] r.op = "authorize" -> told \o response
                                          [] OTHER -> response)
  BY <1>1 DEF Post
<1> HIDE DEF answer, notice
<1>9. response \in Seq(PartSet) /\ Parts(notice) \in Seq(PartSet) /\ told \in Seq(PartSet)
  <2>1. ASSUME NEW f \in FrameSet PROVE Parts(f) \in Seq(PartSet)
    BY <2>1 DEF Parts, PartSet
  <2> QED
    BY <1>5, <1>6, <2>1
<1>10. /\ KeyEffect(answer, keySeq, keySeq) /\ KeyEffect(notice, keySeq, keySeq)
       /\ GrantEffect(notice, grants, grants') /\ GrantEffect(notice, grants', grants')
       /\ r.op = "hello" => GrantEffect(answer, grants, grants')
       /\ r.op # "hello" => GrantEffect(answer, grants', grants')
  BY <1>5, <1>6, <1>7 DEF KeyEffect, KeyRecords, GrantEffect
<1>11. Leads(wire, grants, keySeq)
  BY <1>3 DEF IInv, GrantsLead, KeysLead, Leads
<1>12. CASE role = "lease"
  <2>1. told = Parts(notice)
    BY <1>12
  <2>2. CASE r.op = "hello"
    <3>0. wire' = wire \o (response \o Parts(notice))
      BY <1>8, <2>1, <2>2
    <3>b. (wire \o response) \o Parts(notice) = wire \o (response \o Parts(notice))
      BY <1>3, <1>9, ConcatAssociative
    <3>1. wire' = (wire \o response) \o Parts(notice)
      BY <3>0, <3>b
    <3>2. Leads(wire \o response, grants', keySeq)
      BY <1>3, <1>4, <1>5, <1>10, <1>11, <2>2, PostLeads
    <3>3. Leads((wire \o response) \o Parts(notice), grants', keySeq)
      BY <1>3, <1>4, <1>6, <1>10, <3>2, PostLeads
    <3> QED
      BY <1>2, <1>3, <1>4, <1>8, <3>1, <3>3, PostStep
  <2>3. CASE r.op = "authorize"
    <3>0. wire' = wire \o (Parts(notice) \o response)
      BY <1>8, <2>1, <2>3
    <3>1. wire' = (wire \o Parts(notice)) \o response
      BY <1>3, <1>9, <3>0, ConcatAssociative
    <3>2. Leads(wire \o Parts(notice), grants', keySeq)
      BY <1>3, <1>4, <1>6, <1>10, <1>11, PostLeads
    <3>3. Leads((wire \o Parts(notice)) \o response, grants', keySeq)
      BY <1>3, <1>4, <1>5, <1>10, <2>3, <3>2, PostLeads
    <3> QED
      BY <1>2, <1>3, <1>4, <1>8, <3>1, <3>3, PostStep
  <2>4. CASE r.op \notin {"hello", "authorize"}
    <3>1. wire' = wire \o response /\ grants' = grants
      BY <1>1, <1>8, <2>4
    <3>2. Leads(wire \o response, grants', keySeq)
      BY <1>3, <1>4, <1>5, <1>10, <1>11, <2>4, <3>1, PostLeads
    <3> QED
      BY <1>2, <1>3, <1>4, <1>8, <3>1, <3>2, PostStep
  <2> QED
    BY <2>2, <2>3, <2>4
<1>13. CASE role # "lease"
  <2>1. told = <<>>
    BY <1>13
  <2>2. response \o <<>> = response /\ <<>> \o response = response
    BY <1>9, ConcatEmptySeq
  <2>3. wire' = wire \o response
    BY <1>8, <2>1, <2>2
  <2>4. Leads(wire \o response, grants', keySeq)
    BY <1>3, <1>4, <1>5, <1>10, <1>11, <1>13, PostLeads
  <2> QED
    BY <1>2, <1>3, <1>4, <1>8, <2>3, <2>4, PostStep
<1> QED
  BY <1>12, <1>13

\* An entry of a permission list carries no grants and no keys.
LEMMA ListEntryStep ==
  ASSUME IInv, NEW r \in asked, ListEntry(r)
  PROVE  IInv'
<1> DEFINE f == Frame("more", r.id, TRUE, {}, 0)
<1>1. /\ wire' = wire \o Parts(f) /\ late' = TRUE /\ posts' = posts + 1
      /\ UNCHANGED <<role, c, stack, rx, open, eof, torn, nextId, asked, grants,
                     keySeq, seen, owed>>
  BY DEF ListEntry, Post
<1>2. /\ grants \in SUBSET Scopes /\ keySeq \in Nat /\ r \in RequestSet /\ posts \in Nat
      /\ Leads(wire, grants, keySeq)
  BY DEF IInv, TypeOK, GrantsLead, KeysLead, Leads
<1>3. f \in FrameSet /\ GrantEffect(f, grants, grants) /\ KeyEffect(f, keySeq, keySeq)
  BY <1>2 DEF Frame, FrameSet, RequestSet, GrantEffect, KeyEffect, KeyRecords
<1> HIDE DEF f
<1>4. Leads(wire \o Parts(f), grants, keySeq)
  BY <1>2, <1>3, PostLeads
<1> QED
  BY <1>1, <1>2, <1>4, PostStep

\* Each event the service posts says what the service did.
LEMMA NotifyStep ==
  ASSUME IInv, NEW kind \in Events \cup {"hook"}, Notify(kind)
  PROVE  IInv'
<1>1. /\ posts' = posts + 1
      /\ UNCHANGED <<role, c, stack, rx, open, eof, torn, nextId, asked, seen, owed>>
  BY DEF Notify
<1>2. /\ grants \in SUBSET Scopes /\ keySeq \in Nat /\ posts \in Nat
      /\ Leads(wire, grants, keySeq)
  BY DEF IInv, TypeOK, GrantsLead, KeysLead, Leads
<1>3. ASSUME NEW f \in FrameSet, Post(Parts(f)), grants' \in SUBSET Scopes, keySeq' \in Nat,
             role = "lease" => GrantEffect(f, grants, grants'), KeyEffect(f, keySeq, keySeq')
      PROVE  IInv'
  <2>1. wire' = wire \o Parts(f) /\ late' = TRUE
    BY <1>3 DEF Post
  <2>2. Leads(wire \o Parts(f), grants', keySeq')
    BY <1>2, <1>3, PostLeads
  <2> QED
    BY <1>1, <1>2, <1>3, <2>1, <2>2, PostStep
<1>4. CASE /\ kind = "hook" /\ role = "callback"
           /\ Post(Parts(Frame(kind, 100 + posts, TRUE, {}, 0)))
           /\ UNCHANGED <<grants, keySeq>>
  <2> DEFINE f == Frame(kind, 100 + posts, TRUE, {}, 0)
  <2>1. f \in FrameSet /\ KeyEffect(f, keySeq, keySeq)
    BY <1>2, <1>4 DEF Frame, FrameSet, KeyEffect, KeyRecords
  <2> HIDE DEF f
  <2> QED
    BY <1>2, <1>3, <1>4, <2>1 DEF f
<1>5. CASE /\ kind \in {"device", "quarantined"} /\ role = "callback"
           /\ Post(Parts(Frame(kind, 0, TRUE, {}, 0)))
           /\ UNCHANGED <<grants, keySeq>>
  <2> DEFINE f == Frame(kind, 0, TRUE, {}, 0)
  <2>1. f \in FrameSet /\ KeyEffect(f, keySeq, keySeq)
    BY <1>2, <1>5 DEF Frame, FrameSet, Events, KeyEffect, KeyRecords
  <2> HIDE DEF f
  <2> QED
    BY <1>2, <1>3, <1>5, <2>1 DEF f
<1>6. CASE /\ kind = "observe" /\ role = "observer"
           /\ Post(Parts(Frame(kind, 0, TRUE, {}, 0)))
           /\ UNCHANGED <<grants, keySeq>>
  <2> DEFINE f == Frame(kind, 0, TRUE, {}, 0)
  <2>1. f \in FrameSet /\ KeyEffect(f, keySeq, keySeq)
    BY <1>2, <1>6 DEF Frame, FrameSet, Events, KeyEffect, KeyRecords
  <2> HIDE DEF f
  <2> QED
    BY <1>2, <1>3, <1>6, <2>1 DEF f
<1>7. CASE /\ kind = "revoked" /\ role # "rpc"
           /\ \E lost \in SUBSET grants \ {{}} :
                 /\ grants' = grants \ lost
                 /\ Post(Parts(Frame(kind, 0, TRUE, lost, 0)))
           /\ UNCHANGED keySeq
  <2>1. PICK lost \in SUBSET grants : /\ grants' = grants \ lost
                                     /\ Post(Parts(Frame(kind, 0, TRUE, lost, 0)))
    BY <1>7
  <2> DEFINE f == Frame(kind, 0, TRUE, lost, 0)
  <2>2. f \in FrameSet /\ KeyEffect(f, keySeq, keySeq) /\ GrantEffect(f, grants, grants')
    BY <1>2, <1>7, <2>1 DEF Frame, FrameSet, Events, KeyEffect, KeyRecords, GrantEffect
  <2>3. grants' \in SUBSET Scopes
    BY <1>2, <2>1
  <2> HIDE DEF f
  <2> QED
    BY <1>2, <1>3, <1>7, <2>1, <2>2, <2>3 DEF f
<1>8. CASE /\ kind = "delta" /\ role = "lease" /\ keySeq > 0
           /\ keySeq' \in (keySeq + 1)..(keySeq + 1 + MaxSkip)
           /\ Post(Parts(KeyFrame(kind, keySeq', keySeq)))
           /\ UNCHANGED grants
  <2> DEFINE f == KeyFrame(kind, keySeq', keySeq)
  <2>1. f \in FrameSet /\ KeyEffect(f, keySeq, keySeq') /\ GrantEffect(f, grants, grants)
    BY <1>2, <1>8, BoundsAssumption DEF KeyFrame, FrameSet, Events, KeyEffect, KeyRecords, GrantEffect
  <2>2. keySeq' \in Nat /\ grants' = grants
    BY <1>2, <1>8, BoundsAssumption
  <2>3. Post(Parts(f))
    BY <1>8
  <2> HIDE DEF f
  <2> QED
    BY <1>2, <1>3, <2>1, <2>2, <2>3
<1>9. CASE /\ kind = "snapshot" /\ role = "lease"
           /\ LET first == IF keySeq = 0 THEN 1 ELSE keySeq
              IN  keySeq' \in first..(first + MaxSkip)
           /\ Post(Parts(KeyFrame(kind, keySeq', 0)))
           /\ UNCHANGED grants
  <2> DEFINE f == KeyFrame(kind, keySeq', 0)
  <2>2. keySeq' \in Nat /\ grants' = grants /\ Post(Parts(f))
    BY <1>2, <1>9, BoundsAssumption
  <2>1. f \in FrameSet /\ KeyEffect(f, keySeq, keySeq') /\ GrantEffect(f, grants, grants)
    BY <1>2, <1>9, BoundsAssumption DEF KeyFrame, FrameSet, Events, KeyEffect, KeyRecords, GrantEffect
  <2> HIDE DEF f
  <2> QED
    BY <1>2, <1>3, <2>1, <2>2 DEF f
<1> QED
  BY <1>4, <1>5, <1>6, <1>7, <1>8, <1>9 DEF Notify

-----------------------------------------------------------------------------
(* The theorems                                                            *)

\* The invariant holds while ksi_connect waits for the answer to HELLO.
LEMMA InitIInv == Init => IInv
<1> SUFFICES ASSUME Init PROVE IInv
  OBVIOUS
<1>1. TypeOK
  <2>1. role \in {"rpc", "lease", "callback", "observer"} /\ grants \in SUBSET Scopes
    BY RolesAssumption DEF Init
  <2>2. c \in BufferSet
    BY DEF Init, BufferSet
  <2>3. [fn |-> "request", id |-> 1, op |-> "hello"] \in CallSet
    BY DEF CallSet, OpSet
  <2>4. stack \in Seq(CallSet)
    BY <2>3 DEF Init
  <2>5. asked \in SUBSET RequestSet
    BY DEF Init, RequestSet, OpSet
  <2>6. seen \in MessageSet
    BY DEF Init, Message, MessageSet, Events, KeyRecords
  <2>7. rx \in FrameSet \cup {NoFrame} /\ wire \in Seq(PartSet)
    BY DEF Init
  <2>8. open \in BOOLEAN /\ eof \in BOOLEAN /\ torn \in BOOLEAN /\ late \in BOOLEAN
    BY Zenon DEF Init
  <2>9. nextId \in Nat /\ nextId >= 2 /\ posts \in Nat /\ keySeq \in Nat /\ owed \in Nat
    BY DEF Init
  <2> QED
    BY <2>1, <2>2, <2>4, <2>5, <2>6, <2>7, <2>8, <2>9 DEF TypeOK
<1>2. InStep(wire, rx)
  BY DEF Init, InStep
<1>3. c.obs = 0 /\ c.dropped = 0 /\ c.leases = <<>> /\ c.notes = <<>> /\ c.granted = {}
  BY DEF Init
<1>4. ObservationsCounted /\ OnlyObserversObserve
  BY <1>3 DEF Init, ObservationsCounted, OnlyObserversObserve
<1>5. GrantsLead
  <2>1. Path(<<>>, GrantSteps, SUBSET Scopes, {}, {})
    BY PathEmpty
  <2> QED
    BY <1>3, <2>1 DEF Init, GrantsLead
<1>6. KeysLead
  <2>1. Path(<<>>, LeaseKeySteps, Nat, 0, 0) /\ Path(<<>>, WireKeySteps, Nat, 0, 0)
    BY PathEmpty
  <2>2. seen.n = 0
    BY DEF Init, Message
  <2> QED
    BY <1>3, <2>1, <2>2 DEF Init, KeysLead, KeysReach, NoKeys
<1> QED
  BY <1>1, <1>2, <1>4, <1>5, <1>6 DEF IInv

\* Every step keeps the invariant, one lemma per action.
LEMMA NextIInv == IInv /\ [Next]_vars => IInv'
<1> SUFFICES ASSUME IInv, [Next]_vars PROVE IInv'
  OBVIOUS
<1>1. ASSUME NEW op \in {"query", "list", "authorize"}, Request(op) PROVE IInv'
  BY <1>1, RequestStep DEF OpSet
<1>2. CASE Query \/ Synthesize \/ Subscribe \/ RevokePermissions \/ ListPermissions \/ Authorize
  BY <1>1, <1>2 DEF Query, Synthesize, Subscribe, RevokePermissions, ListPermissions, Authorize
<1>3. CASE HookNext \/ ObserverNext \/ LeaseNext
  BY <1>3, NextMessageStep DEF HookNext, ObserverNext, LeaseNext
<1>4. CASE Arrive
  BY <1>4, ArriveStep
<1>5. CASE ReplyEvent \/ HandlerReturn \/ SetNestedHandler
  BY <1>5, ReplyEventStep, HandlerReturnStep, SetNestedHandlerStep
<1>6. CASE ReadHeader
  BY <1>6, ReadHeaderStep
<1>7. CASE HandleEvent \/ HandleHook \/ HandleResponse
  BY <1>7, HandleEventStep, HandleHookStep, HandleResponseStep
<1>8. CASE Timeout \/ Closed \/ ServiceClose
  BY <1>8, TimeoutStep, ClosedStep, ServiceCloseStep
<1>9. CASE \E r \in asked : Answer(r) \/ ListEntry(r)
  BY <1>9, AnswerStep, ListEntryStep
<1>10. CASE \E kind \in Events \cup {"hook"} : Notify(kind)
  BY <1>10, NotifyStep
<1>11. CASE UNCHANGED vars
  <2>1. UNCHANGED <<role, c, stack, rx, open, eof, torn, nextId, wire, late, asked,
                    grants, posts, keySeq, seen, owed>>
    BY <1>11 DEF vars
  <2>2. TypeOK'
    BY <2>1 DEF IInv, TypeOK
  <2> QED
    BY <2>1, <2>2, QuietStep
<1> QED
  BY <1>2, <1>3, <1>4, <1>5, <1>6, <1>7, <1>8, <1>9, <1>10, <1>11 DEF Next

\* The invariant holds in every reachable state.
THEOREM InductiveInvariant == Spec => []IInv
  BY InitIInv, NextIInv, PTL DEF Spec

\* Partial frames survive a timeout (receive_frame, client.h:116): whatever calls
\* are made and however often they give up, the next bytes are the expected ones.
THEOREM StreamStaysInSync == Spec => []StreamInSync
<1>1. IInv => StreamInSync
  <2> SUFFICES ASSUME IInv, wire # <<>>
               PROVE  Head(wire).part = (IF rx = NoFrame THEN "header" ELSE "payload")
    BY DEF StreamInSync
  <2>1. wire \in Seq(PartSet) /\ InStep(wire, rx)
    BY DEF IInv, TypeOK
  <2>2. Head(wire) = wire[1]
    BY <2>1
  <2> QED
    BY <2>1, <2>2 DEF InStep
<1> QED
  BY <1>1, InductiveInvariant, PTL

\* A lease stream that has read everything holds the service's grants, whatever
\* notices, revocations and answers crossed (apply_revocation, queue_lease_event).
THEOREM GrantsConverge == Spec => []GrantsAgree
<1>1. IInv => GrantsAgree
  <2> SUFFICES ASSUME IInv, role = "lease", open, wire = <<>>
               PROVE  c.granted = grants
    BY DEF GrantsAgree
  <2>1. PICK g \in [Nat -> SUBSET Scopes] : g[0] = c.granted /\ g[Len(wire)] = grants
    BY DEF IInv, GrantsLead, Path
  <2> QED
    BY <2>1
<1> QED
  BY <1>1, InductiveInvariant, PTL

\* Every observation is delivered, buffered or counted as dropped exactly once
\* (queue_observation, ksi_observer_next), for every capacity of the buffer.
THEOREM ObservationsAccounted == Spec => []ObservationsCounted
<1>1. IInv => ObservationsCounted
  BY DEF IInv
<1> QED
  BY <1>1, InductiveInvariant, PTL

\* The application is given a keyboard delta only right after the record that the
\* service had sent this connection before it, although queue_lease_event merges
\* records that were not read; the numbers the service passed over are the gaps.
THEOREM DeltasFollow == Spec => DeltaFollows
<1> DEFINE Follows == (seen' # seen /\ open /\ seen'.kind = "delta")
                        => seen'.prev = seen.n /\ seen.n < seen'.n
<1>1. ASSUME IInv, NextMessage PROVE Follows
  <2>1. CASE CanTake(c)
    <3>1. seen' = SeenAfter(Taken(c))
      BY <1>1, <2>1 DEF NextMessage
    <3>2. /\ c \in BufferSet /\ owed \in Nat /\ owed = c.obs + c.dropped /\ NoKeys(c.notes)
          /\ role # "observer" => c.obs = 0 /\ c.dropped = 0
      BY <1>1 DEF IInv, TypeOK, ObservationsCounted, OnlyObserversObserve, KeysLead
    <3>3. \A k \in Nat :
            Path(c.leases, LeaseKeySteps, Nat, seen.n, k)
              => ((seen' # seen /\ seen'.kind = "delta")
                          => seen'.prev = seen.n /\ seen.n < seen'.n)
      BY <1>1, <2>1, <3>1, <3>2, TakeProps DEF IInv
    <3>4. open => \E k \in Nat : Path(c.leases, LeaseKeySteps, Nat, seen.n, k)
      BY <1>1 DEF IInv, KeysLead, KeysReach
    <3> QED
      BY <3>3, <3>4
  <2>2. CASE ~CanTake(c)
    BY <1>1, <2>2 DEF NextMessage
  <2> QED
    BY <2>1, <2>2
<1>2. IInv /\ [Next]_vars => [Follows]_vars
  <2> SUFFICES ASSUME IInv, Next PROVE Follows
    OBVIOUS
  <2>1. CASE HookNext \/ ObserverNext \/ LeaseNext
    BY <1>1, <2>1 DEF HookNext, ObserverNext, LeaseNext
  <2>2. CASE HandleEvent
    BY <2>2, HandleEventStep
  <2>3. ASSUME ~(HookNext \/ ObserverNext \/ LeaseNext), ~HandleEvent PROVE seen' = seen
    BY <2>3 DEF Next, Arrive, Query, Synthesize, Subscribe, RevokePermissions,
                ListPermissions, Authorize, Request, ReplyEvent, HandlerReturn,
                SetNestedHandler, ReadHeader, HandleHook, HandleResponse, Timeout, Closed,
                Answer, ListEntry, Notify, ServiceClose
  <2> QED
    BY <2>1, <2>2, <2>3
<1> QED
  BY <1>2, InductiveInvariant, PTL DEF Spec, DeltaFollows
=============================================================================
