--------------------------- MODULE Ingress_proofs ---------------------------
(***************************************************************************)
(* That admission is sound for every set of keys, every policy and every   *)
(* bound on what producers send.                                           *)
(*                                                                         *)
(* The invariant describes one scope at a time, since keys share only the  *)
(* clock.  The buffer lies ahead of the watermark by definition of every   *)
(* operator that parks or flushes; what makes the window a run of one      *)
(* generation is that a newer generation empties it before anything is     *)
(* delivered, which is why it holds only while open() is not asked to      *)
(* raise one.  That a closed scope has no window (IsShut) is needed for    *)
(* what is reported: it is created anew without a word about its value.    *)
(***************************************************************************)
EXTENDS Ingress, FiniteSetTheorems, SequenceTheorems, TLAPS

-----------------------------------------------------------------------------
(* The window is a run of the operations that end at the watermark. *)
IsRun(s) ==
  \A i \in 1 .. Len(s.window) :
    s.window[i] = <<s.generation, s.deliveredThrough - Len(s.window) + i>>

(* The buffer lies beyond the next expected sequence and keeps its bound. *)
IsAhead(s) ==
  /\ \A q \in DOMAIN s.pending : q > NextExpected(s)
  /\ Cardinality(DOMAIN s.pending) <= ReorderWindow

(* What a bounding policy lets a window grow to. *)
Ceiling == (IF HighWater = 0 THEN 1 ELSE HighWater) + ReorderWindow
IsBounded(s) == overflow # "conflate" => Len(s.window) <= Ceiling

(* A closed scope has given up its window. *)
IsShut(s) == s.lifecycle = "closed" => s.window = <<>>

(* A sound scope, with or without what only holds while open() never names *)
(* a newer generation.                                                     *)
Sound(s) ==
  /\ s \in ScopeType /\ IsAhead(s) /\ IsBounded(s) /\ IsShut(s)
  /\ ~OpenRaises => IsRun(s)

(* The inductive invariant. *)
IInv ==
  /\ overflow \in Overflows
  /\ DOMAIN scopes = Keys
  /\ \A k \in Keys : Known(k) => Sound(scopes[k])
  /\ TypeOK

-----------------------------------------------------------------------------
(* A set of natural numbers has a least one. *)
LEMMA LeastNatural ==
  ASSUME NEW S \in SUBSET Nat, S # {}
  PROVE  \E n \in S : \A m \in S : n <= m
<1> DEFINE R == {ss \in Nat \X Nat : ss[1] < ss[2]}
<1>1. R = OpToRel(<, Nat)
  BY Zenon DEF OpToRel
<1>2. IsWellFoundedOn(R, Nat)
  BY <1>1, NatLessThanWellFounded
<1> HIDE DEF R
<1>3. PICK n \in S : \A m \in S : <<m, n>> \notin R
  BY <1>2, WFMin, Zenon
<1>4. ASSUME NEW m \in S
      PROVE  n <= m
  <2>1. <<m, n>> \notin {ss \in Nat \X Nat : ss[1] < ss[2]}
    BY <1>3 DEF R
  <2>2. <<m, n>> \in Nat \X Nat
    OBVIOUS
  <2>3. ~(<<m, n>>[1] < <<m, n>>[2])
    BY <2>1, <2>2, Zenon
  <2> QED  BY <2>3
<1> QED  BY <1>4

(* A bounded set of natural numbers has a greatest one, which Max returns. *)
LEMMA MaxOfBounded ==
  ASSUME NEW S \in SUBSET Nat, S # {}, NEW b \in Nat, \A n \in S : n <= b
  PROVE  Max(S) \in S /\ \A n \in S : n <= Max(S)
<1> DEFINE gaps == {d \in Nat : b - d \in S}
<1>1. gaps \in SUBSET Nat /\ gaps # {}
  <2>1. PICK n \in S : TRUE
    OBVIOUS
  <2>2. b - n \in Nat /\ b - (b - n) = n
    BY <2>1
  <2> QED  BY <2>2
<1>2. PICK d \in gaps : \A e \in gaps : d <= e
  BY <1>1, LeastNatural
<1>3. \A n \in S : b - n \in gaps
  <2> TAKE n \in S
  <2>1. b - n \in Nat /\ b - (b - n) = n
    OBVIOUS
  <2> QED  BY <2>1
<1>4. b - d \in S /\ \A n \in S : b - d >= n
  BY <1>2, <1>3
<1>5. \E x \in S : \A y \in S : x >= y
  BY <1>4
<1> QED  BY <1>5 DEF Max

(* The run of buffered successors ends within the buffer. *)
LEMMA RunEnds ==
  ASSUME NEW D \in SUBSET SequenceNumbers, NEW p, DOMAIN p = D,
         NEW q \in Nat, q <= MaxSeq + 1
  PROVE  /\ RunEnd(p, q) \in (q - 1) .. MaxSeq
         /\ (q .. RunEnd(p, q)) \subseteq D
         /\ RunEnd(p, q) + 1 \notin D
<1> USE BoundsAssumption DEF SequenceNumbers
<1> DEFINE free == {n \in Nat : n >= q /\ n \notin D}
<1>1. MaxSeq + 1 \in free /\ free \in SUBSET Nat
  OBVIOUS
<1>2. PICK n \in free : \A m \in free : n <= m
  BY <1>1, LeastNatural
<1>3. /\ n - 1 \in (q - 1) .. MaxSeq
      /\ (q .. n - 1) \subseteq D /\ n - 1 + 1 \notin D
  BY <1>1, <1>2
<1> QED  BY <1>3 DEF RunEnd

-----------------------------------------------------------------------------
(* The scope operators. *)

(* A reorder buffer maps sequences to times. *)
LEMMA BufferType ==
  ASSUME NEW D \in SUBSET SequenceNumbers, NEW p \in [D -> Times]
  PROVE  p \in Buffers
  BY DEF Buffers

(* The fields of a scope. *)
LEMMA ScopeFields ==
  ASSUME NEW s \in ScopeType
  PROVE  /\ s.lifecycle \in {"opening", "live", "suspended", "closed"}
         /\ s.generation \in Incarnations
         /\ s.deliveredThrough \in -1 .. MaxSeq
         /\ s.stampedAt \in Times
         /\ DOMAIN s.pending \in SUBSET SequenceNumbers
         /\ s.pending \in [DOMAIN s.pending -> Times]
         /\ s.window \in Seq(Incarnations \X SequenceNumbers)
         /\ s.consecutiveErrors \in 0 .. MaxErrors
         /\ s # Unknown
<1> USE BoundsAssumption DEF SequenceNumbers, NoSequence
<1>1. PICK D \in SUBSET SequenceNumbers : s.pending \in [D -> Times]
  BY DEF ScopeType, Buffers
<1>2. s.lifecycle # Unknown.lifecycle
  BY DEF ScopeType, Unknown
<1> QED  BY <1>1, <1>2 DEF ScopeType

(* A buffer is finite. *)
LEMMA BufferFinite ==
  ASSUME NEW D \in SUBSET SequenceNumbers
  PROVE  IsFiniteSet(D) /\ Cardinality(D) \in Nat
<1> USE BoundsAssumption DEF SequenceNumbers
<1>1. IsFiniteSet(0 .. MaxSeq)
  BY FS_Interval
<1> QED  BY <1>1, FS_Subset, FS_CardinalityType

(* The empty buffer. *)
LEMMA NothingPending ==
  /\ NoPending \in Buffers /\ DOMAIN NoPending = {}
  /\ Cardinality(DOMAIN NoPending) = 0
<1>1. NoPending \in [{} -> Times] /\ DOMAIN NoPending = {}
  BY DEF NoPending
<1>2. NoPending \in Buffers
  BY <1>1, BufferType
<1> QED  BY <1>1, <1>2, FS_EmptySet

(* What a fresh scope starts with is sound. *)
LEMMA NewScopeSound ==
  ASSUME NEW g \in Incarnations
  PROVE  Sound(NewScope(g)) /\ NewScope(g) # Unknown
<1> DEFINE s == NewScope(g)
<1> USE BoundsAssumption, PolicyAssumption
<1>1. s \in ScopeType
  BY NothingPending, EmptySeq
  DEF NewScope, ScopeType, Times, NoSequence, SequenceNumbers
<1>2. IsAhead(s)
  BY NothingPending DEF NewScope, IsAhead
<1>3. IsBounded(s) /\ IsShut(s) /\ IsRun(s)
  BY DEF NewScope, IsBounded, IsShut, IsRun, Ceiling
<1> QED  BY <1>1, <1>2, <1>3, ScopeFields DEF Sound

(* The fence of a newer generation leaves nothing of the older one. *)
LEMMA FencedSound ==
  ASSUME NEW s, Sound(s), NEW g \in Incarnations
  PROVE  /\ Sound(Fenced(s, g))
         /\ Fenced(s, g).generation >= s.generation
         /\ Fenced(s, g).generation = s.generation => Fenced(s, g) = s
         /\ Fenced(s, g).lifecycle = s.lifecycle
         /\ Fenced(s, g).stampedAt = s.stampedAt
         /\ g <= Fenced(s, g).generation
         /\ g >= s.generation => Fenced(s, g).generation = g
<1> DEFINE t == Fenced(s, g)
<1> USE BoundsAssumption, PolicyAssumption
<1>1. s \in ScopeType
  BY DEF Sound
<1>2. CASE ~(g > s.generation)
  <2>1. t = s
    BY <1>2 DEF Fenced
  <2> QED  BY <1>1, <1>2, <2>1, ScopeFields DEF Incarnations
<1>3. CASE g > s.generation
  <2>1. t = [s EXCEPT !.generation = g, !.deliveredThrough = NoSequence,
                      !.pending = NoPending, !.window = <<>>]
    BY <1>3 DEF Fenced
  <2>2. t \in ScopeType
    <3>1. <<>> \in Seq(Incarnations \X SequenceNumbers) /\ NoPending \in Buffers
      BY NothingPending, EmptySeq
    <3> QED  BY <1>1, <2>1, <3>1 DEF ScopeType, NoSequence
  <2>3. /\ t.generation = g /\ t.lifecycle = s.lifecycle
        /\ t.stampedAt = s.stampedAt /\ t.window = <<>> /\ t.pending = NoPending
    BY <1>1, <2>1 DEF ScopeType
  <2>4. IsAhead(t) /\ IsBounded(t) /\ IsShut(t) /\ IsRun(t)
    BY <2>3, NothingPending DEF IsAhead, IsBounded, IsShut, IsRun, Ceiling
  <2> QED  BY <1>1, <1>3, <2>2, <2>3, <2>4, ScopeFields DEF Sound, Incarnations
<1> QED  BY <1>2, <1>3

(* An envelope parked in a free slot is ahead, and there is room for it. *)
LEMMA ParkSound ==
  ASSUME NEW s, Sound(s), NEW e \in Envelopes,
         e.sequence > NextExpected(s), ~NoSlot(s, e)
  PROVE  /\ Sound(Park(s, e))
         /\ Park(s, e) = [s EXCEPT !.pending = Park(s, e).pending]
<1> DEFINE t == Park(s, e)
           D == DOMAIN s.pending
<1> USE BoundsAssumption, PolicyAssumption
<1>1. s \in ScopeType /\ D \in SUBSET SequenceNumbers /\ s.pending \in [D -> Times]
      /\ e.sequence \in SequenceNumbers /\ e.stampedAt \in Times
  BY ScopeFields DEF Sound, Envelopes
<1>2. /\ t = [s EXCEPT !.pending = t.pending]
      /\ DOMAIN t.pending = D \cup {e.sequence}
      /\ t.pending \in [D \cup {e.sequence} -> Times]
  BY <1>1 DEF Park, ScopeType
<1>3. t.pending \in Buffers
  BY <1>1, <1>2, BufferType
<1>4. t \in ScopeType
  BY <1>1, <1>2, <1>3 DEF ScopeType
<1>5. Cardinality(D \cup {e.sequence}) <= ReorderWindow
  <2>1. ~(Cardinality(D) >= ReorderWindow) /\ e.sequence \notin D
    BY DEF NoSlot
  <2>2. Cardinality(D \cup {e.sequence}) = Cardinality(D) + 1
    BY <1>1, <2>1, BufferFinite, FS_AddElement
  <2> QED  BY <1>1, <2>1, <2>2, BufferFinite
<1>6. /\ t.deliveredThrough = s.deliveredThrough /\ t.generation = s.generation
      /\ t.window = s.window /\ t.lifecycle = s.lifecycle
  BY <1>1, <1>2 DEF ScopeType
<1>7. IsAhead(t)
  BY <1>2, <1>5, <1>6 DEF Sound, IsAhead, NextExpected
<1> QED
  BY <1>2, <1>4, <1>6, <1>7 DEF Sound, IsBounded, IsShut, IsRun

(* A flush delivers the buffered run and nothing else: the window grows by *)
(* the run, and what stays buffered lies beyond a gap.                     *)
LEMMA FlushShape ==
  ASSUME NEW s \in ScopeType,
         \A q \in DOMAIN s.pending : q > s.deliveredThrough
  PROVE  LET t == Flush(s)
             n == t.deliveredThrough - s.deliveredThrough
         IN /\ t \in ScopeType
            /\ t.lifecycle = s.lifecycle /\ t.generation = s.generation
            /\ n \in 0 .. Cardinality(DOMAIN s.pending)
            /\ t.window = s.window \o
                 [i \in 1 .. n |-> <<s.generation, s.deliveredThrough + i>>]
            /\ DOMAIN t.pending \subseteq DOMAIN s.pending
            /\ \A q \in DOMAIN t.pending : q > NextExpected(t)
<1> DEFINE first == s.deliveredThrough + 1
           last  == RunEnd(s.pending, first)
           run   == first .. last
           D     == DOMAIN s.pending
           more  == [i \in 1 .. last - first + 1 |-> <<s.generation, first + i - 1>>]
           stamp == Max({s.stampedAt} \cup {s.pending[q] : q \in run})
           rest  == [q \in D \ run |-> s.pending[q]]
           t     == Flush(s)
<1> USE BoundsAssumption
<1>1. /\ D \in SUBSET SequenceNumbers /\ s.pending \in [D -> Times]
      /\ s.deliveredThrough \in -1 .. MaxSeq /\ s.generation \in Incarnations
      /\ s.stampedAt \in Times /\ s.window \in Seq(Incarnations \X SequenceNumbers)
  BY ScopeFields
<1>2. last \in (first - 1) .. MaxSeq /\ run \subseteq D /\ last + 1 \notin D
  <2>1. first \in Nat /\ first <= MaxSeq + 1
    BY <1>1
  <2> HIDE DEF first
  <2> QED  BY <1>1, <2>1, RunEnds
<1>3. stamp \in Times
  <2> DEFINE T == {s.stampedAt} \cup {s.pending[q] : q \in run}
  <2>0. \A q \in run : s.pending[q] \in Times
    BY <1>1, <1>2
  <2>1. T \in SUBSET Nat /\ T # {} /\ T \subseteq Times /\ \A x \in T : x <= MaxNow
    <3> HIDE DEF run
    <3> QED  BY <1>1, <2>0, SMTT(30) DEF Times
  <2>2. Max(T) \in T
    BY <2>1, MaxOfBounded
  <2> QED  BY <2>1, <2>2
<1>4. rest \in Buffers /\ DOMAIN rest = D \ run
  <2>1. D \ run \in SUBSET SequenceNumbers /\ rest \in [D \ run -> Times]
    BY <1>1
  <2> QED  BY <2>1, BufferType
<1>5. /\ more \in Seq(Incarnations \X SequenceNumbers)
      /\ last - first + 1 \in Nat
  <2>1. last - first + 1 \in Nat
    BY <1>1, <1>2
  <2>2. \A i \in 1 .. last - first + 1 :
          <<s.generation, first + i - 1>> \in Incarnations \X SequenceNumbers
    BY <1>1, <1>2, SMTT(30) DEF SequenceNumbers
  <2> DEFINE n == last - first + 1
             Op(i) == <<s.generation, first + i - 1>>
  <2>3. n \in Nat /\ \A i \in 1 .. n : Op(i) \in Incarnations \X SequenceNumbers
    BY <2>1, <2>2
  <2>4. [i \in 1 .. n |-> Op(i)] \in Seq(Incarnations \X SequenceNumbers)
    <3> HIDE DEF n, Op
    <3> QED  BY <2>3, IsASeq
  <2> QED  BY <2>1, <2>4
<1>6. t = [s EXCEPT !.deliveredThrough = last, !.pending = rest,
                    !.window = s.window \o more, !.stampedAt = stamp]
  BY <1>1 DEF Flush, NextExpected, ScopeType
<1>7. /\ t.deliveredThrough = last /\ t.pending = rest /\ t.window = s.window \o more
      /\ t.lifecycle = s.lifecycle /\ t.generation = s.generation
  BY <1>6 DEF ScopeType
<1>8. s.window \o more \in Seq(Incarnations \X SequenceNumbers)
  <2> HIDE DEF more
  <2> QED  BY <1>1, <1>5, ConcatProperties
<1>9. t \in ScopeType
  <2>1. last \in SequenceNumbers \cup {NoSequence}
    BY <1>1, <1>2 DEF SequenceNumbers, NoSequence
  <2> HIDE DEF last, rest, more, stamp, t
  <2> QED  BY <1>3, <1>4, <1>6, <1>8, <2>1 DEF ScopeType
<1>10. last - s.deliveredThrough \in 0 .. Cardinality(D)
  <2>1. Cardinality(run) <= Cardinality(D) /\ Cardinality(D) \in Nat
    BY <1>1, <1>2, BufferFinite, FS_Subset
  <2>2. Cardinality(run) = IF first > last THEN 0 ELSE last - first + 1
    <3>1. first \in Int /\ last \in Int
      BY <1>1, <1>2
    <3> HIDE DEF first, last
    <3> QED  BY <3>1, FS_Interval
  <2> QED  BY <1>1, <1>2, <2>1, <2>2
<1>11. t.window = s.window \o
         [i \in 1 .. last - s.deliveredThrough |-> <<s.generation, s.deliveredThrough + i>>]
  <2>1. last - first + 1 = last - s.deliveredThrough
    BY <1>1, <1>2
  <2>2. \A i \in 1 .. last - s.deliveredThrough : first + i - 1 = s.deliveredThrough + i
    BY <1>1, <1>2
  <2>3. more = [i \in 1 .. last - s.deliveredThrough |->
                  <<s.generation, s.deliveredThrough + i>>]
    <3> HIDE DEF last, first
    <3> QED  BY <2>1, <2>2
  <2> QED  BY <1>7, <2>3
<1>12. \A q \in D \ run : q > last + 1
  <2> TAKE q \in D \ run
  <2>1. q > s.deliveredThrough /\ q \in Nat
    BY <1>1 DEF SequenceNumbers
  <2>2. q # last + 1
    BY <1>2
  <2> QED  BY <1>1, <1>2, <2>1, <2>2
<1> HIDE DEF last, first, run, more, stamp, rest, t
<1>13. /\ t.deliveredThrough - s.deliveredThrough \in 0 .. Cardinality(D)
       /\ t.window = s.window \o
            [i \in 1 .. t.deliveredThrough - s.deliveredThrough |->
               <<s.generation, s.deliveredThrough + i>>]
  BY <1>7, <1>10, <1>11
<1>14. /\ DOMAIN t.pending \subseteq D
       /\ \A q \in DOMAIN t.pending : q > NextExpected(t)
  BY <1>4, <1>7, <1>12 DEF NextExpected
<1> QED  BY <1>7, <1>9, <1>13, <1>14 DEF t

(* Appending the next operation and a run of n after it to a run that ends *)
(* at d gives a run that ends at d + 1 + n.                                *)
LEMMA RunGrows ==
  ASSUME NEW S, NEW w \in Seq(S), NEW g, NEW d \in Int, NEW n \in Nat,
         <<g, d + 1>> \in S, \A i \in 1 .. n : <<g, d + 1 + i>> \in S
  PROVE  LET v == Append(w, <<g, d + 1>>) \o [i \in 1 .. n |-> <<g, d + 1 + i>>]
         IN /\ Len(v) = Len(w) + 1 + n
            /\ (\A i \in 1 .. Len(w) : w[i] = <<g, d - Len(w) + i>>) =>
                 \A i \in 1 .. Len(v) : v[i] = <<g, d + 1 + n - Len(v) + i>>
<1> DEFINE head == Append(w, <<g, d + 1>>)
           more == [i \in 1 .. n |-> <<g, d + 1 + i>>]
           v    == head \o more
<1>1. /\ head \in Seq(S) /\ Len(head) = Len(w) + 1 /\ Len(w) \in Nat
      /\ \A i \in 1 .. Len(w) : head[i] = w[i]
      /\ head[Len(w) + 1] = <<g, d + 1>>
  BY AppendProperties, LenProperties
<1>2. more \in Seq(S) /\ Len(more) = n /\ \A i \in 1 .. n : more[i] = <<g, d + 1 + i>>
  <2> DEFINE Op(i) == <<g, d + 1 + i>>
  <2>1. \A i \in 1 .. n : Op(i) \in S
    OBVIOUS
  <2>2. [i \in 1 .. n |-> Op(i)] \in Seq(S)
    <3> HIDE DEF Op
    <3> QED  BY <2>1, IsASeq
  <2>3. more \in Seq(S)
    BY <2>2
  <2>4. DOMAIN more = 1 .. n /\ \A i \in 1 .. n : more[i] = <<g, d + 1 + i>>
    OBVIOUS
  <2>5. Len(more) = n
    <3> HIDE DEF more
    <3> QED  BY <2>3, <2>4, LenProperties
  <2> QED  BY <2>3, <2>4, <2>5
<1> HIDE DEF head, more
<1>3. /\ Len(v) = Len(w) + 1 + n
      /\ \A i \in 1 .. Len(v) :
           v[i] = IF i <= Len(head) THEN head[i] ELSE more[i - Len(head)]
  <2>1. Len(v) = Len(head) + Len(more)
    BY <1>1, <1>2, ConcatProperties
  <2>2. \A i \in 1 .. Len(head) + Len(more) :
          v[i] = IF i <= Len(head) THEN head[i] ELSE more[i - Len(head)]
    BY <1>1, <1>2, ConcatProperties
  <2> QED  BY <1>1, <1>2, <2>1, <2>2
<1>4. ASSUME \A i \in 1 .. Len(w) : w[i] = <<g, d - Len(w) + i>>, NEW i \in 1 .. Len(v)
      PROVE  v[i] = <<g, d + 1 + n - Len(v) + i>>
  <2>1. d + 1 + n - Len(v) + i = d - Len(w) + i
    BY <1>1, <1>3
  <2>2. CASE i <= Len(w)
    BY <1>1, <1>3, <1>4, <2>1, <2>2, SMTT(30)
  <2>3. CASE i = Len(w) + 1
    BY <1>1, <1>3, <2>1, <2>3
  <2>4. CASE i > Len(w) + 1
    <3>1. i - Len(head) \in 1 .. n /\ v[i] = more[i - Len(head)]
      BY <1>1, <1>3, <2>4
    <3>2. v[i] = <<g, d + 1 + (i - Len(head))>>
      BY <1>2, <3>1
    <3>3. d + 1 + (i - Len(head)) = d - Len(w) + i
      BY <1>1, <1>3
    <3> QED  BY <2>1, <3>2, <3>3
  <2> QED  BY <1>1, <2>2, <2>3, <2>4, SMTT(30)
<1> QED  BY <1>3, <1>4 DEF head, more

(* A delivery appends the envelope and the run it frees. *)
LEMMA DeliverSound ==
  ASSUME NEW s, Sound(s), NEW e \in Envelopes, overflow \in Overflows,
         e.sequence = NextExpected(s), ~Overfull(s, e)
  PROVE  /\ Sound(Deliver(s, e))
         /\ Deliver(s, e).generation = s.generation
         /\ Deliver(s, e).deliveredThrough > s.deliveredThrough
<1> DEFINE Ops   == Incarnations \X SequenceNumbers
           drops == Len(s.window) >= HighWater /\ overflow = "dropOldest"
           kept  == IF drops THEN [s EXCEPT !.window = <<>>] ELSE s
           first == MergeInto(kept, s.generation, e.sequence, e.stampedAt)
           m     == [first EXCEPT !.deliveredThrough = e.sequence,
                                  !.lifecycle = "live", !.consecutiveErrors = 0]
           t     == Flush(m)
           g     == s.generation
           d     == s.deliveredThrough
           w     == IF drops THEN <<>> ELSE s.window
           n     == t.deliveredThrough - m.deliveredThrough
<1> USE BoundsAssumption, PolicyAssumption
<1>1. /\ s \in ScopeType /\ d \in -1 .. MaxSeq /\ g \in Incarnations
      /\ s.window \in Seq(Ops) /\ s.stampedAt \in Times
      /\ e.sequence \in SequenceNumbers /\ e.sequence = d + 1 /\ e.stampedAt \in Times
      /\ DOMAIN s.pending \in SUBSET SequenceNumbers
  BY ScopeFields DEF Sound, Envelopes, NextExpected
<1>2. w \in Seq(Ops) /\ kept = [s EXCEPT !.window = w] /\ kept \in ScopeType
  <2>1. <<>> \in Seq(Ops)
    BY EmptySeq
  <2>2. CASE drops
    <3>1. w = <<>> /\ kept = [s EXCEPT !.window = <<>>]
      BY <2>2
    <3> HIDE DEF kept, w
    <3> QED  BY <1>1, <2>1, <3>1 DEF ScopeType
  <2>3. CASE ~drops
    <3>1. w = s.window /\ kept = s
      BY <2>3
    <3> HIDE DEF kept, w
    <3> QED  BY <1>1, <3>1 DEF ScopeType
  <2> QED  BY <2>2, <2>3
<1> HIDE DEF kept, w
<1>3. /\ m = [kept EXCEPT !.window = m.window, !.stampedAt = m.stampedAt,
                         !.deliveredThrough = d + 1, !.lifecycle = "live",
                         !.consecutiveErrors = 0]
      /\ m.window = Append(w, <<g, d + 1>>)
      /\ m.stampedAt \in Times
  BY <1>1, <1>2 DEF MergeInto, ScopeType
<1>4. t = Deliver(s, e)
  BY DEF Deliver, kept
<1> HIDE DEF m, t
<1>5. m.window \in Seq(Ops)
  <2>1. <<g, d + 1>> \in Ops
    BY <1>1
  <2> QED  BY <1>2, <1>3, <2>1, AppendProperties
<1>6. /\ m \in ScopeType /\ m.lifecycle = "live" /\ m.generation = g
      /\ m.deliveredThrough = d + 1 /\ m.pending = s.pending
  <2>1. d + 1 \in SequenceNumbers
    BY <1>1
  <2>2. kept.generation = g /\ kept.pending = s.pending
    BY <1>1, <1>2 DEF ScopeType
  <2>3. d + 1 \in SequenceNumbers \cup {NoSequence} /\ 0 \in 0 .. MaxErrors
    BY <2>1
  <2> HIDE DEF d, g, Ops
  <2> QED  BY <1>2, <1>3, <1>5, <2>2, <2>3, ZenonT(60) DEF ScopeType, Ops
<1>7. \A q \in DOMAIN m.pending : q > m.deliveredThrough
  BY <1>1, <1>6 DEF Sound, IsAhead, NextExpected
<1>8. /\ t \in ScopeType
      /\ t.lifecycle = "live" /\ t.generation = g
      /\ n \in 0 .. Cardinality(DOMAIN s.pending)
      /\ t.window = m.window \o [i \in 1 .. n |-> <<m.generation, m.deliveredThrough + i>>]
      /\ DOMAIN t.pending \subseteq DOMAIN s.pending
      /\ \A q \in DOMAIN t.pending : q > NextExpected(t)
  <2>1. m.deliveredThrough \in Int /\ Flush(m) = t
    BY <1>1, <1>6 DEF t
  <2> QED  BY <1>6, <1>7, <2>1, FlushShape
<1>9. Cardinality(DOMAIN s.pending) \in Nat /\ Cardinality(DOMAIN s.pending) <= ReorderWindow
  BY <1>1, BufferFinite DEF Sound, IsAhead
<1>10. /\ t.deliveredThrough \in -1 .. MaxSeq /\ n \in Nat /\ n <= ReorderWindow
       /\ t.deliveredThrough = d + 1 + n
  BY <1>1, <1>6, <1>8, <1>9, ScopeFields, SMTT(30)
<1> HIDE DEF n
<1>11. IsAhead(t)
  <2>1. /\ Cardinality(DOMAIN t.pending) <= Cardinality(DOMAIN s.pending)
        /\ Cardinality(DOMAIN t.pending) \in Nat
    BY <1>1, <1>8, BufferFinite, FS_Subset
  <2> QED  BY <1>8, <1>9, <2>1 DEF IsAhead
<1> DEFINE Behind(q, last) == \A i \in 1 .. Len(q) : q[i] = <<g, last - Len(q) + i>>
<1>12. /\ Len(t.window) = Len(w) + 1 + n
       /\ Behind(w, d) => Behind(t.window, d + 1 + n)
  <2>1. <<g, d + 1>> \in Ops /\ \A i \in 1 .. n : <<g, d + 1 + i>> \in Ops
    <3>1. \A i \in 1 .. n : d + 1 + i \in SequenceNumbers
      BY <1>1, <1>10, SMTT(30) DEF SequenceNumbers
    <3> HIDE DEF d, g
    <3> QED  BY <1>1, <3>1
  <2>2. t.window = Append(w, <<g, d + 1>>) \o [i \in 1 .. n |-> <<g, d + 1 + i>>]
    BY <1>3, <1>6, <1>8
  <2>3. d \in Int
    BY <1>1
  <2> DEFINE v == Append(w, <<g, d + 1>>) \o [i \in 1 .. n |-> <<g, d + 1 + i>>]
  <2>4. n \in Nat
    BY <1>10
  <2> HIDE DEF Ops, g, d
  <2>5. /\ Len(v) = Len(w) + 1 + n
        /\ Behind(w, d) => Behind(v, d + 1 + n)
    <3> HIDE DEF v
    <3>1. w \in Seq(Ops)
      BY <1>2
    <3> QED  BY <3>1, <2>1, <2>3, <2>4, RunGrows DEF v
  <2> HIDE DEF v, Behind
  <2>6. t.window = v
    BY <2>2 DEF v
  <2> QED  BY <2>5, <2>6
<1> HIDE DEF Behind
<1>13. IsBounded(t)
  <2> SUFFICES ASSUME overflow # "conflate"
               PROVE  Len(t.window) <= Ceiling
    BY DEF IsBounded
  <2>1. Len(s.window) \in Nat
    BY <1>1
  <2>2. CASE drops
    <3>1. Len(w) = 0
      BY <2>2 DEF w
    <3> QED  BY <1>10, <1>12, <3>1 DEF Ceiling
  <2>3. CASE ~drops
    <3>1. Len(w) = Len(s.window) /\ Len(s.window) < HighWater
      BY <1>1, <2>1, <2>3 DEF Overfull, NextExpected, w
    <3> QED  BY <1>10, <1>12, <2>1, <3>1 DEF Ceiling
  <2> QED  BY <2>2, <2>3
<1>14. ~OpenRaises => IsRun(t)
  <2> SUFFICES ASSUME ~OpenRaises
               PROVE  IsRun(t)
    OBVIOUS
  <2>1. Behind(w, d)
    <3>1. IsRun(s)
      BY DEF Sound
    <3> QED  BY <3>1 DEF IsRun, Behind, w
  <2>2. Behind(t.window, d + 1 + n)
    BY <1>12, <2>1
  <2>3. t.generation = g /\ t.deliveredThrough = d + 1 + n
    BY <1>8, <1>10
  <2> HIDE DEF d, g
  <2>4. Behind(t.window, t.deliveredThrough) /\ g = t.generation
    BY <2>2, <2>3
  <2> QED  BY <2>4, Zenon DEF IsRun, Behind
<1>15. t.deliveredThrough > d
  BY <1>1, <1>10
<1> QED
  BY <1>4, <1>8, <1>11, <1>13, <1>14, <1>15 DEF Sound, IsShut

-----------------------------------------------------------------------------
(* Steps. *)

(* What a bounded producer configuration needs for the readers to be told: *)
(* open() never raises the generation, and an early envelope of a newer    *)
(* generation always finds a slot, a next one room.                        *)
Informing == ~OpenRaises /\ ReorderWindow > 0 /\ HighWater > 0

WindowOf(s) == IF s = Unknown THEN <<>> ELSE s.window

(* The conjuncts of NoRewind and ReadersInformed. *)
Forward(s, t) ==
  s # Unknown /\ s.lifecycle # "closed" =>
    /\ t # Unknown
    /\ t.generation >= s.generation
    /\ t.generation = s.generation => t.deliveredThrough >= s.deliveredThrough

Told(s, t, now, kinds) ==
  /\ WindowOf(t) # WindowOf(s) => "value" \in kinds
  /\ ReadinessAt(t, now) # ReadinessAt(s, now) => "readiness" \in kinds

(* What every mutator of one key may do to its scope. *)
Allowed(s, t, kinds) ==
  /\ t = Unknown \/ Sound(t)
  /\ Forward(s, t)
  /\ Informing => Told(s, t, observedNow, kinds)
  /\ kinds \subseteq Kinds

(* What a step may do, of all keys. *)
StepForward == \A k \in Keys : Forward(scopes[k], scopes'[k])

StepInforms ==
  \A k \in Keys :
    /\ Value(k)' # Value(k) => "value" \in change.scopes[k]'
    /\ Readiness(k)' # Readiness(k) => "readiness" \in change.scopes[k]'

Good == IInv' /\ StepForward /\ (Informing => StepInforms)

(* A receipt keeps the log typed and bounded. *)
LEMMA ReceiptKept ==
  ASSUME IInv, NEW c \in Channels, PushReceipt(c)
  PROVE  receipts' \in Seq(Channels) /\ Len(receipts') <= ReceiptCapacity
<1> DEFINE log == Append(receipts, c)
<1> USE PolicyAssumption
<1>1. receipts \in Seq(Channels) /\ Len(receipts) \in Nat /\ Len(receipts) <= ReceiptCapacity
  BY DEF IInv, TypeOK
<1>2. log \in Seq(Channels) /\ Len(log) = Len(receipts) + 1
  BY <1>1, AppendProperties
<1>3. Tail(log) \in Seq(Channels) /\ Len(Tail(log)) = Len(receipts)
  <2>1. log # <<>>
    BY <1>1, <1>2
  <2> HIDE DEF log
  <2> QED  BY <1>1, <1>2, <2>1, HeadTailProperties
<1> HIDE DEF log
<1>4. receipts' = IF Len(log) > ReceiptCapacity THEN Tail(log) ELSE log
  BY DEF PushReceipt, log
<1> QED  BY <1>1, <1>2, <1>3, <1>4

(* A mutator of one key that leaves a sound scope and reports what it      *)
(* changed is a good step.                                                 *)
LEMMA KeyStep ==
  ASSUME IInv, overflow' = overflow, observedNow' = observedNow,
         NEW k \in Keys, NEW t, NEW kinds, NEW channels \in SUBSET Channels,
         Allowed(scopes[k], t, kinds), Become(k, t), Report(k, kinds, channels),
         UNCHANGED receipts \/ \E c \in Channels : PushReceipt(c)
  PROVE  Good
<1>1. /\ DOMAIN scopes = Keys /\ \A x \in Keys : scopes[x] # Unknown => Sound(scopes[x])
      /\ overflow \in Overflows
  BY DEF IInv, Known
<1>2. /\ DOMAIN scopes' = Keys
      /\ \A x \in Keys : scopes'[x] = IF x = k THEN t ELSE scopes[x]
  BY <1>1 DEF Become
<1>3. /\ change' = [scopes |-> change'.scopes, receipts |-> channels]
      /\ change'.scopes = [x \in Keys |-> IF x = k THEN kinds ELSE {}]
  BY DEF Report
<1>4. kinds \subseteq Kinds /\ Forward(scopes[k], t)
      /\ (Informing => Told(scopes[k], t, observedNow, kinds))
      /\ (t # Unknown => Sound(t))
  BY DEF Allowed
<1>5. \A x \in Keys : scopes'[x] # Unknown => Sound(scopes'[x])
  BY <1>1, <1>2, <1>4
<1>6. \A x \in Keys : Known(x)' => Sound(scopes[x])'
  BY <1>5 DEF Known, Sound, IsAhead, IsBounded, IsShut, IsRun, NextExpected
<1>7. receipts' \in Seq(Channels) /\ Len(receipts') <= ReceiptCapacity
  BY ReceiptKept DEF IInv, TypeOK
<1>8. /\ change.scopes' \in [Keys -> SUBSET Kinds]
      /\ change.receipts' \in SUBSET Channels
  BY <1>3, <1>4
<1>9. TypeOK'
  BY <1>6, <1>7, <1>8 DEF IInv, TypeOK, Sound
<1>10. IInv'
  BY <1>1, <1>2, <1>6, <1>9 DEF IInv
<1>11. StepForward
  <2>1. \A s : s # Unknown /\ Sound(s) => Forward(s, s)
    BY ScopeFields, BoundsAssumption DEF Forward, Sound, Incarnations
  <2> QED  BY <1>1, <1>2, <1>4, <2>1 DEF StepForward, Forward
<1>12. ASSUME Informing
       PROVE  StepInforms
  <2>1. \A x \in Keys : Value(x) = WindowOf(scopes[x]) /\ Value(x)' = WindowOf(scopes'[x])
    BY DEF Value, WindowOf, Known
  <2>2. \A x \in Keys : /\ Readiness(x) = ReadinessAt(scopes[x], observedNow)
                        /\ Readiness(x)' = ReadinessAt(scopes'[x], observedNow)
    BY DEF Readiness, ReadinessAt
  <2>3. \A x \in Keys : change.scopes[x]' = IF x = k THEN kinds ELSE {}
    BY <1>3
  <2> QED  BY <1>2, <1>4, <1>12, <2>1, <2>2, <2>3 DEF StepInforms, Told
<1> QED  BY <1>10, <1>11, <1>12 DEF Good

(* A scope of the invariant, with what the steps ask about it. *)
LEMMA AtKey ==
  ASSUME IInv, NEW k \in Keys, scopes[k] # Unknown
  PROVE  /\ Sound(scopes[k]) /\ scopes[k] \in ScopeType
         /\ overflow \in Overflows
         /\ scopes[k].generation \in Int /\ scopes[k].deliveredThrough \in Int
         /\ scopes[k].lifecycle # "unknown"
<1>1. Sound(scopes[k]) /\ scopes[k] \in ScopeType /\ overflow \in Overflows
  BY DEF IInv, Known, Sound
<1> QED  BY <1>1, ScopeFields, BoundsAssumption DEF Incarnations

(* A new scope is the right thing for an unknown key. *)
LEMMA CreationAllowed ==
  ASSUME NEW k \in Keys, NEW g \in Incarnations, scopes[k] = Unknown
  PROVE  /\ Creation(k) = {"readiness", "authority"}
         /\ Allowed(scopes[k], NewScope(g), Creation(k))
<1>1. Creation(k) = {"readiness", "authority"}
  BY DEF Creation, Known
<1>2. Sound(NewScope(g)) /\ NewScope(g) # Unknown
  BY NewScopeSound
<1>3. Told(scopes[k], NewScope(g), observedNow, Creation(k))
  BY <1>1, <1>2 DEF Told, WindowOf, NewScope
<1> QED  BY <1>1, <1>2, <1>3 DEF Allowed, Forward, Kinds

(* open(). *)
LEMMA OpenStep ==
  ASSUME IInv, overflow' = overflow, NEW k \in Keys, NEW g \in Incarnations, Open(k, g)
  PROVE  Good
<1> USE BoundsAssumption, PolicyAssumption
<1>1. CASE scopes[k] = Unknown
  <2>1. Become(k, NewScope(g)) /\ Report(k, Creation(k), {})
    BY <1>1 DEF Open, Known
  <2>2. Allowed(scopes[k], NewScope(g), Creation(k))
    BY <1>1, CreationAllowed
  <2>3. UNCHANGED <<observedNow, receipts>>
    BY DEF Open
  <2> HIDE DEF Creation
  <2> QED  BY <2>1, <2>2, <2>3, KeyStep
<1>2. CASE scopes[k] # Unknown
  <2> DEFINE s == scopes[k]
             t == Reopened(s, g)
             kinds == IF Position(s) = Position(t) THEN {}
                      ELSE DirtyReaders(FALSE, s.lifecycle # t.lifecycle, TRUE, FALSE)
  <2>1. /\ Become(k, t) /\ Report(k, kinds, {})
        /\ s.lifecycle # "closed" /\ ~OpenRaises => g <= s.generation
        /\ UNCHANGED <<observedNow, receipts>>
    BY <1>2 DEF Open, Known
  <2>2. Sound(s) /\ s \in ScopeType /\ s.generation \in Int /\ s.deliveredThrough \in Int
    BY <1>2, AtKey
  <2>3. kinds \subseteq Kinds
    BY DEF DirtyReaders
  <2>4. CASE s.lifecycle = "closed"
    <3>1. t = NewScope(g) /\ s.window = <<>>
      BY <2>2, <2>4 DEF Reopened, Sound, IsShut
    <3>2. Sound(t) /\ t # Unknown /\ t.lifecycle = "opening" /\ t.window = <<>>
      BY <3>1, NewScopeSound DEF NewScope
    <3>3. "readiness" \in kinds
      BY <2>4, <3>2 DEF Position, DirtyReaders, Kinds
    <3>4. Allowed(s, t, kinds)
      BY <1>2, <2>3, <2>4, <3>1, <3>2, <3>3 DEF Allowed, Forward, Told, WindowOf
    <3> HIDE DEF kinds, t
    <3> QED  BY <2>1, <3>4, KeyStep
  <2>5. CASE s.lifecycle # "closed" /\ g > s.generation
    <3>1. t = [s EXCEPT !.lifecycle = LiveOrOpening(s), !.generation = g,
                        !.deliveredThrough = NoSequence, !.pending = NoPending]
      BY <2>2, <2>5 DEF Reopened, ScopeType
    <3>2. t \in ScopeType
      <4>1. LiveOrOpening(s) \in {"opening", "live"}
        BY DEF LiveOrOpening
      <4> HIDE DEF s, t
      <4> QED  BY <2>2, <3>1, <4>1, NothingPending DEF ScopeType
    <3>3. /\ t.generation = g /\ t.lifecycle # "closed" /\ t.pending = NoPending
          /\ t.window = s.window
      BY <2>2, <3>1 DEF ScopeType, LiveOrOpening
    <3>4. Sound(t) /\ OpenRaises
      <4>1. OpenRaises
        BY <2>1, <2>2, <2>5 DEF Incarnations
      <4>2. IsAhead(t)
        BY <3>3, NothingPending DEF IsAhead
      <4> QED  BY <2>2, <3>2, <3>3, <4>1, <4>2 DEF Sound, IsBounded, IsShut
    <3> HIDE DEF kinds, t
    <3>5. t # Unknown /\ g \in Int
      BY <3>2, ScopeFields DEF Incarnations
    <3>6. Allowed(s, t, kinds)
      BY <2>2, <2>3, <2>5, <3>3, <3>4, <3>5 DEF Allowed, Forward, Informing
    <3> QED  BY <2>1, <3>6, KeyStep
  <2>6. CASE s.lifecycle # "closed" /\ ~(g > s.generation)
    <3>1. t = [s EXCEPT !.lifecycle = LiveOrOpening(s)]
      BY <2>2, <2>6 DEF Reopened, ScopeType
    <3>2. LiveOrOpening(s) \in {"opening", "live"}
      BY DEF LiveOrOpening
    <3>3. t \in ScopeType
      <4> HIDE DEF s, t
      <4> QED  BY <2>2, <3>1, <3>2 DEF ScopeType
    <3>4. /\ t.generation = s.generation /\ t.lifecycle \in {"opening", "live"}
          /\ t.pending = s.pending /\ t.window = s.window /\ t.stampedAt = s.stampedAt
          /\ t.deliveredThrough = s.deliveredThrough
      BY <2>2, <3>1, <3>2 DEF ScopeType
    <3>5. Sound(t)
      BY <2>2, <3>3, <3>4 DEF Sound, IsAhead, IsBounded, IsShut, IsRun, NextExpected
    <3>6. Told(s, t, observedNow, kinds)
      <4>1. s # Unknown /\ t # Unknown
        BY <1>2, <3>3, ScopeFields
      <4>2. CASE s.lifecycle = t.lifecycle
        BY <3>4, <4>1, <4>2 DEF Told, WindowOf, ReadinessAt
      <4>3. CASE s.lifecycle # t.lifecycle
        <5>1. "readiness" \in kinds
          BY <4>3 DEF Position, DirtyReaders, Kinds
        <5> QED  BY <3>4, <4>1, <5>1 DEF Told, WindowOf
      <4> QED  BY <4>2, <4>3
    <3> HIDE DEF kinds, t
    <3>7. t # Unknown
      BY <3>3, ScopeFields
    <3>8. Allowed(s, t, kinds)
      BY <2>2, <2>3, <3>4, <3>5, <3>6, <3>7 DEF Allowed, Forward
    <3> QED  BY <2>1, <3>8, KeyStep
  <2> QED  BY <2>4, <2>5, <2>6
<1> QED  BY <1>1, <1>2

(* Readiness depends on lifecycle, watermark and stamp alone. *)
LEMMA SameReadiness ==
  ASSUME NEW s, NEW t, NEW now, s # Unknown, t # Unknown,
         t.lifecycle = s.lifecycle, t.deliveredThrough = s.deliveredThrough,
         t.stampedAt = s.stampedAt
  PROVE  ReadinessAt(t, now) = ReadinessAt(s, now)
  BY DEF ReadinessAt

(* suspend(). *)
LEMMA SuspendStep ==
  ASSUME IInv, overflow' = overflow, NEW k \in Keys, Suspend(k)
  PROVE  Good
<1> DEFINE s == scopes[k]
           t == [s EXCEPT !.lifecycle = "suspended"]
<1>1. s # Unknown /\ Become(k, t) /\ Report(k, {"readiness"}, {})
      /\ s.lifecycle # "closed" /\ UNCHANGED <<observedNow, receipts>>
  BY DEF Suspend, Known
<1>2. Sound(s) /\ s \in ScopeType /\ s.generation \in Int /\ s.deliveredThrough \in Int
  BY <1>1, AtKey
<1>3. t \in ScopeType
  BY <1>2 DEF ScopeType
<1>4. /\ t.lifecycle = "suspended" /\ t.generation = s.generation
      /\ t.deliveredThrough = s.deliveredThrough
      /\ t.pending = s.pending /\ t.window = s.window
  BY <1>2 DEF ScopeType
<1> HIDE DEF t
<1>5. Sound(t) /\ t # Unknown
  BY <1>2, <1>3, <1>4, ScopeFields DEF Sound, IsAhead, IsBounded, IsShut, IsRun, NextExpected
<1>6. Allowed(s, t, {"readiness"})
  BY <1>1, <1>2, <1>4, <1>5 DEF Allowed, Forward, Told, WindowOf, Kinds
<1> QED  BY <1>1, <1>6, KeyStep

(* close(). *)
LEMMA CloseStep ==
  ASSUME IInv, overflow' = overflow, NEW k \in Keys, Close(k)
  PROVE  Good
<1> USE PolicyAssumption, BoundsAssumption
<1> DEFINE s == scopes[k]
           t == Closed(s)
           kinds == DirtyReaders(s.window # <<>>, TRUE, TRUE, s.consecutiveErrors > 0)
<1>1. s # Unknown /\ Become(k, t) /\ Report(k, kinds, {})
      /\ s.lifecycle # "closed" /\ UNCHANGED <<observedNow, receipts>>
  BY DEF Close, Known
<1>2. Sound(s) /\ s \in ScopeType /\ s.generation \in Int /\ s.deliveredThrough \in Int
  BY <1>1, AtKey
<1>3. t \in ScopeType
  <2>1. <<>> \in Seq(Incarnations \X SequenceNumbers)
    BY EmptySeq
  <2>2. t = [s EXCEPT !.lifecycle = "closed", !.pending = NoPending, !.window = <<>>,
                      !.consecutiveErrors = 0]
    BY DEF Closed
  <2>3. 0 \in 0 .. MaxErrors /\ NoPending \in Buffers
    BY NothingPending
  <2> HIDE DEF s, t
  <2> QED  BY <1>2, <2>1, <2>2, <2>3 DEF ScopeType
<1>4. /\ t.lifecycle = "closed" /\ t.generation = s.generation
      /\ t.deliveredThrough = s.deliveredThrough
      /\ t.pending = NoPending /\ t.window = <<>>
  BY <1>2 DEF ScopeType, Closed
<1>5. /\ kinds \subseteq Kinds /\ "readiness" \in kinds
      /\ s.window # <<>> => "value" \in kinds
  BY DEF DirtyReaders, Kinds
<1> HIDE DEF t, kinds
<1>6. Sound(t) /\ t # Unknown
  <2>1. IsAhead(t)
    BY <1>4, NothingPending DEF IsAhead
  <2>2. IsBounded(t) /\ IsShut(t) /\ IsRun(t)
    BY <1>4 DEF IsBounded, IsShut, IsRun, Ceiling
  <2> QED  BY <1>3, <2>1, <2>2, ScopeFields DEF Sound
<1>7. Allowed(s, t, kinds)
  BY <1>1, <1>2, <1>4, <1>5, <1>6 DEF Allowed, Forward, Told, WindowOf
<1> QED  BY <1>1, <1>7, KeyStep

(* drainWindow(). *)
LEMMA DrainStep ==
  ASSUME IInv, overflow' = overflow, NEW k \in Keys, DrainWindow(k)
  PROVE  Good
<1> USE PolicyAssumption, BoundsAssumption
<1> DEFINE s == scopes[k]
           t == [s EXCEPT !.window = <<>>]
<1>1. s # Unknown /\ Become(k, t) /\ Report(k, {"value"}, {})
      /\ UNCHANGED <<observedNow, receipts>>
  BY DEF DrainWindow, Known
<1>2. Sound(s) /\ s \in ScopeType /\ s.generation \in Int /\ s.deliveredThrough \in Int
  BY <1>1, AtKey
<1>3. t \in ScopeType
  <2>1. <<>> \in Seq(Incarnations \X SequenceNumbers)
    BY EmptySeq
  <2> QED  BY <1>2, <2>1 DEF ScopeType
<1>4. /\ t.lifecycle = s.lifecycle /\ t.generation = s.generation
      /\ t.deliveredThrough = s.deliveredThrough /\ t.stampedAt = s.stampedAt
      /\ t.pending = s.pending /\ t.window = <<>>
  BY <1>2 DEF ScopeType
<1> HIDE DEF t
<1>5. Sound(t) /\ t # Unknown
  <2>1. IsAhead(t)
    BY <1>2, <1>4 DEF Sound, IsAhead, NextExpected
  <2>2. IsBounded(t) /\ IsShut(t) /\ IsRun(t)
    BY <1>4 DEF IsBounded, IsShut, IsRun, Ceiling
  <2> QED  BY <1>3, <2>1, <2>2, ScopeFields DEF Sound
<1>6. Allowed(s, t, {"value"})
  <2>1. ReadinessAt(t, observedNow) = ReadinessAt(s, observedNow)
    BY <1>1, <1>4, <1>5, SameReadiness
  <2> QED  BY <1>1, <1>2, <1>4, <1>5, <2>1 DEF Allowed, Forward, Told, Kinds
<1> QED  BY <1>1, <1>6, KeyStep

(* fail(). *)
LEMMA FailStep ==
  ASSUME IInv, overflow' = overflow, NEW k \in Keys, Fail(k)
  PROVE  Good
<1> USE PolicyAssumption, BoundsAssumption
<1> DEFINE s == IF Known(k) THEN scopes[k] ELSE NewScope(0)
           t == [s EXCEPT !.consecutiveErrors = @ + 1]
           kinds == Creation(k) \cup {"retry"}
<1>1. /\ s.consecutiveErrors < MaxErrors
      /\ Become(k, t) /\ Report(k, kinds, {"error"})
      /\ PushReceipt("error") /\ UNCHANGED observedNow
  BY DEF Fail
<1>2. /\ Sound(s) /\ s # Unknown
      /\ scopes[k] # Unknown => s = scopes[k]
      /\ scopes[k] = Unknown => s = NewScope(0)
  BY AtKey, NewScopeSound DEF Known, Incarnations
<1> HIDE DEF s
<1>3. /\ s \in ScopeType /\ s.generation \in Int /\ s.deliveredThrough \in Int
  BY <1>2, ScopeFields DEF Sound, Incarnations
<1>4. t \in ScopeType
  <2>1. s.consecutiveErrors + 1 \in 0 .. MaxErrors
    BY <1>1, <1>3, ScopeFields, SMTT(30)
  <2> QED  BY <1>3, <2>1 DEF ScopeType
<1>5. /\ t.lifecycle = s.lifecycle /\ t.generation = s.generation
      /\ t.deliveredThrough = s.deliveredThrough /\ t.stampedAt = s.stampedAt
      /\ t.pending = s.pending /\ t.window = s.window
  BY <1>3 DEF ScopeType
<1> HIDE DEF t
<1>6. Sound(t) /\ t # Unknown
  BY <1>2, <1>4, <1>5, ScopeFields
  DEF Sound, IsAhead, IsBounded, IsShut, IsRun, NextExpected
<1>7. kinds \subseteq Kinds
  BY DEF Creation, Kinds
<1>8. Allowed(scopes[k], t, kinds)
  <2>1. CASE scopes[k] = Unknown
    <3>1. "readiness" \in kinds /\ t.window = <<>>
      BY <1>2, <1>5, <2>1, CreationAllowed DEF Creation, Known, NewScope
    <3> HIDE DEF kinds
    <3> QED  BY <1>6, <1>7, <2>1, <3>1 DEF Allowed, Forward, Told, WindowOf
  <2>2. CASE scopes[k] # Unknown
    <3>1. ReadinessAt(t, observedNow) = ReadinessAt(s, observedNow)
      BY <1>2, <1>5, <1>6, SameReadiness
    <3> HIDE DEF kinds
    <3> QED  BY <1>2, <1>3, <1>5, <1>6, <1>7, <2>2, <3>1
             DEF Allowed, Forward, Told, WindowOf
  <2> QED  BY <2>1, <2>2
<1>9. {"error"} \in SUBSET Channels /\ \E c \in Channels : PushReceipt(c)
  BY <1>1 DEF Channels
<1> HIDE DEF kinds
<1> QED  BY <1>1, <1>8, <1>9, KeyStep

(* tick(). *)
LEMMA TickStep ==
  ASSUME IInv, overflow' = overflow, NEW now \in Times, Tick(now)
  PROVE  Good
<1>1. /\ observedNow' = now /\ UNCHANGED <<scopes, receipts>>
      /\ change'.scopes = [k \in Keys |-> IF Crossed(k, now) THEN {"readiness"} ELSE {}]
      /\ change'.receipts = {}
  BY DEF Tick
<1>2. IInv'
  <2>1. \A k \in Keys : Known(k)' => Sound(scopes[k])'
    BY <1>1 DEF IInv, Known, Sound, IsAhead, IsBounded, IsShut, IsRun, NextExpected
  <2>2. TypeOK'
    BY <1>1, <2>1 DEF IInv, TypeOK, Kinds, Sound
  <2> QED  BY <1>1, <2>1, <2>2 DEF IInv
<1>3. StepForward
  <2>1. \A k \in Keys : scopes[k] # Unknown =>
          scopes[k].generation \in Int /\ scopes[k].deliveredThrough \in Int
    BY AtKey
  <2> QED  BY <1>1, <2>1 DEF StepForward, Forward
<1>4. StepInforms
  <2>1. \A k \in Keys : Value(k)' = Value(k)
    BY <1>1 DEF Value, Known
  <2>2. \A k \in Keys : Readiness(k)' = ReadinessAt(scopes[k], now)
    BY <1>1 DEF Readiness, ReadinessAt
  <2> QED  BY <1>1, <2>1, <2>2 DEF StepInforms, Crossed
<1> QED  BY <1>2, <1>3, <1>4 DEF Good

(* reconnect(). *)
LEMMA ReconnectStep ==
  ASSUME IInv, overflow' = overflow, NEW k \in Keys, NEW g \in Incarnations,
         Reconnect(k, g)
  PROVE  Good
<1> USE PolicyAssumption, BoundsAssumption
<1> DEFINE s == IF Known(k) THEN scopes[k] ELSE NewScope(g)
           u == Fenced(s, g)
           t == Reconnected(s, g)
           kinds == ReconnectDirty(k, s, t, g > s.generation)
<1>1. Become(k, t) /\ Report(k, kinds, {}) /\ UNCHANGED <<observedNow, receipts>>
  BY DEF Reconnect
<1>2. /\ Sound(s) /\ s # Unknown
      /\ scopes[k] # Unknown => s = scopes[k]
      /\ scopes[k] = Unknown => s = NewScope(g)
  BY AtKey, NewScopeSound DEF Known
<1> HIDE DEF s
<1>3. /\ s \in ScopeType /\ s.generation \in Int /\ s.deliveredThrough \in Int /\ g \in Int
  BY <1>2, ScopeFields DEF Sound, Incarnations
<1>4. /\ Sound(u) /\ u \in ScopeType /\ u.generation >= s.generation
      /\ u.generation = s.generation => u = s
      /\ g <= u.generation /\ u.lifecycle = s.lifecycle /\ u.stampedAt = s.stampedAt
      /\ ~(g > s.generation) => u = s
      /\ g > s.generation => u.window = <<>>
  <2>1. g > s.generation => u.window = <<>>
    BY <1>3 DEF Fenced, ScopeType
  <2>2. ~(g > s.generation) => u = s
    BY DEF Fenced
  <2>3. Sound(u) => u \in ScopeType
    BY DEF Sound
  <2> HIDE DEF u
  <2> QED  BY <1>2, <2>1, <2>2, <2>3, FencedSound DEF u
<1>5. t = [u EXCEPT !.lifecycle = LiveOrOpening(u), !.consecutiveErrors = 0]
  BY DEF Reconnected
<1>6. LiveOrOpening(u) \in {"opening", "live"} /\ 0 \in 0 .. MaxErrors
  BY DEF LiveOrOpening
<1> HIDE DEF u, t
<1>7. t \in ScopeType
  BY <1>4, <1>5, <1>6 DEF ScopeType
<1>8. /\ t.lifecycle \in {"opening", "live"} /\ t.generation = u.generation
      /\ t.deliveredThrough = u.deliveredThrough /\ t.stampedAt = u.stampedAt
      /\ t.pending = u.pending /\ t.window = u.window
  BY <1>4, <1>5, <1>6 DEF ScopeType
<1>9. Sound(t) /\ t # Unknown
  BY <1>4, <1>7, <1>8, ScopeFields
  DEF Sound, IsAhead, IsBounded, IsShut, IsRun, NextExpected
<1>10. Forward(scopes[k], t)
  BY <1>2, <1>3, <1>4, <1>8, <1>9 DEF Forward
<1>11. /\ kinds \subseteq Kinds
       /\ scopes[k] = Unknown => "readiness" \in kinds
       /\ g > s.generation /\ s.window # <<>> => "value" \in kinds
       /\ s.lifecycle # t.lifecycle => "readiness" \in kinds
  BY DEF ReconnectDirty, Creation, DirtyReaders, Kinds, Known
<1> HIDE DEF kinds
<1>12. Told(scopes[k], t, observedNow, kinds)
  <2>1. CASE scopes[k] = Unknown
    <3>1. s.window = <<>> /\ s.generation = g /\ u = s
      BY <1>2, <1>3, <1>4, <2>1 DEF NewScope
    <3> QED  BY <1>8, <1>9, <1>11, <2>1, <3>1 DEF Told, WindowOf
  <2>2. CASE scopes[k] # Unknown
    <3>1. t.window # s.window => g > s.generation /\ s.window # <<>>
      BY <1>4, <1>8
    <3>2. ReadinessAt(t, observedNow) # ReadinessAt(s, observedNow) =>
            s.lifecycle # t.lifecycle
      <4> SUFFICES ASSUME s.lifecycle = t.lifecycle
                   PROVE  ReadinessAt(t, observedNow) = ReadinessAt(s, observedNow)
        OBVIOUS
      <4>1. CASE u = s
        BY <1>2, <1>8, <1>9, <4>1, SameReadiness
      <4>2. CASE g > s.generation
        <5>1. u.deliveredThrough = NoSequence
          BY <1>3, <4>2 DEF Fenced, ScopeType, u
        <5>2. t.lifecycle = "opening"
          BY <1>4, <1>5, <5>1 DEF LiveOrOpening, ScopeType
        <5> QED  BY <1>2, <1>9, <5>2 DEF ReadinessAt
      <4> QED  BY <1>4, <4>1, <4>2
    <3> QED  BY <1>2, <1>9, <1>11, <2>2, <3>1, <3>2 DEF Told, WindowOf
  <2> QED  BY <2>1, <2>2
<1>13. Allowed(scopes[k], t, kinds)
  BY <1>9, <1>10, <1>11, <1>12 DEF Allowed
<1> QED  BY <1>1, <1>13, KeyStep

(* admit(), refused: the scope is left alone, or a handoff has reset it.   *)
LEMMA RefusedStep ==
  ASSUME IInv, overflow' = overflow, NEW k \in Keys, NEW e \in Envelopes, NEW s, NEW t,
         s = Existing(k, e), Sound(s), s # Unknown, t \in {s, Fenced(s, e.generation)},
         Informing => t = s,
         Become(k, IF Known(k) THEN t ELSE Unknown), PushReceipt("dropped"),
         Report(k, {}, {"dropped"}), UNCHANGED observedNow
  PROVE  Good
<1> DEFINE r == IF Known(k) THEN t ELSE Unknown
<1>1. e.generation \in Incarnations
  BY DEF Envelopes
<1>2. /\ Sound(t) /\ t.generation >= s.generation
      /\ t.generation = s.generation => t = s
      /\ s.deliveredThrough \in Int /\ s.generation \in Int
  <2>1. s.deliveredThrough \in Int /\ s.generation \in Int
    BY ScopeFields, BoundsAssumption DEF Sound, Incarnations
  <2>2. CASE t = s
    BY <2>1, <2>2
  <2>3. CASE t = Fenced(s, e.generation)
    <3> DEFINE g == e.generation
    <3>1. g \in Incarnations
      BY <1>1
    <3> HIDE DEF g
    <3>2. /\ Sound(Fenced(s, g)) /\ Fenced(s, g).generation >= s.generation
          /\ Fenced(s, g).generation = s.generation => Fenced(s, g) = s
      BY <3>1, FencedSound
    <3> QED  BY <2>1, <2>3, <3>2 DEF g
  <2> QED  BY <2>2, <2>3
<1>3. Sound(t) => t # Unknown
  <2>1. Sound(t) => t \in ScopeType
    BY DEF Sound
  <2> QED  BY <2>1, ScopeFields
<1>4. Allowed(scopes[k], r, {})
  BY <1>2, <1>3 DEF Allowed, Forward, Told, Existing, Known
<1>5. {"dropped"} \in SUBSET Channels /\ \E c \in Channels : PushReceipt(c)
  BY DEF Channels
<1> HIDE DEF r
<1>6. Become(k, r)
  BY DEF r
<1> QED  BY <1>4, <1>5, <1>6, KeyStep

(* admit(), accepted into scope t, the scope after the fence being u.      *)
LEMMA AcceptedStep ==
  ASSUME IInv, overflow' = overflow, NEW k \in Keys, NEW s, NEW u, NEW t,
         NEW kinds \in SUBSET Kinds, NEW channels \in SUBSET Channels,
         Sound(s), Sound(u), Sound(t),
         Known(k) => s = scopes[k],
         u.generation >= s.generation, u.generation = s.generation => u = s,
         t.generation = u.generation, t.deliveredThrough >= u.deliveredThrough,
         Informing => Told(scopes[k], t, observedNow, kinds),
         Become(k, t), Report(k, kinds, channels), UNCHANGED observedNow,
         UNCHANGED receipts \/ \E c \in Channels : PushReceipt(c)
  PROVE  Good
<1>1. s \in ScopeType /\ t \in ScopeType /\ t # Unknown
  BY ScopeFields DEF Sound
<1>2. Forward(scopes[k], t)
  BY <1>1 DEF Forward, Known
<1>3. Allowed(scopes[k], t, kinds)
  BY <1>2 DEF Allowed
<1> QED  BY <1>3, KeyStep

(* admit(). *)
LEMMA AdmitStep ==
  ASSUME IInv, overflow' = overflow, NEW k \in Keys, NEW e \in Envelopes, Admit(k, e)
  PROVE  Good
<1> USE PolicyAssumption, BoundsAssumption
<1> DEFINE s == Existing(k, e)
           g == e.generation
           u == Fenced(s, g)
           d == Decide(s, e)
<1>1. g \in Incarnations /\ e.sequence \in SequenceNumbers
  BY DEF Envelopes
<1>2. /\ Sound(s) /\ s # Unknown /\ overflow \in Overflows
      /\ Known(k) => s = scopes[k]
      /\ ~Known(k) => s = NewScope(g)
  BY <1>1, AtKey, NewScopeSound DEF Existing, Known, IInv
<1> HIDE DEF s
<1>3. /\ s \in ScopeType /\ s.generation \in Int /\ s.deliveredThrough \in Int /\ g \in Int
  BY <1>1, <1>2, ScopeFields DEF Sound, Incarnations
<1>4. /\ Sound(u) /\ u.generation >= s.generation
      /\ u.generation = s.generation => u = s
      /\ u.lifecycle = s.lifecycle /\ u.stampedAt = s.stampedAt
  <2> HIDE DEF g, u
  <2> QED  BY <1>1, <1>2, FencedSound DEF u
<1>5. /\ ~(g > s.generation) => u = s
      /\ g > s.generation => /\ u.window = <<>> /\ u.deliveredThrough = NoSequence
                             /\ u.pending = NoPending
  BY <1>3 DEF Fenced, ScopeType
<1> HIDE DEF u
<1>6. u \in ScopeType /\ u.deliveredThrough \in Int
  BY <1>4, ScopeFields DEF Sound
<1>7. UNCHANGED observedNow
  BY DEF Admit
<1>8. CASE d.kind = "refused"
  <2>1. /\ Become(k, IF Known(k) THEN d.scope ELSE Unknown) /\ PushReceipt("dropped")
        /\ Report(k, {}, {"dropped"})
    BY <1>8 DEF Admit, s
  <2>2. /\ d.scope \in {s, u}
        /\ d.scope # s => OutOfPlace(u, e) \/ Overfull(u, e)
    BY <1>8 DEF Decide, u
  <2>3. ASSUME Informing
        PROVE  d.scope = s
    <3> SUFFICES ASSUME d.scope # s
                 PROVE  FALSE
      OBVIOUS
    <3>1. /\ u.window = <<>> /\ u.deliveredThrough = NoSequence /\ u.pending = NoPending
          /\ OutOfPlace(u, e) \/ Overfull(u, e)
      BY <1>3, <1>5, <2>2
    <3>2. ~OutOfPlace(u, e)
      BY <1>1, <2>3, <3>1, NothingPending
      DEF OutOfPlace, NoSlot, NextExpected, NoSequence, Informing, SequenceNumbers
    <3>3. ~Overfull(u, e)
      BY <2>3, <3>1 DEF Overfull, Informing
    <3> QED  BY <3>1, <3>2, <3>3
  <2> HIDE DEF d
  <2> QED  BY <1>2, <1>7, <2>1, <2>2, <2>3, RefusedStep DEF u, s
<1>9. CASE d.kind = "buffered"
  <2> DEFINE t == Park(u, e)
             kinds == BufferedDirty(k, s, t)
  <2>1. d.scope = t /\ e.sequence > NextExpected(u) /\ ~NoSlot(u, e)
    BY <1>9 DEF Decide, u, OutOfPlace
  <2>2. Become(k, t) /\ Report(k, kinds, {}) /\ UNCHANGED receipts
    BY <1>9, <2>1 DEF Admit, s
  <2>3. Sound(t) /\ t = [u EXCEPT !.pending = t.pending]
    BY <1>4, <2>1, ParkSound
  <2> HIDE DEF t
  <2>4. /\ t.generation = u.generation /\ t.deliveredThrough = u.deliveredThrough
        /\ t.window = u.window /\ t.lifecycle = u.lifecycle /\ t.stampedAt = u.stampedAt
        /\ t # Unknown
    BY <1>6, <2>3, ScopeFields DEF ScopeType, Sound
  <2>5. /\ kinds \subseteq Kinds
        /\ ~Known(k) => "readiness" \in kinds
        /\ Known(k) /\ ((s.window = <<>>) # (t.window = <<>>)) => "value" \in kinds
        /\ Known(k) /\ ((s.deliveredThrough = NoSequence) # (t.deliveredThrough = NoSequence))
             => "readiness" \in kinds
    BY DEF BufferedDirty, Creation, DirtyReaders, Kinds
  <2> HIDE DEF kinds
  <2>6. Told(scopes[k], t, observedNow, kinds)
    <3>1. CASE ~Known(k)
      <4>1. u = s /\ s.window = <<>>
        BY <1>2, <1>3, <1>5, <3>1 DEF NewScope
      <4> QED  BY <2>4, <2>5, <3>1, <4>1 DEF Told, WindowOf, Known
    <3>2. CASE Known(k) /\ u = s
      <4>1. ReadinessAt(t, observedNow) = ReadinessAt(s, observedNow)
        BY <1>2, <2>4, <3>2, SameReadiness
      <4> QED  BY <1>2, <2>4, <3>2, <4>1 DEF Told, WindowOf
    <3>3. CASE Known(k) /\ u # s
      <4>1. t.window = <<>> /\ t.deliveredThrough = NoSequence
        BY <1>3, <1>5, <2>4, <3>3
      <4>2. t.window # s.window => "value" \in kinds
        BY <2>5, <3>3, <4>1
      <4>3. CASE s.deliveredThrough = NoSequence
        <5>1. ReadinessAt(t, observedNow) = ReadinessAt(s, observedNow)
          BY <1>2, <1>4, <2>4, <4>1, <4>3, SameReadiness
        <5> QED  BY <1>2, <2>4, <3>3, <4>2, <5>1 DEF Told, WindowOf
      <4>4. CASE s.deliveredThrough # NoSequence
        <5>1. "readiness" \in kinds
          BY <2>5, <3>3, <4>1, <4>4
        <5> QED  BY <1>2, <2>4, <3>3, <4>2, <5>1 DEF Told, WindowOf
      <4> QED  BY <4>3, <4>4
    <3> QED  BY <3>1, <3>2, <3>3
  <2>7. kinds \in SUBSET Kinds /\ {} \in SUBSET Channels
        /\ t.deliveredThrough >= u.deliveredThrough
    BY <1>6, <2>4, <2>5
  <2> QED  BY <1>2, <1>4, <1>7, <2>2, <2>3, <2>4, <2>6, <2>7, AcceptedStep
<1>10. CASE d.kind = "delivered"
  <2> DEFINE t == Deliver(u, e)
  <2>1. /\ d.scope = t /\ ~(e.sequence > NextExpected(u)) /\ ~OutOfPlace(u, e)
        /\ ~Overfull(u, e)
    BY <1>10 DEF Decide, u
  <2>2. /\ Become(k, t) /\ PushReceipt("accepted") /\ Report(k, Kinds, {"accepted"})
    BY <1>10, <2>1 DEF Admit, s
  <2>3. e.sequence = NextExpected(u)
    BY <1>1, <1>6, <2>1 DEF OutOfPlace, NextExpected, SequenceNumbers
  <2>4. Sound(t) /\ t.generation = u.generation /\ t.deliveredThrough > u.deliveredThrough
    BY <1>2, <1>4, <2>1, <2>3, DeliverSound
  <2> HIDE DEF t
  <2>5. t.deliveredThrough >= u.deliveredThrough
    BY <1>6, <2>4, ScopeFields DEF Sound
  <2>6. Told(scopes[k], t, observedNow, Kinds)
    BY DEF Told, Kinds
  <2>7. Kinds \in SUBSET Kinds /\ {"accepted"} \in SUBSET Channels
        /\ \E c \in Channels : PushReceipt(c)
    BY <2>2 DEF Channels
  <2> QED  BY <1>2, <1>4, <1>7, <2>2, <2>4, <2>5, <2>6, <2>7, AcceptedStep
<1> QED  BY <1>8, <1>9, <1>10 DEF Admit, s

-----------------------------------------------------------------------------
(* The theorems. *)

(* An unused core is sound. *)
LEMMA InitIInv == Init => IInv
<1> SUFFICES ASSUME Init
             PROVE  IInv
  OBVIOUS
<1> USE BoundsAssumption, PolicyAssumption
<1>1. \A k \in Keys : ~Known(k)
  BY DEF Init, Known
<1>2. receipts = <<>> /\ change = NoChange /\ observedNow = 0
  BY DEF Init
<1>3. TypeOK
  BY <1>1, <1>2 DEF TypeOK, NoChange, Times, Kinds, Channels
<1> QED  BY <1>1, <1>3 DEF Init, IInv

(* Every step of the core is a good one. *)
LEMMA NextStep ==
  ASSUME IInv, Next, overflow' = overflow
  PROVE  Good
  BY OpenStep, ReconnectStep, SuspendStep, CloseStep, FailStep, DrainStep, TickStep,
     AdmitStep DEF Next

(* A step that changes nothing is one too. *)
LEMMA StutterStep ==
  ASSUME IInv, UNCHANGED vars
  PROVE  Good
<1>1. /\ overflow' = overflow /\ scopes' = scopes /\ observedNow' = observedNow
      /\ receipts' = receipts /\ change' = change
  BY DEF vars
<1>2. IInv'
  BY <1>1 DEF IInv, TypeOK, Known, Sound, IsAhead, IsBounded, IsShut, IsRun, NextExpected
<1>3. StepForward
  <2>1. \A k \in Keys : scopes[k] # Unknown =>
          scopes[k].generation \in Int /\ scopes[k].deliveredThrough \in Int
    BY AtKey
  <2> QED  BY <1>1, <2>1 DEF StepForward, Forward
<1>4. StepInforms
  BY <1>1 DEF StepInforms, Value, Readiness, ReadinessAt, Known
<1> QED  BY <1>2, <1>3, <1>4 DEF Good

(* The scopes of the inductive invariant are what the runs check. *)
LEMMA WhatIsChecked ==
  ASSUME IInv
  PROVE  /\ TypeOK /\ BufferIsAhead /\ WindowBounded
         /\ ~OpenRaises => WindowIsRun
<1>1. \A k \in Keys : Known(k) => /\ IsAhead(scopes[k]) /\ IsBounded(scopes[k])
                                  /\ ~OpenRaises => IsRun(scopes[k])
  BY DEF IInv, Sound
<1>2. BufferIsAhead
  BY <1>1 DEF BufferIsAhead, IsAhead
<1>3. WindowBounded
  BY <1>1 DEF WindowBounded, IsBounded, Ceiling
<1>4. ~OpenRaises => WindowIsRun
  BY <1>1 DEF WindowIsRun, IsRun
<1> QED  BY <1>2, <1>3, <1>4 DEF IInv

(* The inductive invariant holds in every state: buffers stay ahead of      *)
(* their watermark and windows within their bound, whatever open() is given. *)
THEOREM Inductive == Spec => []IInv
<1>1. IInv /\ [Next /\ UNCHANGED overflow]_vars => IInv'
  BY NextStep, StutterStep DEF Good
<1> QED  BY InitIInv, <1>1, PTL DEF Spec

(* Whatever is admitted, buffered, flushed, refused, drained, suspended,    *)
(* closed, failed or handed over, and in whatever order: an undrained       *)
(* window is a gap-free run of one generation that ends at the watermark,   *)
(* the reorder buffer lies ahead of it, and both keep to their bounds.      *)
THEOREM AdmissionAlwaysSound ==
  ASSUME ~OpenRaises
  PROVE  Spec => []AdmissionSound
<1>1. IInv => AdmissionSound
  BY WhatIsChecked DEF AdmissionSound
<1> QED  BY Inductive, <1>1, PTL

(* No watermark and no fence of a live key is ever moved back. *)
THEOREM NeverRewinds == Spec => NoRewind
<1>1. IInv /\ [Next /\ UNCHANGED overflow]_vars =>
        [\A k \in Keys : Known(k) /\ scopes[k].lifecycle # "closed" =>
           LET s == scopes[k] t == scopes'[k] IN
           /\ t # Unknown
           /\ t.generation >= s.generation
           /\ t.generation = s.generation =>
                t.deliveredThrough >= s.deliveredThrough]_vars
  BY NextStep DEF Good, StepForward, Forward, Known
<1> QED  BY Inductive, <1>1, PTL DEF Spec, NoRewind

(* Every change of a value or a readiness is reported by the call that made *)
(* it, so a shell that clears what is reported serves nothing stale.        *)
THEOREM ReadersAlwaysInformed ==
  ASSUME ~OpenRaises, ReorderWindow > 0, HighWater > 0
  PROVE  Spec => ReadersInformed
<1>1. IInv /\ [Next /\ UNCHANGED overflow]_vars =>
        [\A k \in Keys :
           /\ Value(k)' # Value(k) => "value" \in change.scopes[k]'
           /\ Readiness(k)' # Readiness(k) => "readiness" \in change.scopes[k]']_vars
  BY NextStep DEF Good, StepInforms, Informing
<1> QED  BY Inductive, <1>1, PTL DEF Spec, ReadersInformed
=============================================================================
