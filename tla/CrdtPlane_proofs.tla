-------------------------- MODULE CrdtPlane_proofs --------------------------
(***************************************************************************)
(* That cells follow their ops, that edits follow what their author had    *)
(* seen and that frames leave nothing out, for any number of peers, keys,  *)
(* values, edits and frames.                                               *)
(*                                                                         *)
(* The argument is whose ops they are.  A stamp is made by the peer it     *)
(* names, on a clock that is past everything in that peer's log, so it     *)
(* names one op; and whatever a frame brings back of a peer's own edits is *)
(* still in the log of that peer.                                          *)
(***************************************************************************)
EXTENDS CrdtPlane, FiniteSetTheorems, SequenceTheorems, TLAPS

-----------------------------------------------------------------------------
(* The invariant of a replica. *)

Maps(D, R) == UNION {[S -> R] : S \in SUBSET D}

Ops == {o \in [node : NodeIds, key : Keys, state : Values, stamp : Stamps] :
          o.key \in DocKeys => o.node = DocNode}

ReplicaType ==
  [peer : Peers, clock : [wall : 0 .. MaxWall, logical : Nat],
   keyToNode : Maps(Keys, NodeIds), cells : Maps(NodeIds, Ops \cup {NoOp}),
   nextFamilyNode : Nat, ops : Seq(Ops), frontier : Maps(Peers, Stamps),
   silent : SUBSET Ops]

(* All that a replica's cells have taken. *)
Folded(d) == ToSet(d.ops) \cup d.silent
FoldedOf(d, k) == {o \in Folded(d) : o.key = k}

(* A private node for each known family key, node 1 for the document key. *)
Keying(nodes, cells, next) ==
  /\ DOMAIN cells = {nodes[k] : k \in DOMAIN nodes}
  /\ next = FamilyBase + Cardinality(DOMAIN nodes \cap FamilyKeys)
  /\ \A k \in DOMAIN nodes : /\ k \in DocKeys => nodes[k] = DocNode
                             /\ k \in FamilyKeys => nodes[k] \in FamilyBase .. next - 1
  /\ \A k, l \in DOMAIN nodes : nodes[k] = nodes[l] => k = l

IsKeyed(d) == Keying(d.keyToNode, d.cells, d.nextFamilyNode)

IsNewestOf(c, F) ==
  IF F = {} THEN c = NoOp ELSE c \in F /\ \A o \in F : ~Before(c.stamp, o.stamp)

HoldsNewest(d) ==
  /\ \A o \in Folded(d) : o.key \in DOMAIN d.keyToNode
  /\ \A k \in DOMAIN d.keyToNode : IsNewestOf(d.cells[d.keyToNode[k]], FoldedOf(d, k))

(* A stamp names one op. *)
IsApart(F) == \A o, p \in F : o.stamp = p.stamp => o = p

(* The clock is past all stamps. *)
Reached(clock, s) ==
  \/ s.wall < clock.wall
  \/ s.wall = clock.wall /\ s.logical <= clock.logical

HasReached(d) == \A o \in Folded(d) : Reached(d.clock, o.stamp)

EditsFollow(d) ==
  \A i, j \in DOMAIN d.ops :
    i < j /\ d.ops[j].stamp.peer = d.peer => Before(d.ops[i].stamp, d.ops[j].stamp)

IsCovered(d) == \A i \in DOMAIN d.ops : Covers(d.frontier, d.ops[i].stamp)

(* A frontier names ops of U, each of its own peer. *)
Names(frontier, U) ==
  \A p \in DOMAIN frontier : \E o \in U : o.stamp = frontier[p] /\ o.stamp.peer = p

(* Of the ops of U, those of a peer are in its log. *)
Keeps(d, U) ==
  /\ ToSet(d.ops) \subseteq U
  /\ \A o \in U : o.stamp.peer = d.peer => o \in ToSet(d.ops)
  /\ \A o \in d.silent : o.stamp.peer = d.peer

Sound(U, r) ==
  {d \in ReplicaType :
     /\ d.peer = r
     /\ IsKeyed(d) /\ HoldsNewest(d) /\ IsApart(Folded(d))
     /\ HasReached(d) /\ EditsFollow(d)
     /\ IsCovered(d) /\ Names(d.frontier, U) /\ Keeps(d, U)}

IsFrame(m, U) ==
  /\ m.frontier \in Maps(Peers, Stamps) /\ Names(m.frontier, U)
  /\ m.ops \in Seq(Ops) /\ ToSet(m.ops) \subseteq U
  /\ m.gapFree => m.left = {}

(* The inductive invariant. *)
IInv ==
  /\ DOMAIN replica = Peers
  /\ \A r \in Peers :
       replica[r] \in Sound(Issued, r) /\ replica[r].clock.logical <= MaxLogical
  /\ \A m \in net : IsFrame(m, Issued)
  /\ updates \in 0 .. MaxUpdates /\ frames \in 0 .. MaxFrames

-----------------------------------------------------------------------------
(* Naturals, and folds over sets of them. *)

(* A set of natural numbers has a least one. *)
LEMMA LeastNatural ==
  ASSUME NEW S \in SUBSET Nat, S # {}
  PROVE  \E n \in S : \A m \in S : n <= m
<1> DEFINE R == {ss \in Nat \X Nat : ss[1] < ss[2]}
<1>1. R = OpToRel(<, Nat)
  BY Zenon DEF OpToRel
<1>2. IsWellFoundedOn(R, Nat)
  BY <1>1, NatLessThanWellFounded
<1> HIDE DEF R
<1>3. PICK n \in S : \A m \in S : <<m, n>> \notin R
  BY <1>2, WFMin, Zenon
<1>4. ASSUME NEW m \in S
      PROVE  n <= m
  <2>1. <<m, n>> \notin {ss \in Nat \X Nat : ss[1] < ss[2]}
    BY <1>3 DEF R
  <2>2. <<m, n>> \in Nat \X Nat
    OBVIOUS
  <2>3. ~(<<m, n>>[1] < <<m, n>>[2])
    BY <2>1, <2>2, Zenon
  <2> QED  BY <2>3
<1> QED  BY <1>4

(* A bounded set of natural numbers has a greatest one, which Max returns. *)
LEMMA MaxOfBounded ==
  ASSUME NEW S \in SUBSET Nat, S # {}, NEW b \in Nat, \A n \in S : n <= b
  PROVE  Max(S) \in S /\ \A n \in S : n <= Max(S)
<1> DEFINE gaps == {d \in Nat : b - d \in S}
<1>1. gaps \in SUBSET Nat /\ gaps # {}
  <2>1. PICK n \in S : TRUE
    OBVIOUS
  <2>2. b - n \in Nat /\ b - (b - n) = n
    BY <2>1
  <2> QED  BY <2>2
<1>2. PICK d \in gaps : \A e \in gaps : d <= e
  BY <1>1, LeastNatural
<1>3. \A n \in S : b - n \in gaps
  <2> TAKE n \in S
  <2>1. b - n \in Nat /\ b - (b - n) = n
    OBVIOUS
  <2> QED  BY <2>1
<1>4. b - d \in S /\ \A n \in S : b - d >= n
  BY <1>2, <1>3
<1>5. \E x \in S : \A y \in S : x >= y
  BY <1>4
<1> QED  BY <1>5 DEF Max

(* Induction over the natural numbers, for a set. *)
LEMMA Induction ==
  ASSUME NEW S, 0 \in S, \A n \in Nat : n \in S => n + 1 \in S
  PROVE  Nat \subseteq S
<1>1. SUFFICES ASSUME ~(Nat \subseteq S)
               PROVE  FALSE
  OBVIOUS
<1>2. PICK n \in Nat \ S : \A m \in Nat \ S : n <= m
  BY <1>1, LeastNatural
<1>3. n # 0 /\ n - 1 \in Nat /\ n - 1 \in S
  BY <1>2
<1> QED  BY <1>2, <1>3

(* A finite set of natural numbers is bounded, *)
LEMMA FiniteIsBounded ==
  ASSUME NEW S \in SUBSET Nat, IsFiniteSet(S)
  PROVE  \E b \in Nat : \A n \in S : n <= b
<1> DEFINE Good == {c \in Nat : \A T \in SUBSET Nat :
                      IsFiniteSet(T) /\ Cardinality(T) = c => \E b \in Nat : \A n \in T : n <= b}
<1>1. 0 \in Good
  <2> SUFFICES ASSUME NEW T \in SUBSET Nat, IsFiniteSet(T), Cardinality(T) = 0
               PROVE  \E b \in Nat : \A n \in T : n <= b
    OBVIOUS
  <2>1. T = {}
    BY FS_EmptySet
  <2> QED  BY <2>1
<1>2. ASSUME NEW c \in Nat, c \in Good
      PROVE  c + 1 \in Good
  <2> SUFFICES ASSUME NEW T \in SUBSET Nat, IsFiniteSet(T), Cardinality(T) = c + 1
               PROVE  \E b \in Nat : \A n \in T : n <= b
    OBVIOUS
  <2> HIDE DEF Good
  <2>0. c + 1 # 0 /\ c + 1 - 1 = c
    OBVIOUS
  <2>1. PICK x \in T : TRUE
    <3>1. T # {}
      BY <2>0, FS_EmptySet
    <3> QED  BY <3>1
  <2>2. IsFiniteSet(T \ {x}) /\ Cardinality(T \ {x}) = c
    <3>1. /\ IsFiniteSet(T \ {x})
          /\ Cardinality(T \ {x}) = Cardinality(T) - 1
      BY FS_RemoveElement
    <3> QED  BY <2>0, <3>1
  <2>3. PICK b \in Nat : \A n \in T \ {x} : n <= b
    BY <1>2, <2>2 DEF Good
  <2>4. CASE x <= b
    BY <2>3, <2>4
  <2>5. CASE b <= x
    <3>1. x \in Nat /\ \A n \in T : n <= x
      BY <2>3, <2>5
    <3> QED  BY <3>1
  <2> QED  BY <2>1, <2>4, <2>5
<1> HIDE DEF Good
<1>3. Cardinality(S) \in Good
  BY <1>1, <1>2, Induction, FS_CardinalityType
<1> QED  BY <1>3 DEF Good

(* and so has a greatest element. *)
LEMMA MaxIsGreatest ==
  ASSUME NEW S \in SUBSET Nat, IsFiniteSet(S), S # {}
  PROVE  Max(S) \in S /\ \A n \in S : n <= Max(S)
  BY FiniteIsBounded, MaxOfBounded

(* f folds the step over every subset of S, the greatest number last. *)
IsFoldOf(f, S, base, step) ==
  \A s \in SUBSET S : f[s] = IF s = {} THEN base ELSE step[<<Max(s), f[s \ {Max(s)}]>>]

(* A step that stays within D can be folded over a set of numbers. *)
LEMMA FoldExists ==
  ASSUME NEW D, NEW base \in D, NEW S \in SUBSET Nat, IsFiniteSet(S),
         NEW step \in [S \X D -> D]
  PROVE  \E f \in [SUBSET S -> D] : IsFoldOf(f, S, base, step)
<1> DEFINE Below(n) == {m \in S : m < n}
           IsFold(f, n) ==
             \A s \in SUBSET Below(n) :
               f[s] = IF s = {} THEN base ELSE step[<<Max(s), f[s \ {Max(s)}]>>]
           Good == {n \in Nat : \E f \in [SUBSET Below(n) -> D] : IsFold(f, n)}
<1>1. 0 \in Good
  <2> DEFINE f == [s \in SUBSET Below(0) |-> base]
  <2>1. Below(0) = {}
    <3>1. \A m \in S : m \in Nat /\ ~(m < 0)
      OBVIOUS
    <3> QED  BY <3>1
  <2>2. f \in [SUBSET Below(0) -> D] /\ IsFold(f, 0)
    BY <2>1
  <2> QED  BY <2>2
<1>2. ASSUME NEW n \in Nat, n \in Good
      PROVE  n + 1 \in Good
  <2>1. PICK f \in [SUBSET Below(n) -> D] : IsFold(f, n)
    BY <1>2
  <2>2. \A s \in SUBSET Below(n + 1) : n \notin s => s \in SUBSET Below(n)
    OBVIOUS
  <2>3. \A s \in SUBSET Below(n + 1) : n \in s =>
          /\ Max(s) = n /\ s \ {n} \in SUBSET Below(n) /\ n \in S
    <3> TAKE s \in SUBSET Below(n + 1)
    <3> SUFFICES ASSUME n \in s
                 PROVE  Max(s) = n
      OBVIOUS
    <3>1. \A m \in S : m \in Nat /\ (m < n + 1 => m <= n)
      OBVIOUS
    <3>2. s \in SUBSET S /\ s \in SUBSET Nat /\ \A m \in s : m <= n
      BY <3>1
    <3>3. IsFiniteSet(s)
      BY <3>2, FS_Subset
    <3>4. Max(s) \in s /\ \A m \in s : m <= Max(s)
      BY <3>2, <3>3, MaxIsGreatest
    <3>5. Max(s) \in Nat /\ Max(s) <= n /\ n <= Max(s)
      BY <3>2, <3>4
    <3> QED  BY <3>5
  <2> DEFINE g == [s \in SUBSET Below(n + 1) |->
                     IF n \in s THEN step[<<n, f[s \ {n}]>>] ELSE f[s]]
  <2>4. g \in [SUBSET Below(n + 1) -> D]
    BY <2>1, <2>2, <2>3
  <2>5. \A s \in SUBSET Below(n) : s \in SUBSET Below(n + 1) /\ n \notin s /\ g[s] = f[s]
    OBVIOUS
  <2>6. ASSUME NEW s \in SUBSET Below(n), s # {}
        PROVE  s \ {Max(s)} \in SUBSET Below(n)
    OBVIOUS
  <2>7. IsFold(g, n + 1)
    <3> SUFFICES ASSUME NEW s \in SUBSET Below(n + 1)
                 PROVE  g[s] = IF s = {} THEN base ELSE step[<<Max(s), g[s \ {Max(s)}]>>]
      OBVIOUS
    <3>1. CASE n \in s
      <4>1. s # {} /\ Max(s) = n /\ g[s] = step[<<n, f[s \ {n}]>>]
        BY <2>3, <3>1
      <4>2. g[s \ {n}] = f[s \ {n}]
        BY <2>3, <2>5, <3>1
      <4> HIDE DEF g
      <4> QED  BY <4>1, <4>2
    <3>2. CASE n \notin s
      <4>1. s \in SUBSET Below(n) /\ g[s] = f[s]
        BY <2>2, <2>5, <3>2
      <4>2. f[s] = IF s = {} THEN base ELSE step[<<Max(s), f[s \ {Max(s)}]>>]
        BY <2>1, <4>1
      <4>3. s # {} => g[s \ {Max(s)}] = f[s \ {Max(s)}]
        BY <2>5, <2>6, <4>1
      <4> HIDE DEF g
      <4> QED  BY <4>1, <4>2, <4>3
    <3> QED  BY <3>1, <3>2
  <2>8. \E h \in [SUBSET Below(n + 1) -> D] : IsFold(h, n + 1)
    <3> HIDE DEF g, Below, IsFold
    <3> QED  BY <2>4, <2>7
  <2>9. n + 1 \in Nat
    OBVIOUS
  <2> HIDE DEF g, Below, IsFold
  <2> QED  BY <2>8, <2>9
<1>3. PICK b \in Nat : \A n \in S : n <= b
  BY FiniteIsBounded
<1>4. Below(b + 1) = S
  <2>1. \A m \in S : m \in Nat /\ m < b + 1
    BY <1>3
  <2> QED  BY <2>1
<1> HIDE DEF Good
<1>5. b + 1 \in Good
  BY <1>1, <1>2, Induction
<1>6. PICK f \in [SUBSET Below(b + 1) -> D] : IsFold(f, b + 1)
  BY <1>5 DEF Good
<1> QED  BY <1>4, <1>6 DEF IsFoldOf

(* What every step of a fold preserves holds of its result. *)
LEMMA FoldStays ==
  ASSUME NEW S \in SUBSET Nat, IsFiniteSet(S), NEW G, NEW iter,
         iter[{}] \in G[{}],
         \A s \in SUBSET S :
           s # {} /\ iter[s \ {Max(s)}] \in G[s \ {Max(s)}] => iter[s] \in G[s]
  PROVE  iter[S] \in G[S]
<1> DEFINE Good == {n \in Nat : \A s \in SUBSET S : Cardinality(s) = n => iter[s] \in G[s]}
<1>1. \A s \in SUBSET S : IsFiniteSet(s) /\ Cardinality(s) \in Nat
  BY FS_Subset, FS_CardinalityType
<1>2. 0 \in Good
  <2>1. \A s \in SUBSET S : Cardinality(s) = 0 => s = {}
    BY <1>1, FS_EmptySet
  <2> QED  BY <2>1
<1>3. ASSUME NEW n \in Nat, n \in Good
      PROVE  n + 1 \in Good
  <2> SUFFICES ASSUME NEW s \in SUBSET S, Cardinality(s) = n + 1
               PROVE  iter[s] \in G[s]
    OBVIOUS
  <2>1. s # {}
    BY FS_EmptySet
  <2>2. Max(s) \in s
    BY <1>1, <2>1, MaxIsGreatest
  <2>3. Cardinality(s \ {Max(s)}) = n
    <3>1. Cardinality(s \ {Max(s)}) = Cardinality(s) - 1
      BY <1>1, <2>2, FS_RemoveElement
    <3> QED  BY <3>1
  <2>4. iter[s \ {Max(s)}] \in G[s \ {Max(s)}]
    BY <1>3, <2>3
  <2> QED  BY <2>1, <2>4
<1> HIDE DEF Good
<1>4. Cardinality(S) \in Good
  BY <1>1, <1>2, <1>3, Induction
<1> QED  BY <1>4 DEF Good

-----------------------------------------------------------------------------
(* Maps, logs and stamps. *)

LEMMA MapFields ==
  ASSUME NEW D, NEW R, NEW f \in Maps(D, R)
  PROVE  DOMAIN f \in SUBSET D /\ f \in [DOMAIN f -> R]
  BY DEF Maps

LEMMA MapIsTyped ==
  ASSUME NEW D, NEW R, NEW S \in SUBSET D, NEW f \in [S -> R]
  PROVE  f \in Maps(D, R)
  BY DEF Maps

(* Map.set. *)
LEMMA PutMap ==
  ASSUME NEW D, NEW R, NEW f \in Maps(D, R), NEW x \in D, NEW v \in R
  PROVE  /\ Put(f, x, v) \in Maps(D, R)
         /\ DOMAIN Put(f, x, v) = DOMAIN f \cup {x}
         /\ Put(f, x, v)[x] = v
         /\ \A y \in DOMAIN f : y # x => Put(f, x, v)[y] = f[y]
<1>1. DOMAIN f \in SUBSET D /\ f \in [DOMAIN f -> R]
  BY MapFields
<1>2. Put(f, x, v) \in [DOMAIN f \cup {x} -> R]
  BY <1>1 DEF Put
<1>3. DOMAIN f \cup {x} \in SUBSET D
  BY <1>1
<1>4. Put(f, x, v) \in Maps(D, R)
  BY <1>2, <1>3, MapIsTyped
<1> QED  BY <1>4 DEF Put

(* A log with one more op. *)
LEMMA Logged ==
  ASSUME NEW R, NEW q \in Seq(R), NEW x \in R
  PROVE  /\ Append(q, x) \in Seq(R)
         /\ ToSet(Append(q, x)) = ToSet(q) \cup {x}
         /\ DOMAIN Append(q, x) = DOMAIN q \cup {Len(q) + 1}
         /\ \A i \in DOMAIN q : i \in 1 .. Len(q) /\ Append(q, x)[i] = q[i]
         /\ Append(q, x)[Len(q) + 1] = x
<1>1. /\ Append(q, x) \in Seq(R) /\ Len(Append(q, x)) = Len(q) + 1
      /\ DOMAIN q = 1 .. Len(q) /\ DOMAIN Append(q, x) = 1 .. Len(q) + 1
      /\ Len(q) \in Nat
  OBVIOUS
<1>2. /\ \A i \in 1 .. Len(q) : Append(q, x)[i] = q[i]
      /\ Append(q, x)[Len(q) + 1] = x
  OBVIOUS
<1>3. 1 .. Len(q) + 1 = 1 .. Len(q) \cup {Len(q) + 1}
  BY <1>1
<1>4. ToSet(Append(q, x)) = ToSet(q) \cup {x}
  BY <1>1, <1>2, <1>3 DEF ToSet
<1> QED  BY <1>1, <1>2, <1>3, <1>4

LEMMA StampFields ==
  ASSUME NEW s \in Stamps
  PROVE  /\ s.wall \in Nat /\ s.wall \in 1 .. MaxWall
         /\ s.logical \in Nat /\ s.logical <= MaxLogical
         /\ s.peer \in Nat /\ s.peer \in Peers
<1>1. MaxWall \in Nat /\ MaxLogical \in Nat
  BY BoundsAssumption
<1>2. s.wall \in 1 .. MaxWall /\ s.logical \in 0 .. MaxLogical /\ s.peer \in Peers
  BY DEF Stamps, Readings
<1>3. s.peer \in Nat
  BY <1>2, PeersAssumption
<1>4. s.wall \in Nat /\ s.logical \in Nat /\ s.logical <= MaxLogical
  BY <1>1, <1>2
<1> QED  BY <1>2, <1>3, <1>4

(* Stamps are in a total order. *)
LEMMA StampOrder ==
  ASSUME NEW s \in Stamps, NEW t \in Stamps
  PROVE  /\ Before(s, t) \/ Before(t, s) \/ s = t
         /\ ~Before(s, s) /\ ~(Before(s, t) /\ Before(t, s))
         /\ \A u \in Stamps : ~Before(s, t) /\ ~Before(t, u) => ~Before(s, u)
<1>1. /\ s.wall \in Nat /\ s.logical \in Nat /\ s.peer \in Nat
      /\ t.wall \in Nat /\ t.logical \in Nat /\ t.peer \in Nat
  BY StampFields
<1>2. ~Before(s, t) /\ ~Before(t, s) => s = t
  <2> HAVE ~Before(s, t) /\ ~Before(t, s)
  <2>1. s.wall = t.wall /\ s.logical = t.logical /\ s.peer = t.peer
    BY <1>1 DEF Before
  <2> QED  BY <2>1 DEF Stamps
<1>3. ASSUME NEW u \in Stamps, ~Before(s, t), ~Before(t, u)
      PROVE  ~Before(s, u)
  <2>1. u.wall \in Nat /\ u.logical \in Nat /\ u.peer \in Nat
    BY StampFields
  <2> QED  BY <1>1, <1>3, <2>1 DEF Before
<1>4. ~Before(s, s) /\ ~(Before(s, t) /\ Before(t, s))
  BY <1>1 DEF Before
<1> QED  BY <1>2, <1>3, <1>4

(* Of the newest ops of a set there is one, if stamps tell them apart. *)
LEMMA NewestIs ==
  ASSUME NEW F \in SUBSET Ops, IsApart(F), NEW c \in F, \A o \in F : ~Before(c.stamp, o.stamp)
  PROVE  c = Newest(F)
<1>1. \A o \in F : o.stamp \in Stamps
  BY DEF Ops
<1>2. ASSUME NEW d \in F, \A o \in F : ~Before(d.stamp, o.stamp)
      PROVE  d = c
  <2>1. ~Before(c.stamp, d.stamp) /\ ~Before(d.stamp, c.stamp)
    BY <1>2
  <2>2. c.stamp = d.stamp
    BY <1>1, <2>1, StampOrder
  <2> QED  BY <2>2 DEF IsApart
<1> QED  BY <1>2 DEF Newest

-----------------------------------------------------------------------------
(* The clock. *)

Clocks == [wall : 0 .. MaxWall, logical : Nat]

(* A local tick is past all that was reached. *)
LEMMA SendIsPast ==
  ASSUME NEW c \in Clocks, NEW now \in Readings
  PROVE  /\ Send(c, now) \in Clocks /\ Send(c, now).wall \in Readings
         /\ \A s \in Stamps : \A p : Reached(c, s) =>
              /\ Reached(Send(c, now), s)
              /\ Before(s, [wall |-> Send(c, now).wall, logical |-> Send(c, now).logical,
                            peer |-> p])
<1> DEFINE t == Send(c, now)
<1>1. c.wall \in 0 .. MaxWall /\ c.logical \in Nat /\ now \in 1 .. MaxWall /\ MaxWall \in Nat
  BY BoundsAssumption DEF Clocks, Readings
<1>2. /\ t \in Clocks /\ t.wall \in Readings
      /\ t.wall > c.wall \/ (t.wall = c.wall /\ t.logical = c.logical + 1)
  <2>1. CASE now > c.wall
    <3>1. t = [wall |-> now, logical |-> 0]
      BY <2>1 DEF Send
    <3> HIDE DEF t
    <3> QED  BY <1>1, <2>1, <3>1 DEF Clocks, Readings
  <2>2. CASE ~(now > c.wall)
    <3>1. t = [c EXCEPT !.logical = @ + 1]
      BY <2>2 DEF Send
    <3> HIDE DEF t
    <3>2. t \in Clocks /\ t.wall = c.wall /\ t.logical = c.logical + 1
      BY <1>1, <3>1 DEF Clocks
    <3> QED  BY <1>1, <2>2, <3>2 DEF Readings
  <2> QED  BY <2>1, <2>2
<1> HIDE DEF t
<1>3. t.wall \in Nat /\ t.logical \in Nat
  BY <1>1, <1>2 DEF Clocks
<1>4. ASSUME NEW s \in Stamps, NEW p, Reached(c, s)
      PROVE  Reached(t, s) /\ Before(s, [wall |-> t.wall, logical |-> t.logical, peer |-> p])
  <2>1. s.wall \in Nat /\ s.logical \in Nat
    BY StampFields
  <2>2. s.wall < t.wall \/ (s.wall = t.wall /\ s.logical < t.logical)
    BY <1>1, <1>2, <1>3, <1>4, <2>1 DEF Reached
  <2> QED  BY <1>3, <2>1, <2>2 DEF Reached, Before
<1> QED  BY <1>2, <1>4 DEF t

LEMMA MaxIs ==
  ASSUME NEW S, NEW x \in S, \A y \in S : x >= y
  PROVE  Max(S) \in S /\ \A y \in S : Max(S) >= y
  BY DEF Max

(* Hearing a stamp moves the clock to it and never back. *)
LEMMA RecvIsPast ==
  ASSUME NEW c \in Clocks, NEW s \in Stamps, NEW now \in Readings
  PROVE  /\ Recv(c, s, now) \in Clocks
         /\ Reached(Recv(c, s, now), s)
         /\ \A t \in Stamps : Reached(c, t) => Reached(Recv(c, s, now), t)
<1> DEFINE walls == {c.wall, s.wall, now}
           wall == Max(walls)
           heard == [wall |-> s.wall, logical |-> s.logical]
           used == {x.logical : x \in {y \in {c, heard} : y.wall = wall}}
           ticks == {-1} \cup used
<1>1. /\ c.wall \in 0 .. MaxWall /\ c.logical \in Nat /\ now \in 1 .. MaxWall /\ MaxWall \in Nat
      /\ s.wall \in 1 .. MaxWall /\ s.logical \in Nat
  BY BoundsAssumption, StampFields DEF Clocks, Readings
<1>2. wall \in walls /\ \A y \in walls : wall >= y
  <2>1. \E x \in walls : \A y \in walls : x >= y
    BY <1>1
  <2> QED  BY <2>1, MaxIs
<1>3. wall \in 0 .. MaxWall /\ c.wall <= wall /\ s.wall <= wall
  BY <1>1, <1>2
<1> HIDE DEF wall
<1>4. /\ used \subseteq {c.logical, s.logical}
      /\ c.wall = wall => c.logical \in used
      /\ s.wall = wall => s.logical \in used
  <2>1. heard.wall = s.wall /\ heard.logical = s.logical
    OBVIOUS
  <2> HIDE DEF heard
  <2>2. /\ c.wall = wall => c \in {y \in {c, heard} : y.wall = wall}
        /\ s.wall = wall => heard \in {y \in {c, heard} : y.wall = wall}
    BY <2>1
  <2> QED  BY <2>1, <2>2
<1> HIDE DEF used
<1>5. Max(ticks) \in ticks /\ \A y \in ticks : Max(ticks) >= y
  <2>1. \E x \in ticks : \A y \in ticks : x >= y
    <3>1. CASE used = {}
      BY <3>1
    <3>2. CASE c.logical \in used /\ (s.logical \notin used \/ s.logical <= c.logical)
      BY <1>1, <1>4, <3>2
    <3>3. CASE s.logical \in used /\ (c.logical \notin used \/ c.logical <= s.logical)
      BY <1>1, <1>4, <3>3
    <3> QED  BY <1>1, <1>4, <3>1, <3>2, <3>3
  <2> QED  BY <2>1, MaxIs
<1> DEFINE tick == Max(ticks)
<1>6. /\ tick + 1 \in Nat
      /\ c.wall = wall => c.logical <= tick
      /\ s.wall = wall => s.logical <= tick
  <2>1. ticks \subseteq Nat \cup {-1}
    BY <1>1, <1>4
  <2>2. tick \in Nat \cup {-1} /\ \A y \in used : tick >= y
    BY <1>5, <2>1
  <2> HIDE DEF tick
  <2>3. tick + 1 \in Nat
    BY <2>2
  <2> QED  BY <1>1, <1>4, <2>2, <2>3
<1>7. Recv(c, s, now) = [wall |-> wall, logical |-> tick + 1]
  BY DEF Recv, wall, used
<1> HIDE DEF tick
<1> DEFINE t == Recv(c, s, now)
<1> HIDE DEF t
<1>8. /\ t \in Clocks /\ t.wall = wall /\ t.logical = tick + 1
      /\ tick \in Int /\ wall \in Nat
  <2>1. t.wall = wall /\ t.logical = tick + 1 /\ t \in Clocks
    BY <1>3, <1>6, <1>7 DEF Clocks, t
  <2>2. tick \in Int
    <3>1. ticks \subseteq Int
      BY <1>1, <1>4
    <3> QED  BY <1>5, <3>1 DEF tick
  <2> QED  BY <1>1, <1>3, <2>1, <2>2
<1>9. Reached(t, s)
  BY <1>1, <1>3, <1>6, <1>8 DEF Reached
<1>10. ASSUME NEW u \in Stamps, Reached(c, u)
      PROVE  Reached(t, u)
  <2>1. u.wall \in Nat /\ u.logical \in Nat
    BY StampFields
  <2> QED  BY <1>1, <1>3, <1>6, <1>8, <1>10, <2>1 DEF Reached
<1> QED  BY <1>8, <1>9, <1>10 DEF t

-----------------------------------------------------------------------------
(* What a replica does with a stamp, a key and an op. *)

LEMMA ReplicaFields ==
  ASSUME NEW d \in ReplicaType
  PROVE  /\ d.peer \in Peers /\ d.clock \in Clocks
         /\ d.keyToNode \in Maps(Keys, NodeIds) /\ d.cells \in Maps(NodeIds, Ops \cup {NoOp})
         /\ d.nextFamilyNode \in Nat /\ d.ops \in Seq(Ops)
         /\ d.frontier \in Maps(Peers, Stamps) /\ d.silent \in SUBSET Ops
         /\ Folded(d) \in SUBSET Ops
         /\ DOMAIN d.ops = 1 .. Len(d.ops) /\ Len(d.ops) \in Nat
         /\ \A i \in DOMAIN d.ops : d.ops[i] \in Ops /\ d.ops[i].stamp \in Stamps
<1>1. /\ d.peer \in Peers /\ d.clock \in Clocks
      /\ d.keyToNode \in Maps(Keys, NodeIds) /\ d.cells \in Maps(NodeIds, Ops \cup {NoOp})
      /\ d.nextFamilyNode \in Nat /\ d.ops \in Seq(Ops)
      /\ d.frontier \in Maps(Peers, Stamps) /\ d.silent \in SUBSET Ops
  BY DEF ReplicaType, Clocks
<1>2. /\ DOMAIN d.ops = 1 .. Len(d.ops) /\ Len(d.ops) \in Nat
      /\ \A i \in DOMAIN d.ops : d.ops[i] \in Ops
  BY <1>1
<1>3. \A o \in Ops : o.stamp \in Stamps
  BY DEF Ops
<1>4. Folded(d) \in SUBSET Ops
  BY <1>1, <1>2 DEF Folded, ToSet
<1> QED  BY <1>1, <1>2, <1>3, <1>4

(* #observeStamp covers the stamp and loses no coverage. *)
LEMMA ObserveCovers ==
  ASSUME NEW fr \in Maps(Peers, Stamps), NEW s \in Stamps
  PROVE  LET gr == IF s.peer \in DOMAIN fr /\ ~Before(fr[s.peer], s) THEN fr
                   ELSE Put(fr, s.peer, s)
         IN /\ gr \in Maps(Peers, Stamps)
            /\ Covers(gr, s)
            /\ \A t \in Stamps : Covers(fr, t) => Covers(gr, t)
            /\ \A p \in DOMAIN gr :
                 (p \in DOMAIN fr /\ gr[p] = fr[p]) \/ (p = s.peer /\ gr[p] = s)
<1> DEFINE new == Put(fr, s.peer, s)
<1>1. CASE s.peer \in DOMAIN fr /\ ~Before(fr[s.peer], s)
  BY <1>1 DEF Covers
<1>2. CASE ~(s.peer \in DOMAIN fr /\ ~Before(fr[s.peer], s))
  <2>1. s.peer \in Peers
    BY StampFields
  <2>2. /\ new \in Maps(Peers, Stamps) /\ DOMAIN new = DOMAIN fr \cup {s.peer}
        /\ new[s.peer] = s /\ \A p \in DOMAIN fr : p # s.peer => new[p] = fr[p]
    BY <2>1, PutMap
  <2> HIDE DEF new
  <2>3. Covers(new, s)
    BY <2>2, StampOrder DEF Covers
  <2>4. ASSUME NEW t \in Stamps, Covers(fr, t)
        PROVE  Covers(new, t)
    <3>1. CASE t.peer # s.peer
      BY <2>2, <2>4, <3>1 DEF Covers
    <3>2. CASE t.peer = s.peer
      <4>1. fr[s.peer] \in Stamps /\ Before(fr[s.peer], s) /\ ~Before(fr[s.peer], t)
        BY <1>2, <2>4, <3>2, MapFields DEF Covers
      <4>2. ~Before(s, fr[s.peer])
        BY <4>1, StampOrder
      <4>3. ~Before(s, t)
        BY <4>1, <4>2, StampOrder
      <4> QED  BY <2>2, <3>2, <4>3 DEF Covers
    <3> QED  BY <3>1, <3>2
  <2>5. \A p \in DOMAIN new :
          (p \in DOMAIN fr /\ new[p] = fr[p]) \/ (p = s.peer /\ new[p] = s)
    BY <2>2
  <2> QED  BY <1>2, <2>2, <2>3, <2>4, <2>5 DEF new
<1> QED  BY <1>1, <1>2

(* A replica that hears of an op of U. *)
LEMMA HearIsSound ==
  ASSUME NEW U, NEW r \in Peers, NEW d \in Sound(U, r), NEW now \in Readings,
         NEW o \in U, o.stamp \in Stamps, NEW e, e = Hear(d, o.stamp, now)
  PROVE  /\ e \in Sound(U, r)
         /\ e.ops = d.ops /\ e.silent = d.silent
         /\ Covers(e.frontier, o.stamp)
         /\ o.stamp.peer # r => Reached(e.clock, o.stamp)
<1> DEFINE s == o.stamp
           c == IF s.peer = d.peer THEN d.clock ELSE Recv(d.clock, s, now)
           fr == IF s.peer \in DOMAIN d.frontier /\ ~Before(d.frontier[s.peer], s) THEN d.frontier
                 ELSE Put(d.frontier, s.peer, s)
<1>1. /\ d \in ReplicaType /\ d.peer = r /\ IsKeyed(d) /\ HoldsNewest(d) /\ IsApart(Folded(d))
      /\ HasReached(d) /\ EditsFollow(d) /\ IsCovered(d) /\ Names(d.frontier, U) /\ Keeps(d, U)
  BY DEF Sound
<1>2. /\ c \in Clocks
      /\ s.peer # r => Reached(c, s)
      /\ \A t \in Stamps : Reached(d.clock, t) => Reached(c, t)
  BY <1>1, RecvIsPast, ReplicaFields
<1>3. /\ fr \in Maps(Peers, Stamps) /\ Covers(fr, s)
      /\ \A t \in Stamps : Covers(d.frontier, t) => Covers(fr, t)
      /\ \A p \in DOMAIN fr :
           (p \in DOMAIN d.frontier /\ fr[p] = d.frontier[p]) \/ (p = s.peer /\ fr[p] = s)
  BY <1>1, ObserveCovers, ReplicaFields
<1>4. e = [d EXCEPT !.clock = c, !.frontier = fr]
  <2>1. CASE s.peer = d.peer
    BY <1>1, <2>1 DEF Hear, Observe, ReplicaType
  <2>2. CASE s.peer # d.peer
    BY <1>1, <2>2 DEF Hear, Observe, ReplicaType
  <2> QED  BY <2>1, <2>2
<1> HIDE DEF c, fr
<1>5. /\ e.peer = d.peer /\ e.clock = c /\ e.frontier = fr /\ e.ops = d.ops
      /\ e.keyToNode = d.keyToNode /\ e.cells = d.cells /\ e.silent = d.silent
      /\ e.nextFamilyNode = d.nextFamilyNode /\ e \in ReplicaType
  <2>1. e \in ReplicaType
    BY <1>1, <1>2, <1>3, <1>4 DEF ReplicaType, Clocks
  <2> QED  BY <1>1, <1>4, <2>1 DEF ReplicaType
<1>6. Folded(e) = Folded(d) /\ \A x \in Folded(d) : x.stamp \in Stamps
  <2>1. \A x \in Ops : x.stamp \in Stamps
    BY DEF Ops
  <2> QED  BY <1>1, <1>5, <2>1, ReplicaFields DEF Folded
<1>7. IsKeyed(e) /\ HoldsNewest(e) /\ IsApart(Folded(e)) /\ EditsFollow(e) /\ Keeps(e, U)
  <2>1. IsKeyed(e) /\ IsApart(Folded(e)) /\ EditsFollow(e) /\ Keeps(e, U)
    <3>1. IsKeyed(e)
      BY <1>1, <1>5 DEF IsKeyed
    <3>2. EditsFollow(e)
      BY <1>1, <1>5 DEF EditsFollow
    <3>3. Keeps(e, U)
      BY <1>1, <1>5 DEF Keeps
    <3> QED  BY <1>1, <1>6, <3>1, <3>2, <3>3
  <2>2. \A k : FoldedOf(e, k) = FoldedOf(d, k)
    BY <1>6 DEF FoldedOf
  <2>3. HoldsNewest(e)
    BY <1>1, <1>5, <1>6, <2>2 DEF HoldsNewest
  <2> QED  BY <2>1, <2>3
<1>8. HasReached(e)
  BY <1>1, <1>2, <1>5, <1>6 DEF HasReached
<1>9. IsCovered(e)
  BY <1>1, <1>3, <1>5, ReplicaFields DEF IsCovered
<1>10. Names(e.frontier, U)
  BY <1>1, <1>3, <1>5 DEF Names
<1>11. e \in Sound(U, r)
  BY <1>1, <1>5, <1>7, <1>8, <1>9, <1>10 DEF Sound
<1> QED  BY <1>2, <1>3, <1>5, <1>11

LEMMA KeysAreFinite ==
  /\ IsFiniteSet(Keys) /\ Cardinality(Keys) \in Nat
  /\ IsFiniteSet(FamilyKeys) /\ Cardinality(FamilyKeys) \in Nat
  /\ Cardinality(FamilyKeys) <= Cardinality(Keys)
  /\ \A k, l \in DocKeys : k = l
<1>1. IsFiniteSet(Keys) /\ FamilyKeys \subseteq Keys /\ IsFiniteSet(FamilyKeys)
  BY KeysAssumption, FS_Union DEF Keys
<1>2. /\ Cardinality(Keys) \in Nat /\ Cardinality(FamilyKeys) \in Nat
      /\ Cardinality(FamilyKeys) <= Cardinality(Keys)
  BY <1>1, FS_CardinalityType, FS_Subset
<1>3. ASSUME NEW k \in DocKeys, NEW l \in DocKeys, k # l
      PROVE  FALSE
  <2>1. {k, l} \subseteq DocKeys /\ IsFiniteSet(DocKeys) /\ Cardinality(DocKeys) <= 1
    BY KeysAssumption
  <2>2. Cardinality({k, l}) <= Cardinality(DocKeys) /\ Cardinality(DocKeys) \in Nat
    BY <2>1, FS_Subset, FS_CardinalityType
  <2>3. Cardinality({k} \cup {l}) = Cardinality({k}) + 1
    BY <1>3, FS_Singleton, FS_AddElement
  <2>4. Cardinality({k}) = 1 /\ {k, l} = {k} \cup {l}
    BY FS_Singleton
  <2> QED  BY <2>1, <2>2, <2>3, <2>4
<1> QED  BY <1>1, <1>2, <1>3

(* The node a new key gets is not in use. *)
LEMMA NodeIsFresh ==
  ASSUME NEW d \in ReplicaType, IsKeyed(d), NEW key \in Keys, key \notin DOMAIN d.keyToNode,
         NEW node, key \in DocKeys => node = DocNode
  PROVE  LET n == IF key \in FamilyKeys THEN Mint(d) ELSE node
         IN /\ n \in NodeIds /\ n \notin DOMAIN d.cells
            /\ key \in FamilyKeys => n = d.nextFamilyNode
            /\ key \in DocKeys => n = DocNode
<1> DEFINE nodes == d.keyToNode
           known == DOMAIN nodes \cap FamilyKeys
           next == d.nextFamilyNode
<1>1. /\ DOMAIN nodes \in SUBSET Keys /\ next \in Nat
      /\ DOMAIN d.cells = {nodes[k] : k \in DOMAIN nodes}
      /\ next = FamilyBase + Cardinality(known)
      /\ \A k \in DOMAIN nodes : /\ k \in DocKeys => nodes[k] = DocNode
                                 /\ k \in FamilyKeys => nodes[k] \in FamilyBase .. next - 1
  <2>1. DOMAIN nodes \in SUBSET Keys /\ next \in Nat
    BY ReplicaFields, MapFields
  <2>2. Keying(nodes, d.cells, next)
    BY DEF IsKeyed
  <2> HIDE DEF nodes, next
  <2> QED  BY <2>1, <2>2 DEF Keying
<1>2. /\ IsFiniteSet(known) /\ Cardinality(known) \in Nat
      /\ Cardinality(known) <= Cardinality(FamilyKeys)
      /\ Cardinality(FamilyKeys) \in Nat /\ Cardinality(Keys) \in Nat
      /\ Cardinality(FamilyKeys) <= Cardinality(Keys)
  <2>1. known \subseteq FamilyKeys
    OBVIOUS
  <2> HIDE DEF known
  <2> QED  BY <2>1, KeysAreFinite, FS_Subset, FS_CardinalityType
<1> HIDE DEF known, nodes, next
<1>3. next \in NodeIds /\ DocNode \in NodeIds /\ NodeIds \subseteq Nat /\ next >= FamilyBase
  BY <1>1, <1>2 DEF NodeIds, FamilyBase, DocNode
<1>4. \A k \in DOMAIN nodes : nodes[k] # next
  <2> TAKE k \in DOMAIN nodes
  <2>1. CASE k \in DocKeys
    BY <1>1, <1>3, <2>1 DEF DocNode, FamilyBase
  <2>2. CASE k \in FamilyKeys
    BY <1>1, <2>2 DEF FamilyBase
  <2> QED  BY <1>1, <2>1, <2>2 DEF Keys
<1>5. Mint(d) = next
  <2> DEFINE free == {n \in NodeIds : n >= next /\ n \notin DOMAIN d.cells}
  <2>1. next \in free /\ free \subseteq Nat /\ \A n \in free : next <= n
    <3>1. next \notin DOMAIN d.cells
      BY <1>1, <1>4
    <3>2. next >= next /\ \A n \in NodeIds : n >= next => next <= n
      BY <1>3
    <3> QED  BY <1>3, <3>1, <3>2
  <2> HIDE DEF free
  <2>2. \A m \in free : (\A n \in free : m <= n) => m = next
    <3> TAKE m \in free
    <3> HAVE \A n \in free : m <= n
    <3>1. m <= next /\ next <= m /\ m \in Nat /\ next \in Nat
      BY <1>1, <2>1
    <3> QED  BY <3>1
  <2>3. Min(free) = next
    BY <2>1, <2>2 DEF Min
  <2> QED  BY <2>3 DEF Mint, free, next
<1>6. CASE key \in FamilyKeys
  <2>1. key \notin DocKeys
    BY <1>6, KeysAssumption
  <2> QED  BY <1>1, <1>3, <1>4, <1>5, <1>6, <2>1 DEF nodes, next
<1>7. CASE key \notin FamilyKeys
  <2>1. key \in DocKeys /\ node = DocNode
    BY <1>7 DEF Keys
  <2>2. \A k \in DOMAIN nodes : nodes[k] # DocNode
    <3> TAKE k \in DOMAIN nodes
    <3>1. k \notin DocKeys
      BY <2>1, KeysAreFinite DEF nodes
    <3>2. nodes[k] \in FamilyBase .. next - 1
      BY <1>1, <3>1 DEF Keys
    <3> QED  BY <1>1, <3>2 DEF DocNode, FamilyBase
  <2> QED  BY <1>1, <1>3, <1>7, <2>1, <2>2
<1> QED  BY <1>6, <1>7

(* A replica that gives a key its entry. *)
LEMMA MaterializeIsSound ==
  ASSUME NEW U, NEW r \in Peers, NEW d \in Sound(U, r), NEW key \in Keys,
         NEW node, key \in DocKeys => node = DocNode, NEW e, e = Materialize(d, key, node)
  PROVE  /\ e \in Sound(U, r) /\ key \in DOMAIN e.keyToNode
         /\ e.clock = d.clock /\ e.ops = d.ops /\ e.silent = d.silent /\ e.frontier = d.frontier
<1>1. /\ d \in ReplicaType /\ d.peer = r /\ IsKeyed(d) /\ HoldsNewest(d) /\ IsApart(Folded(d))
      /\ HasReached(d) /\ EditsFollow(d) /\ IsCovered(d) /\ Names(d.frontier, U) /\ Keeps(d, U)
  BY DEF Sound
<1>2. CASE key \in DOMAIN d.keyToNode
  BY <1>2 DEF Materialize
<1>3. CASE key \notin DOMAIN d.keyToNode
  <2> DEFINE n == IF key \in FamilyKeys THEN Mint(d) ELSE node
             nodes == Put(d.keyToNode, key, n)
             cells == Put(d.cells, n, NoOp)
             next == IF key \in FamilyKeys THEN n + 1 ELSE d.nextFamilyNode
  <2>1. /\ n \in NodeIds /\ n \notin DOMAIN d.cells
        /\ key \in FamilyKeys => n = d.nextFamilyNode
        /\ key \in DocKeys => n = DocNode
    BY <1>1, <1>3, NodeIsFresh
  <2>2. e = [d EXCEPT !.keyToNode = nodes, !.cells = cells, !.nextFamilyNode = next]
    BY <1>1, <1>3, <2>1 DEF Materialize, WithCell, ReplicaType
  <2> HIDE DEF n
  <2>3. /\ nodes \in Maps(Keys, NodeIds) /\ DOMAIN nodes = DOMAIN d.keyToNode \cup {key}
        /\ nodes[key] = n /\ \A k \in DOMAIN d.keyToNode : k # key => nodes[k] = d.keyToNode[k]
    <3>1. d.keyToNode \in Maps(Keys, NodeIds)
      BY <1>1, ReplicaFields
    <3> QED  BY <2>1, <3>1, PutMap
  <2>4. /\ cells \in Maps(NodeIds, Ops \cup {NoOp}) /\ DOMAIN cells = DOMAIN d.cells \cup {n}
        /\ cells[n] = NoOp /\ \A m \in DOMAIN d.cells : m # n => cells[m] = d.cells[m]
    <3> DEFINE R == Ops \cup {NoOp}
    <3>1. NoOp \in R /\ d.cells \in Maps(NodeIds, R)
      BY <1>1, ReplicaFields
    <3> HIDE DEF R
    <3>2. cells \in Maps(NodeIds, R)
      BY <2>1, <3>1, PutMap
    <3>3. /\ DOMAIN cells = DOMAIN d.cells \cup {n} /\ cells[n] = NoOp
          /\ \A m \in DOMAIN d.cells : m # n => cells[m] = d.cells[m]
      BY DEF Put
    <3> QED  BY <3>2, <3>3 DEF R
  <2>5. next \in Nat
    BY <1>1, <2>1, ReplicaFields
  <2> HIDE DEF nodes, cells, next
  <2>6. /\ e \in ReplicaType /\ e.peer = d.peer /\ e.clock = d.clock /\ e.ops = d.ops
        /\ e.silent = d.silent /\ e.frontier = d.frontier
        /\ e.keyToNode = nodes /\ e.cells = cells /\ e.nextFamilyNode = next
    BY <1>1, <2>2, <2>3, <2>4, <2>5 DEF ReplicaType
  <2>7. Keying(d.keyToNode, d.cells, d.nextFamilyNode)
    BY <1>1 DEF IsKeyed
  <2>8. \A k \in DOMAIN d.keyToNode : nodes[k] = d.keyToNode[k] /\ nodes[k] \in DOMAIN d.cells
    BY <1>3, <2>3, <2>7 DEF Keying
  <2>9. Keying(nodes, cells, next)
    <3>1. DOMAIN cells = {nodes[k] : k \in DOMAIN nodes}
      <4>1. DOMAIN d.cells = {nodes[k] : k \in DOMAIN d.keyToNode}
        BY <2>7, <2>8 DEF Keying
      <4> QED  BY <2>3, <2>4, <4>1
    <3>2. next = FamilyBase + Cardinality(DOMAIN nodes \cap FamilyKeys)
      <4> DEFINE known == DOMAIN d.keyToNode \cap FamilyKeys
      <4>1. /\ IsFiniteSet(known) /\ Cardinality(known) \in Nat
            /\ d.nextFamilyNode = FamilyBase + Cardinality(known)
        BY <2>7, KeysAreFinite, FS_Subset, FS_CardinalityType DEF Keying
      <4>2. CASE key \in FamilyKeys
        <5>1. DOMAIN nodes \cap FamilyKeys = known \cup {key} /\ key \notin known
          BY <1>3, <2>3, <4>2
        <5> HIDE DEF known
        <5>2. Cardinality(known \cup {key}) = Cardinality(known) + 1
          BY <4>1, <5>1, FS_AddElement
        <5> QED  BY <2>1, <4>1, <4>2, <5>1, <5>2 DEF next, FamilyBase
      <4>3. CASE key \notin FamilyKeys
        BY <2>3, <4>1, <4>3 DEF next
      <4> QED  BY <4>2, <4>3
    <3>3. \A k \in DOMAIN nodes : /\ k \in DocKeys => nodes[k] = DocNode
                                  /\ k \in FamilyKeys => nodes[k] \in FamilyBase .. next - 1
      <4>1. d.nextFamilyNode \in Nat /\ d.nextFamilyNode >= FamilyBase
        <5>1. Cardinality(DOMAIN d.keyToNode \cap FamilyKeys) \in Nat
          BY KeysAreFinite, FS_Subset, FS_CardinalityType
        <5> QED  BY <2>7, <5>1 DEF Keying, FamilyBase
      <4>2. next \in Nat /\ next >= d.nextFamilyNode
        BY <2>1, <4>1 DEF next
      <4>3. \A k \in DOMAIN d.keyToNode :
              /\ k \in DocKeys => nodes[k] = DocNode
              /\ k \in FamilyKeys => nodes[k] \in FamilyBase .. next - 1
        BY <2>7, <2>8, <4>1, <4>2 DEF Keying, FamilyBase
      <4>4. /\ key \in DocKeys => n = DocNode
            /\ key \in FamilyKeys => n \in FamilyBase .. next - 1
        BY <2>1, <4>1 DEF next, FamilyBase
      <4> QED  BY <2>3, <4>3, <4>4
    <3>4. \A k, l \in DOMAIN nodes : nodes[k] = nodes[l] => k = l
      <4>1. \A k, l \in DOMAIN d.keyToNode : nodes[k] = nodes[l] => k = l
        BY <2>7, <2>8 DEF Keying
      <4> QED  BY <2>1, <2>3, <2>8, <4>1
    <3> QED  BY <3>1, <3>2, <3>3, <3>4 DEF Keying
  <2>10. Folded(e) = Folded(d) /\ \A k : FoldedOf(e, k) = FoldedOf(d, k)
    BY <2>6 DEF Folded, FoldedOf
  <2>11. HoldsNewest(e)
    <3>1. \A o \in Folded(d) : o.key \in DOMAIN d.keyToNode
      BY <1>1 DEF HoldsNewest
    <3>2. ASSUME NEW k \in DOMAIN nodes
          PROVE  IsNewestOf(cells[nodes[k]], FoldedOf(d, k))
      <4>1. CASE k = key
        <5>1. FoldedOf(d, k) = {}
          BY <1>3, <3>1, <4>1 DEF FoldedOf
        <5> QED  BY <2>3, <2>4, <4>1, <5>1 DEF IsNewestOf
      <4>2. CASE k # key
        <5>1. k \in DOMAIN d.keyToNode /\ cells[nodes[k]] = d.cells[d.keyToNode[k]]
          BY <2>1, <2>3, <2>4, <2>8, <4>2
        <5> QED  BY <1>1, <5>1 DEF HoldsNewest
      <4> QED  BY <4>1, <4>2
    <3> QED  BY <2>3, <2>6, <2>10, <3>1, <3>2 DEF HoldsNewest
  <2>12. IsKeyed(e) /\ EditsFollow(e) /\ IsCovered(e) /\ Keeps(e, U) /\ HasReached(e)
    <3>1. IsKeyed(e)
      BY <2>6, <2>9 DEF IsKeyed
    <3>2. EditsFollow(e) /\ IsCovered(e)
      BY <1>1, <2>6 DEF EditsFollow, IsCovered
    <3>3. Keeps(e, U)
      BY <1>1, <2>6 DEF Keeps
    <3>4. HasReached(e)
      BY <1>1, <2>6, <2>10 DEF HasReached
    <3> QED  BY <3>1, <3>2, <3>3, <3>4
  <2> QED  BY <1>1, <2>3, <2>6, <2>10, <2>11, <2>12 DEF Sound
<1> QED  BY <1>2, <1>3

(* Merging an op into the cell of its key keeps every cell the newest. *)
LEMMA MergeHoldsNewest ==
  ASSUME NEW d \in ReplicaType, NEW e, NEW op \in Ops,
         IsKeyed(d), HoldsNewest(d), op.key \in DOMAIN d.keyToNode,
         e.keyToNode = d.keyToNode, e.nextFamilyNode = d.nextFamilyNode,
         e.cells = [d.cells EXCEPT ![d.keyToNode[op.key]] = Merge(@, op)],
         Folded(e) = Folded(d) \cup {op}
  PROVE  IsKeyed(e) /\ HoldsNewest(e) /\ e.cells \in Maps(NodeIds, Ops \cup {NoOp})
<1> DEFINE nodes == d.keyToNode
           n == nodes[op.key]
<1>1. Keying(nodes, d.cells, d.nextFamilyNode)
  BY DEF IsKeyed
<1>2. \A k \in DOMAIN nodes : nodes[k] \in DOMAIN d.cells
  BY <1>1 DEF Keying
<1>3. \A k \in DOMAIN nodes : k # op.key => nodes[k] # n
  BY <1>1 DEF Keying
<1>4. /\ DOMAIN d.cells \in SUBSET NodeIds
      /\ d.cells \in [DOMAIN d.cells -> Ops \cup {NoOp}]
  <2>1. d.cells \in Maps(NodeIds, Ops \cup {NoOp})
    BY ReplicaFields
  <2> QED  BY <2>1 DEF Maps
<1>5. /\ DOMAIN e.cells = DOMAIN d.cells
      /\ e.cells[n] = Merge(d.cells[n], op)
      /\ \A m \in DOMAIN d.cells : m # n => e.cells[m] = d.cells[m]
  BY <1>2
<1>6. e.cells \in Maps(NodeIds, Ops \cup {NoOp})
  <2>1. Merge(d.cells[n], op) \in Ops \cup {NoOp}
    BY <1>2, <1>4 DEF Merge
  <2>2. e.cells \in [DOMAIN d.cells -> Ops \cup {NoOp}]
    BY <1>4, <2>1
  <2> QED  BY <1>4, <2>2 DEF Maps
<1>7. IsKeyed(e)
  <2>1. DOMAIN e.cells = DOMAIN d.cells
    BY <1>5
  <2> HIDE DEF nodes
  <2>2. Keying(nodes, e.cells, d.nextFamilyNode)
    BY <1>1, <2>1 DEF Keying
  <2> QED  BY <2>2 DEF IsKeyed, nodes
<1>8. \A o \in Folded(d) : o \in Ops /\ o.stamp \in Stamps /\ o.key \in DOMAIN nodes
  <2>1. \A o \in Ops : o.stamp \in Stamps
    BY DEF Ops
  <2> QED  BY <2>1, ReplicaFields DEF HoldsNewest
<1>9. op.stamp \in Stamps /\ NoOp \notin Ops
  <2>1. 0 \notin NodeIds
    BY DEF NodeIds, DocNode
  <2> QED  BY <2>1 DEF Ops, NoOp
<1>10. ASSUME NEW k \in DOMAIN nodes, k # op.key
       PROVE  IsNewestOf(e.cells[nodes[k]], FoldedOf(e, k))
  <2>1. FoldedOf(e, k) = FoldedOf(d, k)
    BY <1>10 DEF FoldedOf
  <2>2. e.cells[nodes[k]] = d.cells[nodes[k]]
    BY <1>2, <1>3, <1>5, <1>10, SMTT(30)
  <2> QED  BY <1>10, <2>1, <2>2 DEF HoldsNewest
<1>11. IsNewestOf(e.cells[n], FoldedOf(e, op.key))
  <2> DEFINE F == FoldedOf(d, op.key)
             c == d.cells[n]
  <2>1. FoldedOf(e, op.key) = F \cup {op}
    BY DEF FoldedOf
  <2>2. IsNewestOf(c, F) /\ \A o \in F : o \in Ops /\ o.stamp \in Stamps
    BY <1>8 DEF HoldsNewest, FoldedOf
  <2> HIDE DEF F, c
  <2>3. \A o \in F \cup {op} : ~Before(Merge(c, op).stamp, o.stamp)
    <3>1. CASE c = NoOp
      <4>1. F = {} /\ Merge(c, op) = op
        BY <1>9, <2>2, <3>1 DEF IsNewestOf, Merge
      <4> QED  BY <1>9, <4>1, StampOrder
    <3>2. CASE c # NoOp /\ Before(c.stamp, op.stamp)
      <4>1. c \in F /\ c.stamp \in Stamps /\ \A o \in F : ~Before(c.stamp, o.stamp)
        BY <2>2, <3>2 DEF IsNewestOf
      <4>2. Merge(c, op) = op /\ ~Before(op.stamp, c.stamp) /\ ~Before(op.stamp, op.stamp)
        BY <1>9, <3>2, <4>1, StampOrder DEF Merge
      <4>3. \A o \in F : ~Before(op.stamp, o.stamp)
        BY <1>9, <2>2, <4>1, <4>2, StampOrder
      <4> QED  BY <4>2, <4>3
    <3>3. CASE c # NoOp /\ ~Before(c.stamp, op.stamp)
      BY <2>2, <3>3 DEF IsNewestOf, Merge
    <3> QED  BY <3>1, <3>2, <3>3
  <2>4. Merge(c, op) \in F \cup {op}
    BY <2>2 DEF IsNewestOf, Merge
  <2> QED  BY <1>5, <2>1, <2>3, <2>4 DEF IsNewestOf, c
<1>12. \A o \in Folded(e) : o.key \in DOMAIN e.keyToNode
  BY <1>8
<1> QED  BY <1>6, <1>7, <1>10, <1>11, <1>12 DEF HoldsNewest

(* One op of a frame. *)
LEMMA IngestOpIsSound ==
  ASSUME NEW U \in SUBSET Ops, IsApart(U), NEW r \in Peers, NEW d \in Sound(U, r),
         NEW op \in U, NEW now \in Readings, NEW e, e = IngestOp(d, op, now)
  PROVE  e \in Sound(U, r)
<1>1. CASE \E i \in DOMAIN d.ops : d.ops[i].node = op.node /\ d.ops[i].stamp = op.stamp
  BY <1>1 DEF IngestOp
<1>2. CASE ~ \E i \in DOMAIN d.ops : d.ops[i].node = op.node /\ d.ops[i].stamp = op.stamp
  <2> DEFINE h == Hear(d, op.stamp, now)
             m == Materialize(h, op.key, op.node)
             n == m.keyToNode[op.key]
  <2>1. /\ op \in Ops /\ op.stamp \in Stamps /\ op.key \in Keys
        /\ op.key \in DocKeys => op.node = DocNode
    BY DEF Ops
  <2>2. op.stamp.peer # r
    BY <1>2 DEF Sound, Keeps, ToSet
  <2>3. /\ h \in Sound(U, r) /\ h.ops = d.ops /\ h.silent = d.silent
        /\ Covers(h.frontier, op.stamp) /\ Reached(h.clock, op.stamp)
    BY <2>1, <2>2, HearIsSound
  <2> HIDE DEF h
  <2>4. /\ m \in Sound(U, r) /\ op.key \in DOMAIN m.keyToNode
        /\ m.clock = h.clock /\ m.ops = h.ops /\ m.silent = h.silent /\ m.frontier = h.frontier
    BY <2>1, <2>3, MaterializeIsSound
  <2>5. e = [m EXCEPT !.ops = Append(@, op), !.cells[n] = Merge(@, op)]
    BY <1>2 DEF IngestOp, h
  <2> HIDE DEF m
  <2>6. /\ m \in ReplicaType /\ m.peer = r /\ IsKeyed(m) /\ HoldsNewest(m) /\ IsApart(Folded(m))
        /\ HasReached(m) /\ EditsFollow(m) /\ IsCovered(m) /\ Names(m.frontier, U) /\ Keeps(m, U)
    BY <2>4 DEF Sound
  <2>7. /\ e.peer = r /\ e.clock = m.clock /\ e.keyToNode = m.keyToNode
        /\ e.nextFamilyNode = m.nextFamilyNode /\ e.frontier = m.frontier /\ e.silent = m.silent
        /\ e.ops = Append(m.ops, op) /\ e.cells = [m.cells EXCEPT ![n] = Merge(@, op)]
    BY <2>5, <2>6 DEF ReplicaType
  <2>8. /\ m.ops \in Seq(Ops) /\ e.ops \in Seq(Ops) /\ ToSet(e.ops) = ToSet(m.ops) \cup {op}
        /\ DOMAIN e.ops = DOMAIN m.ops \cup {Len(m.ops) + 1}
        /\ \A i \in DOMAIN m.ops : i \in 1 .. Len(m.ops) /\ e.ops[i] = m.ops[i]
        /\ e.ops[Len(m.ops) + 1] = op
    <3>1. m.ops \in Seq(Ops)
      BY <2>6, ReplicaFields
    <3> QED  BY <2>1, <2>7, <3>1, Logged
  <2>9. Folded(e) = Folded(m) \cup {op}
    BY <2>7, <2>8 DEF Folded
  <2>10. IsKeyed(e) /\ HoldsNewest(e) /\ e.cells \in Maps(NodeIds, Ops \cup {NoOp})
    BY <2>1, <2>4, <2>6, <2>7, <2>9, MergeHoldsNewest
  <2>11. e \in ReplicaType
    BY <2>5, <2>6, <2>7, <2>8, <2>10 DEF ReplicaType
  <2>12. Keeps(e, U)
    BY <2>6, <2>7, <2>8 DEF Keeps
  <2>13. IsApart(Folded(e))
    <3>1. \A o \in ToSet(m.ops) : o.stamp = op.stamp => o = op
      BY <2>6 DEF Keeps, IsApart
    <3>2. \A o \in m.silent : o.stamp # op.stamp
      BY <2>2, <2>6 DEF Keeps
    <3> QED  BY <2>6, <2>9, <3>1, <3>2 DEF IsApart, Folded
  <2>14. HasReached(e)
    BY <2>3, <2>4, <2>6, <2>7, <2>9 DEF HasReached
  <2>15. IsCovered(e)
    BY <2>3, <2>4, <2>6, <2>7, <2>8 DEF IsCovered
  <2>16. EditsFollow(e)
    <3> SUFFICES ASSUME NEW i \in DOMAIN e.ops, NEW j \in DOMAIN e.ops,
                        i < j, e.ops[j].stamp.peer = r
                 PROVE  Before(e.ops[i].stamp, e.ops[j].stamp)
      BY <2>7 DEF EditsFollow
    <3>1. j # Len(m.ops) + 1
      BY <2>2, <2>8
    <3>2. j \in DOMAIN m.ops /\ j <= Len(m.ops)
      BY <2>8, <3>1
    <3>3. i \in DOMAIN m.ops
      BY <2>8, <3>2
    <3> QED  BY <2>6, <2>8, <3>2, <3>3 DEF EditsFollow
  <2> QED  BY <2>6, <2>7, <2>10, <2>11, <2>12, <2>13, <2>14, <2>15, <2>16 DEF Sound
<1> QED  BY <1>1, <1>2

(* All the stamps of a frontier. *)
LEMMA HearAllIsSound ==
  ASSUME NEW U \in SUBSET Ops, NEW r \in Peers, NEW d \in Sound(U, r),
         NEW fr \in Maps(Peers, Stamps), Names(fr, U), NEW now \in Readings
  PROVE  HearAll(d, fr, now) \in Sound(U, r)
<1> DEFINE S == DOMAIN fr
           D == Sound(U, r)
           IsFold(f) ==
             f = [s \in SUBSET S |-> IF s = {} THEN d
                                     ELSE Hear(f[s \ {Max(s)}], fr[Max(s)], now)]
           step == [x \in S \X D |-> Hear(x[2], fr[x[1]], now)]
           iter == CHOOSE f : IsFold(f)
           G == [s \in SUBSET S |-> D]
<1>1. S \in SUBSET Nat /\ IsFiniteSet(S)
  <2>1. S \subseteq Peers
    BY MapFields
  <2> QED  BY <2>1, PeersAssumption, FS_Subset
<1>2. \A s \in SUBSET S : s # {} => Max(s) \in s /\ s \ {Max(s)} \in SUBSET S
  <2>1. \A s \in SUBSET S : s \in SUBSET Nat /\ IsFiniteSet(s)
    BY <1>1, FS_Subset
  <2> QED  BY <2>1, MaxIsGreatest
<1>3. \A p \in S, e \in D : Hear(e, fr[p], now) \in D
  <2> TAKE p \in S, e \in D
  <2>1. PICK o \in U : o.stamp = fr[p]
    BY DEF Names
  <2>2. o.stamp \in Stamps
    BY DEF Ops
  <2> QED  BY <2>1, <2>2, HearIsSound
<1>4. step \in [S \X D -> D]
  BY <1>3
<1>5. \E f : IsFold(f)
  <2> HIDE DEF step, S, D
  <2>1. PICK f \in [SUBSET S -> D] : IsFoldOf(f, S, d, step)
    <3>1. d \in D
      BY DEF D
    <3>2. S \in SUBSET Nat /\ IsFiniteSet(S) /\ step \in [S \X D -> D]
      BY <1>1, <1>4
    <3> HIDE DEF IsFold, iter, G
    <3> QED  BY <3>1, <3>2, FoldExists
  <2>2. ASSUME NEW s \in SUBSET S, s # {}
        PROVE  f[s] = Hear(f[s \ {Max(s)}], fr[Max(s)], now)
    <3>1. Max(s) \in S /\ f[s \ {Max(s)}] \in D
      BY <1>2, <2>2
    <3> QED  BY <2>1, <2>2, <3>1 DEF step, IsFoldOf
  <2>3. IsFold(f)
    BY <2>1, <2>2 DEF IsFoldOf
  <2> QED  BY <2>3
<1>6. IsFold(iter)
  BY <1>5
<1>7. HearAll(d, fr, now) = iter[S]
  BY Zenon DEF HearAll, MapThenFoldSet
<1> HIDE DEF iter, S, D
<1>8. iter[{}] \in G[{}]
  <2>1. {} \in SUBSET S
    OBVIOUS
  <2> QED  BY <1>6, <2>1 DEF D
<1>9. ASSUME NEW s \in SUBSET S, s # {}, iter[s \ {Max(s)}] \in G[s \ {Max(s)}]
      PROVE  iter[s] \in G[s]
  <2>1. Max(s) \in S /\ iter[s \ {Max(s)}] \in D
    BY <1>2, <1>9
  <2>2. iter[s] = Hear(iter[s \ {Max(s)}], fr[Max(s)], now)
    BY <1>6, <1>9
  <2> QED  BY <1>3, <2>1, <2>2
<1> HIDE DEF G
<1>10. iter[S] \in G[S]
  BY <1>1, <1>8, <1>9, FoldStays
<1> QED  BY <1>7, <1>10 DEF G, D

(* All the ops of a frame. *)
LEMMA IngestAllIsSound ==
  ASSUME NEW U \in SUBSET Ops, IsApart(U), NEW r \in Peers, NEW d \in Sound(U, r),
         NEW q \in Seq(Ops), ToSet(q) \subseteq U, NEW now \in Readings
  PROVE  IngestAll(d, q, now) \in Sound(U, r)
<1> DEFINE S == DOMAIN q
           D == Sound(U, r)
           IsFold(f) ==
             f = [s \in SUBSET S |-> IF s = {} THEN d
                                     ELSE IngestOp(f[s \ {Max(s)}], q[Max(s)], now)]
           step == [x \in S \X D |-> IngestOp(x[2], q[x[1]], now)]
           iter == CHOOSE f : IsFold(f)
           G == [s \in SUBSET S |-> D]
<1>1. S \in SUBSET Nat /\ IsFiniteSet(S)
  <2>1. S = 1 .. Len(q) /\ Len(q) \in Nat
    OBVIOUS
  <2> QED  BY <2>1, FS_Interval
<1>2. \A s \in SUBSET S : s # {} => Max(s) \in s /\ s \ {Max(s)} \in SUBSET S
  <2>1. \A s \in SUBSET S : s \in SUBSET Nat /\ IsFiniteSet(s)
    BY <1>1, FS_Subset
  <2> QED  BY <2>1, MaxIsGreatest
<1>3. \A i \in S, e \in D : IngestOp(e, q[i], now) \in D
  <2> TAKE i \in S, e \in D
  <2>1. q[i] \in U
    BY DEF ToSet
  <2> QED  BY <2>1, IngestOpIsSound
<1>4. step \in [S \X D -> D]
  BY <1>3
<1>5. \E f : IsFold(f)
  <2> HIDE DEF step, S, D
  <2>1. PICK f \in [SUBSET S -> D] : IsFoldOf(f, S, d, step)
    <3>1. d \in D
      BY DEF D
    <3>2. S \in SUBSET Nat /\ IsFiniteSet(S) /\ step \in [S \X D -> D]
      BY <1>1, <1>4
    <3> HIDE DEF IsFold, iter, G
    <3> QED  BY <3>1, <3>2, FoldExists
  <2>2. ASSUME NEW s \in SUBSET S, s # {}
        PROVE  f[s] = IngestOp(f[s \ {Max(s)}], q[Max(s)], now)
    <3>1. Max(s) \in S /\ f[s \ {Max(s)}] \in D
      BY <1>2, <2>2
    <3> QED  BY <2>1, <2>2, <3>1 DEF step, IsFoldOf
  <2>3. IsFold(f)
    BY <2>1, <2>2 DEF IsFoldOf
  <2> QED  BY <2>3
<1>6. IsFold(iter)
  BY <1>5
<1>7. IngestAll(d, q, now) = iter[S]
  BY Zenon DEF IngestAll, FoldLeft, MapThenFoldSet
<1> HIDE DEF iter, S, D
<1>8. iter[{}] \in G[{}]
  <2>1. {} \in SUBSET S
    OBVIOUS
  <2> QED  BY <1>6, <2>1 DEF D
<1>9. ASSUME NEW s \in SUBSET S, s # {}, iter[s \ {Max(s)}] \in G[s \ {Max(s)}]
      PROVE  iter[s] \in G[s]
  <2>1. Max(s) \in S /\ iter[s \ {Max(s)}] \in D
    BY <1>2, <1>9
  <2>2. iter[s] = IngestOp(iter[s \ {Max(s)}], q[Max(s)], now)
    BY <1>6, <1>9
  <2> QED  BY <1>3, <2>1, <2>2
<1> HIDE DEF G
<1>10. iter[S] \in G[S]
  BY <1>1, <1>8, <1>9, FoldStays
<1> QED  BY <1>7, <1>10 DEF G, D

(* Of a log, a reply ships what the frontier of the request does not cover. *)
LEMMA SinceLeavesTheCovered ==
  ASSUME NEW d, d.ops \in Seq(Ops), NEW fr
  PROVE  /\ Since(d, fr) \in Seq(Ops) /\ ToSet(Since(d, fr)) \subseteq ToSet(d.ops)
         /\ \A o \in ToSet(d.ops) : Covers(fr, o.stamp) \/ o \in ToSet(Since(d, fr))
<1> DEFINE q == d.ops
           S == DOMAIN q
           D == Seq(Ops)
           Kept(kept, op) == IF Covers(fr, op.stamp) THEN kept ELSE Append(kept, op)
           IsFold(f) ==
             f = [s \in SUBSET S |-> IF s = {} THEN <<>> ELSE Kept(f[s \ {Max(s)}], q[Max(s)])]
           step == [x \in S \X D |-> Kept(x[2], q[x[1]])]
           iter == CHOOSE f : IsFold(f)
           G == [s \in SUBSET S |->
                   {k \in D : /\ ToSet(k) \subseteq ToSet(q)
                              /\ \A i \in s : Covers(fr, q[i].stamp) \/ q[i] \in ToSet(k)}]
<1>1. S \in SUBSET Nat /\ IsFiniteSet(S)
  <2>1. S = 1 .. Len(q) /\ Len(q) \in Nat
    OBVIOUS
  <2> QED  BY <2>1, FS_Interval
<1>2. \A s \in SUBSET S : s # {} => Max(s) \in s /\ s \ {Max(s)} \in SUBSET S
  <2>1. \A s \in SUBSET S : s \in SUBSET Nat /\ IsFiniteSet(s)
    BY <1>1, FS_Subset
  <2> QED  BY <2>1, MaxIsGreatest
<1>3. \A i \in S, k \in D :
        /\ Kept(k, q[i]) \in D
        /\ ToSet(k) \subseteq ToSet(Kept(k, q[i]))
        /\ ToSet(Kept(k, q[i])) \subseteq ToSet(k) \cup {q[i]}
        /\ Covers(fr, q[i].stamp) \/ q[i] \in ToSet(Kept(k, q[i]))
  <2> TAKE i \in S, k \in D
  <2>1. q[i] \in Ops
    OBVIOUS
  <2>2. Append(k, q[i]) \in D /\ ToSet(Append(k, q[i])) = ToSet(k) \cup {q[i]}
    BY <2>1, Logged
  <2> HIDE DEF q
  <2> QED  BY <2>2
<1>4. step \in [S \X D -> D]
  BY <1>3
<1>5. \E f : IsFold(f)
  <2> HIDE DEF step, S, D, q
  <2>1. PICK f \in [SUBSET S -> D] : IsFoldOf(f, S, <<>>, step)
    <3>1. <<>> \in D
      BY DEF D
    <3>2. S \in SUBSET Nat /\ IsFiniteSet(S) /\ step \in [S \X D -> D]
      BY <1>1, <1>4
    <3> HIDE DEF IsFold, iter, G
    <3> QED  BY <3>1, <3>2, FoldExists
  <2> HIDE DEF Kept
  <2>2. ASSUME NEW s \in SUBSET S, s # {}
        PROVE  f[s] = Kept(f[s \ {Max(s)}], q[Max(s)])
    <3>1. Max(s) \in S /\ f[s \ {Max(s)}] \in D
      BY <1>2, <2>2
    <3> QED  BY <2>1, <2>2, <3>1 DEF step, IsFoldOf
  <2>3. IsFold(f)
    BY <2>1, <2>2, Zenon DEF IsFoldOf
  <2> QED  BY <2>3
<1>6. IsFold(iter)
  BY <1>5, Zenon
<1>7. Since(d, fr) = iter[S]
  BY Zenon DEF Since, FoldLeft, MapThenFoldSet
<1> HIDE DEF iter, S, D, Kept, q
<1>8. iter[{}] \in G[{}]
  <2>1. {} \in SUBSET S
    OBVIOUS
  <2>2. iter[{}] = <<>> /\ <<>> \in D /\ ToSet(<<>>) = {}
    BY <1>6, <2>1 DEF D, ToSet
  <2> QED  BY <2>1, <2>2
<1>9. ASSUME NEW s \in SUBSET S, s # {}, iter[s \ {Max(s)}] \in G[s \ {Max(s)}]
      PROVE  iter[s] \in G[s]
  <2> DEFINE k == iter[s \ {Max(s)}]
             i == Max(s)
  <2>1. /\ i \in S /\ i \in s /\ k \in D /\ ToSet(k) \subseteq ToSet(q)
        /\ \A j \in s \ {i} : Covers(fr, q[j].stamp) \/ q[j] \in ToSet(k)
    BY <1>2, <1>9
  <2>2. iter[s] = Kept(k, q[i])
    BY <1>6, <1>9
  <2>3. q[i] \in ToSet(q)
    BY <2>1 DEF S, ToSet
  <2> HIDE DEF k, i
  <2>4. iter[s] \in D /\ ToSet(iter[s]) \subseteq ToSet(q)
    BY <1>3, <2>1, <2>2, <2>3
  <2>5. \A j \in s : Covers(fr, q[j].stamp) \/ q[j] \in ToSet(iter[s])
    BY <1>3, <2>1, <2>2
  <2> QED  BY <2>4, <2>5
<1>10. iter[S] \in G[S]
  <2> HIDE DEF G
  <2> QED  BY <1>1, <1>8, <1>9, FoldStays
<1>11. /\ iter[S] \in D /\ ToSet(iter[S]) \subseteq ToSet(q)
       /\ \A i \in S : Covers(fr, q[i].stamp) \/ q[i] \in ToSet(iter[S])
  BY <1>10
<1>12. \A o \in ToSet(q) : Covers(fr, o.stamp) \/ o \in ToSet(iter[S])
  BY <1>11 DEF ToSet, S
<1> QED  BY <1>7, <1>11, <1>12 DEF D, q

(* An edit of its own, stamped after all that the replica has taken, *)
Edited(d, clock, op) ==
  [d EXCEPT !.clock = clock, !.cells[d.keyToNode[op.key]] = Merge(@, op)]

LoggedEdit(d, clock, op) ==
  Observe([Edited(d, clock, op) EXCEPT !.ops = Append(@, op)], op.stamp)

SilentEdit(d, clock, op) == [Edited(d, clock, op) EXCEPT !.silent = @ \cup {op}]

Passes(clock, s, past) ==
  /\ Reached(clock, s)
  /\ \A t \in Stamps : Reached(past, t) => Reached(clock, t) /\ Before(t, s)

(* is logged and joins the ops of U, or it is kept silent. *)
LEMMA EditIsSound ==
  ASSUME NEW U \in SUBSET Ops, NEW r \in Peers, NEW d \in Sound(U, r),
         NEW op \in Ops, op.stamp.peer = r, op.key \in DOMAIN d.keyToNode,
         NEW clock \in Clocks, Passes(clock, op.stamp, d.clock)
  PROVE  /\ LoggedEdit(d, clock, op) \in Sound(U \cup {op}, r)
         /\ LoggedEdit(d, clock, op).clock = clock
         /\ SilentEdit(d, clock, op) \in Sound(U, r)
         /\ SilentEdit(d, clock, op).clock = clock
<1> DEFINE n == d.keyToNode[op.key]
           cells == [d.cells EXCEPT ![n] = Merge(@, op)]
           s == op.stamp
           fr == IF s.peer \in DOMAIN d.frontier /\ ~Before(d.frontier[s.peer], s) THEN d.frontier
                 ELSE Put(d.frontier, s.peer, s)
           logged == LoggedEdit(d, clock, op)
           silent == SilentEdit(d, clock, op)
<1>1. /\ d \in ReplicaType /\ d.peer = r /\ IsKeyed(d) /\ HoldsNewest(d) /\ IsApart(Folded(d))
      /\ HasReached(d) /\ EditsFollow(d) /\ IsCovered(d) /\ Names(d.frontier, U) /\ Keeps(d, U)
  BY DEF Sound
<1>2. s \in Stamps /\ \A o \in Folded(d) : o.stamp \in Stamps
  <2>1. \A o \in Ops : o.stamp \in Stamps
    BY DEF Ops
  <2> QED  BY <1>1, <2>1, ReplicaFields
<1>3. \A o \in Folded(d) : Reached(clock, o.stamp) /\ Before(o.stamp, s) /\ o.stamp # s
  <2>1. \A o \in Folded(d) : Reached(clock, o.stamp) /\ Before(o.stamp, s)
    BY <1>1, <1>2 DEF HasReached, Passes
  <2> QED  BY <1>2, <2>1, StampOrder
<1>4. /\ fr \in Maps(Peers, Stamps) /\ Covers(fr, s)
      /\ \A t \in Stamps : Covers(d.frontier, t) => Covers(fr, t)
      /\ \A p \in DOMAIN fr :
           (p \in DOMAIN d.frontier /\ fr[p] = d.frontier[p]) \/ (p = s.peer /\ fr[p] = s)
  BY <1>1, <1>2, ObserveCovers, ReplicaFields
<1>5. logged = [d EXCEPT !.clock = clock, !.cells = cells, !.ops = Append(@, op), !.frontier = fr]
  BY <1>1 DEF Observe, ReplicaType, LoggedEdit, Edited
<1>6. silent = [d EXCEPT !.clock = clock, !.cells = cells, !.silent = @ \cup {op}]
  BY <1>1 DEF ReplicaType, SilentEdit, Edited
<1> HIDE DEF fr, cells, logged, silent
<1>7. /\ logged.peer = r /\ logged.clock = clock /\ logged.keyToNode = d.keyToNode
      /\ logged.nextFamilyNode = d.nextFamilyNode /\ logged.frontier = fr
      /\ logged.silent = d.silent /\ logged.ops = Append(d.ops, op) /\ logged.cells = cells
  BY <1>1, <1>5 DEF ReplicaType
<1>8. /\ silent.peer = r /\ silent.clock = clock /\ silent.keyToNode = d.keyToNode
      /\ silent.nextFamilyNode = d.nextFamilyNode /\ silent.frontier = d.frontier
      /\ silent.silent = d.silent \cup {op} /\ silent.ops = d.ops /\ silent.cells = cells
  BY <1>1, <1>6 DEF ReplicaType
<1>9. /\ d.ops \in Seq(Ops) /\ logged.ops \in Seq(Ops) /\ ToSet(logged.ops) = ToSet(d.ops) \cup {op}
      /\ DOMAIN logged.ops = DOMAIN d.ops \cup {Len(d.ops) + 1}
      /\ \A i \in DOMAIN d.ops : i \in 1 .. Len(d.ops) /\ logged.ops[i] = d.ops[i]
      /\ logged.ops[Len(d.ops) + 1] = op
  <2>1. d.ops \in Seq(Ops)
    BY <1>1, ReplicaFields
  <2> QED  BY <1>7, <2>1, Logged
<1>10. Folded(logged) = Folded(d) \cup {op} /\ Folded(silent) = Folded(d) \cup {op}
  BY <1>7, <1>8, <1>9 DEF Folded
<1>11. IsKeyed(logged) /\ HoldsNewest(logged) /\ cells \in Maps(NodeIds, Ops \cup {NoOp})
  <2>1. logged.cells = [d.cells EXCEPT ![d.keyToNode[op.key]] = Merge(@, op)]
    BY <1>7 DEF cells
  <2> QED  BY <1>1, <1>7, <1>10, <2>1, MergeHoldsNewest
<1>12. IsKeyed(silent) /\ HoldsNewest(silent)
  <2>1. silent.cells = [d.cells EXCEPT ![d.keyToNode[op.key]] = Merge(@, op)]
    BY <1>8 DEF cells
  <2> QED  BY <1>1, <1>8, <1>10, <2>1, MergeHoldsNewest
<1>13. logged \in ReplicaType /\ silent \in ReplicaType
  <2>1. logged \in ReplicaType
    BY <1>1, <1>4, <1>5, <1>7, <1>9, <1>11 DEF ReplicaType, Clocks
  <2>2. silent \in ReplicaType
    BY <1>1, <1>6, <1>8, <1>11 DEF ReplicaType, Clocks
  <2> QED  BY <2>1, <2>2
<1>14. IsApart(Folded(d) \cup {op})
  BY <1>1, <1>3 DEF IsApart
<1>15. HasReached(logged) /\ HasReached(silent)
  BY <1>3, <1>7, <1>8, <1>10 DEF HasReached, Passes
<1>16. EditsFollow(silent) /\ IsCovered(silent) /\ Keeps(silent, U) /\ Names(silent.frontier, U)
  <2>1. EditsFollow(silent)
    BY <1>1, <1>8 DEF EditsFollow
  <2>2. IsCovered(silent)
    BY <1>1, <1>8 DEF IsCovered
  <2>3. Keeps(silent, U)
    BY <1>1, <1>8 DEF Keeps
  <2> QED  BY <1>1, <1>8, <2>1, <2>2, <2>3
<1>17. EditsFollow(logged)
  <2> SUFFICES ASSUME NEW i \in DOMAIN logged.ops, NEW j \in DOMAIN logged.ops,
                      i < j, logged.ops[j].stamp.peer = r
               PROVE  Before(logged.ops[i].stamp, logged.ops[j].stamp)
    BY <1>7 DEF EditsFollow
  <2>1. i \in DOMAIN d.ops
    BY <1>9
  <2>2. CASE j = Len(d.ops) + 1
    <3>1. d.ops[i] \in Folded(d)
      BY <2>1 DEF Folded, ToSet
    <3> QED  BY <1>3, <1>9, <2>1, <2>2, <3>1
  <2>3. CASE j \in DOMAIN d.ops
    BY <1>1, <1>9, <2>1, <2>3 DEF EditsFollow
  <2> QED  BY <1>9, <2>2, <2>3
<1>18. IsCovered(logged)
  BY <1>1, <1>2, <1>4, <1>7, <1>9, ReplicaFields DEF IsCovered
<1>19. Names(logged.frontier, U \cup {op})
  BY <1>1, <1>4, <1>7 DEF Names
<1>20. Keeps(logged, U \cup {op})
  BY <1>1, <1>7, <1>9 DEF Keeps
<1>21. silent \in Sound(U, r)
  BY <1>8, <1>10, <1>12, <1>13, <1>14, <1>15, <1>16 DEF Sound
<1>22. logged \in Sound(U \cup {op}, r)
  BY <1>7, <1>10, <1>11, <1>13, <1>14, <1>15, <1>17, <1>18, <1>19, <1>20 DEF Sound
<1> QED  BY <1>7, <1>8, <1>21, <1>22 DEF logged, silent

(* The edit of one peer is none of another's. *)
LEMMA OthersStaySound ==
  ASSUME NEW U, NEW q \in Peers, NEW d \in Sound(U, q), NEW op, op.stamp.peer # q
  PROVE  d \in Sound(U \cup {op}, q)
<1>1. d.peer = q /\ Names(d.frontier, U) /\ Keeps(d, U)
  BY DEF Sound
<1>2. Names(d.frontier, U \cup {op})
  BY <1>1 DEF Names
<1>3. Keeps(d, U \cup {op})
  BY <1>1 DEF Keeps
<1> QED  BY <1>2, <1>3 DEF Sound

LEMMA FramesStaySound ==
  ASSUME NEW U, NEW V, U \subseteq V, NEW m, IsFrame(m, U)
  PROVE  IsFrame(m, V)
  BY DEF IsFrame, Names

(* All that replicas have logged. *)
LEMMA IssuedIsApart ==
  ASSUME IInv
  PROVE  /\ Issued \in SUBSET Ops /\ IsApart(Issued)
         /\ \A o \in Issued : o.stamp.peer \in Peers /\ o \in ToSet(replica[o.stamp.peer].ops)
<1>1. \A r \in Peers : /\ replica[r] \in ReplicaType /\ replica[r].peer = r
                       /\ IsApart(Folded(replica[r])) /\ Keeps(replica[r], Issued)
  BY DEF IInv, Sound
<1>2. \A r \in Peers : ToSet(replica[r].ops) \in SUBSET Ops
  BY <1>1, ReplicaFields DEF Folded
<1>3. Issued \in SUBSET Ops
  BY <1>2 DEF Issued
<1>4. \A o \in Issued : o.stamp.peer \in Peers
  BY <1>3 DEF Ops, Stamps
<1>5. \A o \in Issued : o \in ToSet(replica[o.stamp.peer].ops)
  BY <1>1, <1>4 DEF Keeps
<1>6. IsApart(Issued)
  BY <1>1, <1>4, <1>5 DEF IsApart, Folded
<1> QED  BY <1>3, <1>4, <1>5, <1>6

-----------------------------------------------------------------------------
(* The invariant holds at first and after every step. *)

LEMMA NewReplicaIsSound ==
  ASSUME NEW r \in Peers
  PROVE  NewReplica(r) \in Sound({}, r)
<1> DEFINE docs == IF r \in Registered THEN DocKeys ELSE {}
           nodes == [k \in docs |-> DocNode]
           cells == [n \in {DocNode : k \in docs} |-> NoOp]
           d == NewReplica(r)
<1>1. /\ d.peer = r /\ d.clock = [wall |-> 0, logical |-> 0] /\ d.keyToNode = nodes
      /\ d.cells = cells /\ d.nextFamilyNode = FamilyBase /\ d.ops = <<>>
      /\ d.frontier = <<>> /\ d.silent = {}
  BY DEF NewReplica
<1>2. docs \subseteq DocKeys /\ docs \subseteq Keys /\ docs \cap FamilyKeys = {}
  BY KeysAssumption DEF Keys
<1>3. DocNode \in NodeIds
  BY KeysAreFinite DEF NodeIds, FamilyBase, DocNode
<1> HIDE DEF docs
<1>4. nodes \in Maps(Keys, NodeIds)
  <2>1. nodes \in [docs -> NodeIds]
    BY <1>3
  <2> QED  BY <1>2, <2>1, MapIsTyped
<1>5. cells \in Maps(NodeIds, Ops \cup {NoOp})
  <2>1. cells \in [{DocNode : k \in docs} -> Ops \cup {NoOp}] /\ {DocNode : k \in docs} \in SUBSET NodeIds
    BY <1>3
  <2> QED  BY <2>1, MapIsTyped
<1>6. <<>> \in Maps(Peers, Stamps) /\ <<>> \in Seq(Ops) /\ DOMAIN <<>> = {} /\ ToSet(<<>>) = {}
  <2>1. <<>> \in [{} -> Stamps]
    OBVIOUS
  <2>2. <<>> \in Maps(Peers, Stamps)
    BY <2>1, MapIsTyped
  <2> QED  BY <2>2 DEF ToSet
<1>7. d \in ReplicaType
  <2>1. d = [peer |-> r, clock |-> [wall |-> 0, logical |-> 0], keyToNode |-> nodes,
             cells |-> cells, nextFamilyNode |-> FamilyBase,
             ops |-> <<>>, frontier |-> <<>>, silent |-> {}]
    BY DEF NewReplica, docs
  <2>2. FamilyBase \in Nat /\ [wall |-> 0, logical |-> 0] \in [wall : 0 .. MaxWall, logical : Nat]
    BY BoundsAssumption DEF FamilyBase
  <2> HIDE DEF d, nodes, cells
  <2> QED  BY <1>4, <1>5, <1>6, <2>1, <2>2 DEF ReplicaType
<1>8. IsKeyed(d)
  <2>1. DOMAIN nodes = docs /\ DOMAIN cells = {DocNode : k \in docs} /\ \A k \in docs : nodes[k] = DocNode
    OBVIOUS
  <2> HIDE DEF nodes, cells
  <2>2. DOMAIN cells = {nodes[k] : k \in DOMAIN nodes}
    BY <2>1
  <2>3. FamilyBase = FamilyBase + Cardinality(DOMAIN nodes \cap FamilyKeys)
    BY <1>2, <2>1, FS_EmptySet DEF FamilyBase
  <2>4. /\ \A k \in DOMAIN nodes : k \in DocKeys /\ k \notin FamilyKeys /\ nodes[k] = DocNode
        /\ \A k, l \in DOMAIN nodes : k = l
    BY <1>2, <2>1, KeysAreFinite
  <2>5. Keying(nodes, cells, FamilyBase)
    BY <2>2, <2>3, <2>4 DEF Keying
  <2> HIDE DEF d
  <2> QED  BY <1>1, <2>5 DEF IsKeyed
<1> HIDE DEF d
<1>9. Folded(d) = {} /\ \A k : FoldedOf(d, k) = {}
  BY <1>1, <1>6 DEF Folded, FoldedOf
<1>10. HoldsNewest(d)
  BY <1>1, <1>9 DEF HoldsNewest, IsNewestOf
<1>11. IsApart(Folded(d)) /\ HasReached(d)
  BY <1>9 DEF IsApart, HasReached
<1>12. EditsFollow(d) /\ IsCovered(d)
  BY <1>1, <1>6 DEF EditsFollow, IsCovered
<1>13. Names(d.frontier, {}) /\ Keeps(d, {})
  BY <1>1, <1>6 DEF Names, Keeps
<1> QED  BY <1>1, <1>7, <1>8, <1>10, <1>11, <1>12, <1>13 DEF Sound, d

LEMMA InitIInv ==
  ASSUME Init
  PROVE  IInv
<1>1. DOMAIN replica = Peers /\ \A r \in Peers : replica[r] = NewReplica(r)
  BY DEF Init
<1>2. \A r \in Peers : NewReplica(r).ops = <<>> /\ NewReplica(r).clock.logical = 0
  BY DEF NewReplica
<1>3. ToSet(<<>>) = {}
  BY DEF ToSet
<1>4. Issued = {}
  BY <1>1, <1>2, <1>3 DEF Issued
<1>5. \A r \in Peers : replica[r] \in Sound(Issued, r) /\ replica[r].clock.logical <= MaxLogical
  BY <1>1, <1>2, <1>4, NewReplicaIsSound, BoundsAssumption
<1>6. net = {} /\ updates \in 0 .. MaxUpdates /\ frames \in 0 .. MaxFrames
  BY BoundsAssumption DEF Init
<1> QED  BY <1>1, <1>5, <1>6 DEF IInv

(* One replica changes, and the ops it newly issues are its own. *)
LEMMA IssuedAfter ==
  ASSUME IInv, NEW r \in Peers, NEW V, NEW d, d \in Sound(V, r), Issued \subseteq V,
         \A o \in V : o \in Issued \/ o.stamp.peer = r,
         replica' = [replica EXCEPT ![r] = d]
  PROVE  Issued' = V
<1>1. DOMAIN replica = Peers /\ replica'[r] = d
      /\ \A q \in Peers : q # r => replica'[q] = replica[q]
  BY DEF IInv
<1>2. ToSet(d.ops) \subseteq V /\ \A o \in V : o.stamp.peer = r => o \in ToSet(d.ops)
  BY DEF Sound, Keeps
<1>3. \A q \in Peers : ToSet(replica[q].ops) \subseteq Issued
  BY DEF Issued
<1>4. Issued' = UNION {ToSet(replica'[q].ops) : q \in Peers}
  BY DEF Issued
<1>5. \A q \in Peers : ToSet(replica'[q].ops) \subseteq V
  BY <1>1, <1>2, <1>3
<1>6. \A o \in V : \E q \in Peers : o \in ToSet(replica'[q].ops)
  <2> TAKE o \in V
  <2>1. CASE o.stamp.peer = r
    BY <1>1, <1>2, <2>1
  <2>2. CASE o.stamp.peer # r
    <3>1. o \in Issued
      BY <2>2
    <3>2. o.stamp.peer \in Peers /\ o \in ToSet(replica[o.stamp.peer].ops)
      BY <3>1, IssuedIsApart
    <3> QED  BY <1>1, <2>2, <3>2
  <2> QED  BY <2>1, <2>2
<1> QED  BY <1>4, <1>5, <1>6

(* A frame a replica of the invariant sends. *)
LEMMA FrameIsHonest ==
  ASSUME NEW U, NEW r, NEW d \in Sound(U, r), NEW q \in Seq(Ops), ToSet(q) \subseteq U
  PROVE  IsFrame(Frame(d, q), U)
<1>1. d.frontier \in Maps(Peers, Stamps) /\ Names(d.frontier, U)
  BY ReplicaFields DEF Sound
<1> QED  BY <1>1 DEF Frame, IsFrame

LEMMA LocalUpdateStep ==
  ASSUME IInv, NEW r \in Peers, NEW key \in Keys, NEW state \in Values, NEW now \in Readings,
         LocalUpdate(r, key, state, now)
  PROVE  IInv'
<1> DEFINE U == Issued
           d == IF key \in FamilyKeys THEN Materialize(replica[r], key, 0) ELSE replica[r]
           clock == Send(d.clock, now)
           node == d.keyToNode[key]
           op == [node |-> node, key |-> key, state |-> state,
                  stamp |-> [wall |-> clock.wall, logical |-> clock.logical, peer |-> r]]
           logged == LoggedEdit(d, clock, op)
           silent == SilentEdit(d, clock, op)
<1>1. /\ updates < MaxUpdates /\ updates' = updates + 1 /\ frames' = frames
      /\ key \in FamilyKeys \cup DOMAIN replica[r].keyToNode
      /\ clock.logical <= MaxLogical
      /\ \/ replica' = [replica EXCEPT ![r] = logged] /\ net' = net \cup {Frame(logged, <<op>>)}
         \/ replica' = [replica EXCEPT ![r] = silent] /\ net' = net
  BY DEF LocalUpdate, LoggedEdit, SilentEdit, Edited
<1>2. /\ DOMAIN replica = Peers /\ updates \in 0 .. MaxUpdates /\ frames \in 0 .. MaxFrames
      /\ \A q \in Peers : replica[q] \in Sound(U, q) /\ replica[q].clock.logical <= MaxLogical
      /\ \A m \in net : IsFrame(m, U)
  BY DEF IInv
<1>3. U \in SUBSET Ops
  BY IssuedIsApart
<1>4. d \in Sound(U, r) /\ key \in DOMAIN d.keyToNode /\ key \in Keys
  <2>1. CASE key \in FamilyKeys
    <3>1. key \notin DocKeys
      BY <2>1, KeysAssumption
    <3>2. d = Materialize(replica[r], key, 0) /\ replica[r] \in Sound(U, r)
      BY <1>2, <2>1
    <3> HIDE DEF d, U
    <3> QED  BY <3>1, <3>2, MaterializeIsSound
  <2>2. CASE key \notin FamilyKeys
    BY <1>1, <1>2, <2>2
  <2> QED  BY <2>1, <2>2
<1> HIDE DEF U, d
<1>5. /\ d \in ReplicaType /\ d.peer = r /\ IsKeyed(d) /\ d.clock \in Clocks
      /\ d.keyToNode \in Maps(Keys, NodeIds)
  BY <1>4, ReplicaFields DEF Sound
<1>6. /\ clock \in Clocks /\ clock.wall \in Readings
      /\ \A s \in Stamps : Reached(d.clock, s) => Reached(clock, s) /\ Before(s, op.stamp)
  <2>1. op.stamp = [wall |-> clock.wall, logical |-> clock.logical, peer |-> r]
    OBVIOUS
  <2> HIDE DEF op
  <2> QED  BY <1>5, <2>1, SendIsPast
<1> HIDE DEF clock
<1>7. op.stamp \in Stamps /\ op.stamp.peer = r /\ Reached(clock, op.stamp)
  BY <1>1, <1>6 DEF Stamps, Clocks, Reached
<1>8. op \in Ops
  <2>1. node \in NodeIds /\ (key \in DocKeys => node = DocNode)
    <3>1. Keying(d.keyToNode, d.cells, d.nextFamilyNode)
      BY <1>5 DEF IsKeyed
    <3>2. key \in DocKeys => node = DocNode
      BY <1>4, <3>1 DEF Keying
    <3>3. node \in NodeIds
      BY <1>4, <1>5, MapFields
    <3> QED  BY <3>2, <3>3
  <2> HIDE DEF node
  <2> QED  BY <1>4, <1>7, <2>1 DEF Ops
<1>9. op.key \in DOMAIN d.keyToNode
  BY <1>4
<1> HIDE DEF op, node
<1>10. /\ logged \in Sound(U \cup {op}, r) /\ logged.clock = clock
       /\ silent \in Sound(U, r) /\ silent.clock = clock
  <2>1. Passes(clock, op.stamp, d.clock)
    BY <1>6, <1>7 DEF Passes
  <2> QED  BY <1>3, <1>4, <1>6, <1>7, <1>8, <1>9, <2>1, EditIsSound, ZenonT(60)
<1> HIDE DEF logged, silent
<1>11. updates' \in 0 .. MaxUpdates /\ frames' \in 0 .. MaxFrames
  BY <1>1, <1>2, BoundsAssumption
<1>12. CASE replica' = [replica EXCEPT ![r] = logged] /\ net' = net \cup {Frame(logged, <<op>>)}
  <2> DEFINE V == U \cup {op}
  <2>1. Issued' = V
    <3>1. Issued \subseteq V /\ \A o \in V : o \in Issued \/ o.stamp.peer = r
      BY <1>7 DEF U
    <3>2. logged \in Sound(V, r)
      BY <1>10
    <3> HIDE DEF V
    <3> QED  BY <1>12, <3>1, <3>2, IssuedAfter
  <2>2. /\ DOMAIN replica' = Peers /\ replica'[r] = logged
        /\ \A q \in Peers : q # r => replica'[q] = replica[q]
    BY <1>2, <1>12
  <2>3. \A q \in Peers : replica'[q] \in Sound(V, q) /\ replica'[q].clock.logical <= MaxLogical
    <3> TAKE q \in Peers
    <3>1. CASE q = r
      BY <1>1, <1>10, <2>2, <3>1
    <3>2. CASE q # r
      <4>1. replica[q] \in Sound(V, q)
        BY <1>2, <1>7, <3>2, OthersStaySound
      <4> QED  BY <1>2, <2>2, <3>2, <4>1
    <3> QED  BY <3>1, <3>2
  <2>4. IsFrame(Frame(logged, <<op>>), V)
    <3>1. <<op>> \in Seq(Ops) /\ ToSet(<<op>>) = {op}
      BY <1>8 DEF ToSet
    <3> QED  BY <1>10, <3>1, FrameIsHonest
  <2>5. \A m \in net' : IsFrame(m, V)
    <3>1. U \subseteq V
      OBVIOUS
    <3> HIDE DEF V
    <3>2. \A m \in net : IsFrame(m, V)
      BY <1>2, <3>1, FramesStaySound
    <3> QED  BY <1>12, <2>4, <3>2
  <2> HIDE DEF V
  <2> QED  BY <1>11, <2>1, <2>2, <2>3, <2>5 DEF IInv
<1>13. CASE replica' = [replica EXCEPT ![r] = silent] /\ net' = net
  <2>1. Issued' = U
    BY <1>10, <1>13, IssuedAfter DEF U
  <2>2. /\ DOMAIN replica' = Peers /\ replica'[r] = silent
        /\ \A q \in Peers : q # r => replica'[q] = replica[q]
    BY <1>2, <1>13
  <2>3. \A q \in Peers : replica'[q] \in Sound(U, q) /\ replica'[q].clock.logical <= MaxLogical
    BY <1>1, <1>2, <1>10, <2>2
  <2>4. \A m \in net' : IsFrame(m, U)
    BY <1>2, <1>13
  <2> QED  BY <1>11, <2>1, <2>2, <2>3, <2>4 DEF IInv
<1> QED  BY <1>1, <1>12, <1>13, SMTT(30)

LEMMA DeliverStep ==
  ASSUME IInv, NEW r \in Peers, NEW m \in net, NEW now \in Readings, Deliver(r, m, now)
  PROVE  IInv'
<1> DEFINE U == Issued
           h == HearAll(replica[r], m.frontier, now)
           d == IngestAll(h, m.ops, now)
<1>1. /\ d.clock.logical <= MaxLogical /\ replica' = [replica EXCEPT ![r] = d]
      /\ net' = net /\ updates' = updates /\ frames' = frames
  BY DEF Deliver, Ingest
<1>2. /\ DOMAIN replica = Peers /\ updates \in 0 .. MaxUpdates /\ frames \in 0 .. MaxFrames
      /\ \A q \in Peers : replica[q] \in Sound(U, q) /\ replica[q].clock.logical <= MaxLogical
      /\ \A f \in net : IsFrame(f, U)
  BY DEF IInv
<1>3. U \in SUBSET Ops /\ IsApart(U)
  BY IssuedIsApart
<1>4. /\ m.frontier \in Maps(Peers, Stamps) /\ Names(m.frontier, U)
      /\ m.ops \in Seq(Ops) /\ ToSet(m.ops) \subseteq U
  BY <1>2 DEF IsFrame
<1> HIDE DEF U
<1>5. h \in Sound(U, r)
  BY <1>2, <1>3, <1>4, HearAllIsSound
<1> HIDE DEF h
<1>6. d \in Sound(U, r)
  BY <1>3, <1>4, <1>5, IngestAllIsSound
<1> HIDE DEF d
<1>7. Issued' = U
  BY <1>1, <1>6, IssuedAfter DEF U
<1>8. \A q \in Peers : replica'[q] \in Sound(U, q) /\ replica'[q].clock.logical <= MaxLogical
  BY <1>1, <1>2, <1>6
<1> QED  BY <1>1, <1>2, <1>7, <1>8 DEF IInv

(* A frame that changes nothing but the network. *)
LEMMA EmitStep ==
  ASSUME IInv, NEW m, Emit(m), IsFrame(m, Issued)
  PROVE  IInv'
<1>1. /\ frames < MaxFrames /\ frames' = frames + 1 /\ net' = net \cup {m}
      /\ replica' = replica /\ updates' = updates
  BY DEF Emit
<1>2. Issued' = Issued
  BY <1>1 DEF Issued
<1>3. frames' \in 0 .. MaxFrames
  BY <1>1, BoundsAssumption DEF IInv
<1>4. \A f \in net' : IsFrame(f, Issued)
  BY <1>1 DEF IInv
<1> QED  BY <1>1, <1>2, <1>3, <1>4 DEF IInv

LEMMA SyncFrameStep ==
  ASSUME IInv, NEW r \in Peers, SyncFrame(r)
  PROVE  IInv'
<1>1. replica[r] \in Sound(Issued, r)
  BY DEF IInv
<1>2. replica[r].ops \in Seq(Ops) /\ ToSet(replica[r].ops) \subseteq Issued
  BY <1>1, ReplicaFields DEF Sound, Keeps
<1>3. IsFrame(Frame(replica[r], replica[r].ops), Issued)
  BY <1>1, <1>2, FrameIsHonest
<1> QED  BY <1>3, EmitStep DEF SyncFrame

LEMMA SyncReplyStep ==
  ASSUME IInv, NEW r \in Peers, NEW request \in net, SyncReply(r, request)
  PROVE  IInv'
<1> DEFINE d == replica[r]
           ops == Since(d, request.frontier)
           left == ToSet(d.ops) \ (ToSet(request.ops) \cup ToSet(ops))
           m == [Frame(d, ops) EXCEPT !.gapFree = GapFree(request), !.left = left]
<1>1. d \in Sound(Issued, r)
  BY DEF IInv
<1> HIDE DEF d
<1>2. d.ops \in Seq(Ops) /\ ToSet(d.ops) \subseteq Issued
  BY <1>1, ReplicaFields DEF Sound, Keeps
<1>3. /\ ops \in Seq(Ops) /\ ToSet(ops) \subseteq ToSet(d.ops)
      /\ \A o \in ToSet(d.ops) : Covers(request.frontier, o.stamp) \/ o \in ToSet(ops)
  BY <1>2, SinceLeavesTheCovered
<1> HIDE DEF ops
<1>4. IsFrame(Frame(d, ops), Issued)
  BY <1>1, <1>2, <1>3, FrameIsHonest
<1>5. GapFree(request) => left = {}
  BY <1>2, <1>3 DEF GapFree
<1>6. m.frontier = d.frontier /\ m.ops = ops /\ m.gapFree = GapFree(request) /\ m.left = left
  BY DEF Frame
<1>7. IsFrame(m, Issued)
  <2>1. Frame(d, ops).frontier = d.frontier /\ Frame(d, ops).ops = ops
    BY DEF Frame
  <2> HIDE DEF m, left
  <2> QED  BY <1>4, <1>5, <1>6, <2>1 DEF IsFrame
<1>8. Emit(m)
  BY DEF SyncReply, d, ops
<1> HIDE DEF m
<1> QED  BY <1>7, <1>8, EmitStep

LEMMA NextStep ==
  ASSUME IInv, [Next]_vars
  PROVE  IInv'
<1>1. CASE Next
  <2>1. PICK r \in Peers :
          \/ \E k \in Keys, v \in Values, now \in Readings : LocalUpdate(r, k, v, now)
          \/ \E m \in net, now \in Readings : Deliver(r, m, now)
          \/ SyncFrame(r)
          \/ \E m \in net : SyncReply(r, m)
    BY <1>1 DEF Next
  <2>2. CASE \E k \in Keys, v \in Values, now \in Readings : LocalUpdate(r, k, v, now)
    BY <2>2, LocalUpdateStep
  <2>3. CASE \E m \in net, now \in Readings : Deliver(r, m, now)
    BY <2>3, DeliverStep
  <2>4. CASE SyncFrame(r)
    BY <2>4, SyncFrameStep
  <2>5. CASE \E m \in net : SyncReply(r, m)
    BY <2>5, SyncReplyStep
  <2> QED  BY <2>1, <2>2, <2>3, <2>4, <2>5
<1>2. CASE UNCHANGED vars
  <2>1. replica' = replica /\ net' = net /\ updates' = updates /\ frames' = frames
    BY <1>2 DEF vars
  <2>2. Issued' = Issued
    BY <2>1 DEF Issued
  <2> QED  BY <2>1, <2>2 DEF IInv
<1> QED  BY <1>1, <1>2

-----------------------------------------------------------------------------
(* The invariant is inductive: whatever is edited, sent, lost, repeated or *)
(* reordered, the ops of a peer stay its own and in its log.               *)
THEOREM Inductive == Spec => []IInv
<1>1. Init => IInv
  BY InitIInv
<1>2. IInv /\ [Next]_vars => IInv'
  BY NextStep
<1> QED  BY <1>1, <1>2, PTL DEF Spec

(* Whatever order, duplication or grouping the ops of frames come in, and  *)
(* however far the clocks are apart, a cell holds the newest op of its key *)
(* and keys keep apart on every replica.                                   *)
THEOREM CellsAlwaysFollow == Spec => []CellsFollow
<1>1. ASSUME IInv, NEW r \in Peers
      PROVE  LET d == replica[r]
             IN /\ d \in ReplicaType /\ d.clock.logical <= MaxLogical
                /\ IsKeyed(d) /\ HoldsNewest(d) /\ IsApart(Folded(d)) /\ Names(d.frontier, Issued)
  BY <1>1 DEF IInv, Sound
<1>2. IInv => TypeOK
  <2> HAVE IInv
  <2>1. ASSUME NEW r \in Peers
        PROVE  LET d == replica[r] IN
               /\ d.clock.wall \in 0 .. MaxWall /\ d.clock.logical \in 0 .. MaxLogical
               /\ DOMAIN d.keyToNode \subseteq Keys
               /\ DOMAIN d.cells \subseteq NodeIds
               /\ \A i \in DOMAIN d.ops : d.ops[i].stamp \in Stamps
               /\ DOMAIN d.frontier \subseteq Peers
               /\ \A p \in DOMAIN d.frontier :
                    d.frontier[p] \in Stamps /\ d.frontier[p].peer = p
    <3> DEFINE d == replica[r]
    <3>1. d \in ReplicaType /\ d.clock.logical <= MaxLogical /\ Names(d.frontier, Issued)
      BY <1>1
    <3> HIDE DEF d
    <3>2. d.clock.wall \in 0 .. MaxWall /\ d.clock.logical \in 0 .. MaxLogical
      BY <3>1, ReplicaFields, BoundsAssumption DEF Clocks
    <3>3. DOMAIN d.keyToNode \subseteq Keys /\ DOMAIN d.cells \subseteq NodeIds
      BY <3>1, ReplicaFields, MapFields
    <3>4. \A i \in DOMAIN d.ops : d.ops[i].stamp \in Stamps
      BY <3>1, ReplicaFields
    <3>5. DOMAIN d.frontier \in SUBSET Peers /\ d.frontier \in [DOMAIN d.frontier -> Stamps]
      BY <3>1, ReplicaFields, MapFields
    <3>6. \A p \in DOMAIN d.frontier : d.frontier[p] \in Stamps /\ d.frontier[p].peer = p
      BY <3>1, <3>5 DEF Names
    <3> QED  BY <3>2, <3>3, <3>4, <3>5, <3>6 DEF d
  <2>2. updates \in 0 .. MaxUpdates /\ frames \in 0 .. MaxFrames
    BY DEF IInv
  <2> QED  BY <2>1, <2>2 DEF TypeOK
<1>3. IInv => CellIsNewest
  <2> SUFFICES ASSUME IInv, NEW r \in Peers, NEW k \in DOMAIN replica[r].keyToNode
               PROVE  LET d == replica[r]
                          folded == {o \in ToSet(d.ops) \cup d.silent : o.key = k}
                      IN d.cells[d.keyToNode[k]] = IF folded = {} THEN NoOp ELSE Newest(folded)
    BY DEF CellIsNewest
  <2> DEFINE d == replica[r]
             F == FoldedOf(d, k)
             c == d.cells[d.keyToNode[k]]
  <2>1. d \in ReplicaType /\ HoldsNewest(d) /\ IsApart(Folded(d))
    BY <1>1
  <2>2. IsNewestOf(c, F)
    BY <2>1 DEF HoldsNewest
  <2>3. F \in SUBSET Ops /\ IsApart(F)
    BY <2>1, ReplicaFields DEF FoldedOf, IsApart
  <2>4. F = {o \in ToSet(d.ops) \cup d.silent : o.key = k}
    BY DEF FoldedOf, Folded
  <2> HIDE DEF F, c, d
  <2>5. c = IF F = {} THEN NoOp ELSE Newest(F)
    BY <2>2, <2>3, NewestIs DEF IsNewestOf
  <2> QED  BY <2>4, <2>5 DEF c, d
<1>4. IInv => KeysKeepApart
  <2> SUFFICES ASSUME IInv, NEW r \in Peers
               PROVE  LET d == replica[r] IN
                      /\ \A k, l \in DOMAIN d.keyToNode : d.keyToNode[k] = d.keyToNode[l] => k = l
                      /\ \A k \in DOMAIN d.keyToNode :
                           d.cells[d.keyToNode[k]].key \in {k, NoOp.key}
    BY DEF KeysKeepApart
  <2> DEFINE d == replica[r]
  <2>1. IsKeyed(d) /\ HoldsNewest(d)
    BY <1>1
  <2> HIDE DEF d
  <2>2. \A k, l \in DOMAIN d.keyToNode : d.keyToNode[k] = d.keyToNode[l] => k = l
    BY <2>1 DEF IsKeyed, Keying
  <2>3. \A k \in DOMAIN d.keyToNode : d.cells[d.keyToNode[k]].key \in {k, NoOp.key}
    BY <2>1 DEF HoldsNewest, IsNewestOf, FoldedOf
  <2> QED  BY <2>2, <2>3 DEF d
<1>5. IInv => CellsFollow
  BY <1>2, <1>3, <1>4 DEF CellsFollow
<1> QED  BY <1>5, Inductive, PTL

(* An edit is stamped after everything its author had logged: a replica    *)
(* that hears of both lets it win, however late its clock runs.            *)
THEOREM EditsAlwaysFollow == Spec => []EditsFollowTheirPast
<1>1. IInv => EditsFollowTheirPast
  <2> SUFFICES ASSUME IInv, NEW r \in Peers
               PROVE  \A i, j \in DOMAIN replica[r].ops :
                        LET ops == replica[r].ops IN
                        i < j /\ ops[j].stamp.peer = r => Before(ops[i].stamp, ops[j].stamp)
    BY DEF EditsFollowTheirPast
  <2>1. EditsFollow(replica[r]) /\ replica[r].peer = r
    BY DEF IInv, Sound
  <2> QED  BY <2>1 DEF EditsFollow
<1> QED  BY <1>1, Inductive, PTL

(* A frontier covers the log it goes with and names only what was issued,  *)
(* so that a reply to a frame without gaps leaves nothing of the replier's *)
(* log behind.                                                             *)
THEOREM FramesAlwaysHonest == Spec => []FramesAreHonest
<1>1. IInv => FrontierIsHonest
  <2> SUFFICES ASSUME IInv, NEW r \in Peers
               PROVE  LET d == replica[r] IN
                      /\ \A i \in DOMAIN d.ops : Covers(d.frontier, d.ops[i].stamp)
                      /\ \A p \in DOMAIN d.frontier :
                           \E op \in ToSet(replica[p].ops) : op.stamp = d.frontier[p]
    BY DEF FrontierIsHonest
  <2>1. IsCovered(replica[r]) /\ Names(replica[r].frontier, Issued)
    BY DEF IInv, Sound
  <2>2. \A o \in Issued : o \in ToSet(replica[o.stamp.peer].ops)
    BY IssuedIsApart
  <2> QED  BY <2>1, <2>2 DEF IsCovered, Names
<1>2. IInv => ReplyCompletes
  BY DEF IInv, IsFrame, ReplyCompletes
<1>3. IInv => FramesAreHonest
  BY <1>1, <1>2 DEF FramesAreHonest
<1> QED  BY <1>3, Inductive, PTL

(* Replicas that have folded the same ops hold the same cells, under       *)
(* whatever node ids.  The edits kept silent count: replicas with equal    *)
(* logs alone do not agree.                                                *)
THEOREM ReplicasConverge ==
  Spec => [](\A r, q \in Peers :
               Folded(replica[r]) = Folded(replica[q]) =>
                 \A k \in DOMAIN replica[r].keyToNode \cap DOMAIN replica[q].keyToNode :
                   replica[r].cells[replica[r].keyToNode[k]]
                     = replica[q].cells[replica[q].keyToNode[k]])
<1> DEFINE Converged ==
             \A r, q \in Peers :
               Folded(replica[r]) = Folded(replica[q]) =>
                 \A k \in DOMAIN replica[r].keyToNode \cap DOMAIN replica[q].keyToNode :
                   replica[r].cells[replica[r].keyToNode[k]]
                     = replica[q].cells[replica[q].keyToNode[k]]
<1>1. CellsFollow => Converged
  <2> SUFFICES ASSUME CellsFollow, NEW r \in Peers, NEW q \in Peers,
                      Folded(replica[r]) = Folded(replica[q]),
                      NEW k \in DOMAIN replica[r].keyToNode \cap DOMAIN replica[q].keyToNode
               PROVE  replica[r].cells[replica[r].keyToNode[k]]
                        = replica[q].cells[replica[q].keyToNode[k]]
    OBVIOUS
  <2> DEFINE newest(F) == IF F = {} THEN NoOp ELSE Newest(F)
  <2>1. /\ replica[r].cells[replica[r].keyToNode[k]] = newest(FoldedOf(replica[r], k))
        /\ replica[q].cells[replica[q].keyToNode[k]] = newest(FoldedOf(replica[q], k))
    BY DEF CellsFollow, CellIsNewest, Folded, FoldedOf
  <2>2. FoldedOf(replica[r], k) = FoldedOf(replica[q], k)
    BY DEF FoldedOf
  <2> HIDE DEF newest
  <2> QED  BY <2>1, <2>2
<1> HIDE DEF Converged
<1>2. Spec => []Converged
  BY <1>1, CellsAlwaysFollow, PTL
<1> QED  BY <1>2 DEF Converged
=============================================================================
