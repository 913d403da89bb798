----------------------- MODULE ReactiveGraph_proofs -----------------------
(***************************************************************************)
(* Of the Cell kernel, for any nodes and any values:                       *)
(*  - its edges mirror each other, at every step of a call and after it    *)
(*    was unwound, whatever the bodies do;                                 *)
(*  - a cached slot holds what it would be if everything were computed     *)
(*    from scratch, for bodies that read upwards (ReadsUpwards);           *)
(*  - between calls every effect has last run on just that, until a call   *)
(*    has thrown or a node that is read was disposed.                      *)
(*                                                                         *)
(* The graph and the call stack need each other.  A read leaves its edge   *)
(* before the value is there, so an edge ends at a live node only because  *)
(* every activation on the stack is of one; and no two activations are of  *)
(* one node because a slot is marked busy by the activation it is on, and  *)
(* an effect only runs under the one flush there is (Shaped).              *)
(*                                                                         *)
(* That a slot may keep its value is decided by a scan that looks at each  *)
(* dependency once, while what runs above it stores values and marks what  *)
(* reads them.  So the invariant (Fit) says of every frame what it has     *)
(* already passed, of every slot what its flags are worth, and that        *)
(* heights fall along the stack: no mark reaches what was passed.          *)
(*                                                                         *)
(* An effect is not called by what it reads: it is queued, looked at by a  *)
(* flush that may be interrupted by writes of the very bodies it runs, and *)
(* a mark stops at what is dirty already.  So the invariant (Heard) says   *)
(* who still has to look: whatever an effect reads is cached, or the       *)
(* effect is queued, or its activation has yet to come to it; and unless   *)
(* it is forced, what it was told is so.                                   *)
(***************************************************************************)
EXTENDS ReactiveGraph, FiniteSetTheorems, SequenceTheorems, WellFoundedInduction, TLAPS

-----------------------------------------------------------------------------
(* The activations of refreshSlot, effectShouldRun, a body, flushEffects.  *)
RefreshFrames == [op : {"refresh"}, node : Slots, i : Nat \ {0}, changed : BOOLEAN]
ShouldFrames  == [op : {"should"}, node : Effects, i : Nat \ {0}, changed : BOOLEAN]
BodyFrames    == [op : {"body"}, node : Readers, seen : Seq(Values)]
FlushFrames   == [op : {"flush"}]
Frames == RefreshFrames \cup ShouldFrames \cup BodyFrames \cup FlushFrames

SlotRecords ==
  [value : Values \cup {NoValue}, has : BOOLEAN, dirty : BOOLEAN, force : BOOLEAN, busy : BOOLEAN]

Graphs ==
  [slot : [Slots -> SlotRecords], deps : [Readers -> Seq(Sources \cup Slots)],
   dependents : [Sources \cup Slots -> SUBSET Readers],
   pending : Seq(Effects), forceRun : SUBSET Effects]

(* EdgesMirror, of a graph and a set of live nodes. *)
Mirror(g, L) ==
  \A c \in Readers, m \in Sources \cup Slots :
    /\ m \in ToSet(g.deps[c]) <=> c \in g.dependents[m]
    /\ c \in g.dependents[m] => c \in L /\ m \in L

(* No edge is there twice: a swap-remove takes out the only one. *)
Single(edges) == \A i, j \in DOMAIN edges : edges[i] = edges[j] => i = j

GraphOK(g, L) ==
  /\ g \in Graphs
  /\ \A c \in Readers : Single(g.deps[c])
  /\ \A n \in Slots : g.slot[n].has => g.slot[n].value \in Values
  /\ Mirror(g, L)

(* Whose activation a frame is. *)
OfSlot(f)   == f.op # "flush" /\ f.node \in Slots
OfEffect(f) == f.op # "flush" /\ f.node \in Effects

(* The frame waits for a refresh of n, and has its edge to it. *)
Calls(g, f, n) ==
  \/ /\ f.op = "body"
     /\ Body(f.node, f.seen).do = "read" /\ Body(f.node, f.seen).node = n
     /\ n \in ToSet(g.deps[f.node])
  \/ /\ f.op \in {"refresh", "should"}
     /\ f.i \in DOMAIN g.deps[f.node] /\ g.deps[f.node][f.i] = n

FrameOK(g, L, f) ==
  /\ f \in Frames
  /\ f.op # "flush" => f.node \in L
  /\ OfSlot(f) => g.slot[f.node].busy
  /\ f.op = "refresh" => f.changed \/ g.slot[f.node].has
  /\ f.op = "body" => Len(f.seen) <= MaxReads

PairOK(g, lo, hi) ==
  /\ OfSlot(hi) => Calls(g, lo, hi.node)
  /\ OfEffect(hi) <=> lo.op = "flush"

(* Each activation was called by the one below; one flush, one activation  *)
(* per node.                                                               *)
StackOK(g, L, s) ==
  /\ s \in Seq(Frames)
  /\ \A i \in DOMAIN s : FrameOK(g, L, s[i])
  /\ \A i \in DOMAIN s : i > 1 => PairOK(g, s[i - 1], s[i])
  /\ s # <<>> => ~OfEffect(s[1])
  /\ \A i, j \in DOMAIN s : s[i].op = "flush" /\ s[j].op = "flush" => i = j
  /\ \A i, j \in DOMAIN s :
       s[i].op # "flush" /\ s[j].op # "flush" /\ s[i].node = s[j].node => i = j

(* The inductive invariant. *)
Shaped ==
  /\ source \in [Sources -> Values]
  /\ live \subseteq Nodes
  /\ GraphOK(graph, live)
  /\ StackOK(graph, live, stack)
  /\ batched \subseteq Sources
  /\ ~batching => batched = {}

(* The walk of markFrontier contains its roots and whatever a slot it      *)
(* marks is read by, and nothing else.                                     *)
LEMMA ReachedParts ==
  ASSUME NEW g, NEW roots
  PROVE  /\ roots \subseteq Reached(g, roots)
         /\ \A n \in Reached(g, roots) \cap Slots :
              ~g.slot[n].dirty \/ (n \in roots /\ ~g.slot[n].force) =>
                g.dependents[n] \subseteq Reached(g, roots)
         /\ \A R \in SUBSET Slots : Below(g, roots, R) \cap Slots \subseteq R =>
              Reached(g, roots) \cap Slots \subseteq R
         /\ \A n \in Reached(g, roots) : n \in roots \/ \E m \in Slots : n \in g.dependents[m]
<1> DEFINE closed == {R \in SUBSET Slots : Below(g, roots, R) \cap Slots \subseteq R}
           least == {n \in Slots : \A R \in closed : n \in R}
<1>1. Reached(g, roots) = Below(g, roots, least)
  BY DEF Reached
<1>2. ASSUME NEW R \in closed
      PROVE  Reached(g, roots) \cap Slots \subseteq R
  <2>1. least \subseteq R
    BY <1>2
  <2>2. Below(g, roots, least) \subseteq Below(g, roots, R)
    BY <2>1 DEF Below
  <2> QED  BY <1>1, <2>2
<1>3. Reached(g, roots) \cap Slots \subseteq least
  BY <1>2
<1> HIDE DEF closed, least
<1>4. ASSUME NEW n \in Reached(g, roots) \cap Slots,
             ~g.slot[n].dirty \/ (n \in roots /\ ~g.slot[n].force)
      PROVE  g.dependents[n] \subseteq Reached(g, roots)
  BY <1>1, <1>3, <1>4 DEF Below
<1>5. \A n \in Reached(g, roots) : n \in roots \/ \E m \in Slots : n \in g.dependents[m]
  BY <1>1 DEF Below, least
<1>6. roots \subseteq Reached(g, roots)
  BY <1>1 DEF Below
<1> QED  BY <1>2, <1>4, <1>5, <1>6 DEF closed

(* What a walk from the roots leaves behind. *)
MarkedFrom(g, h, roots) ==
  /\ h.deps = g.deps /\ h.dependents = g.dependents
  /\ \A n \in Slots :
       /\ h.slot[n].has = g.slot[n].has
       /\ h.slot[n].value = g.slot[n].value
       /\ h.slot[n].busy = g.slot[n].busy
       /\ h.slot[n].dirty <=> (g.slot[n].dirty \/ n \in Reached(g, roots))
       /\ h.slot[n].force <=> (g.slot[n].force \/ n \in roots)

LEMMA MarkedParts ==
  ASSUME NEW g \in Graphs, NEW roots \in SUBSET Readers
  PROVE  /\ Marked(g, roots) \in Graphs
         /\ MarkedFrom(g, Marked(g, roots), roots)
         /\ Marked(g, roots).pending = g.pending
         /\ Marked(g, roots).forceRun = g.forceRun
<1> DEFINE slot == [n \in Slots |->
                      IF n \in Reached(g, roots) THEN Dirtied(g.slot[n], n \in roots)
                      ELSE g.slot[n]]
<1>1. Marked(g, roots) = [g EXCEPT !.slot = slot]
  BY DEF Marked
<1>2. g.slot \in [Slots -> SlotRecords]
  BY DEF Graphs
<1>3. ASSUME NEW n \in Slots
      PROVE  /\ slot[n] \in SlotRecords
             /\ slot[n].has = g.slot[n].has
             /\ slot[n].value = g.slot[n].value
             /\ slot[n].busy = g.slot[n].busy
             /\ slot[n].dirty <=> (g.slot[n].dirty \/ n \in Reached(g, roots))
             /\ slot[n].force <=> (g.slot[n].force \/ n \in roots)
  <2>1. g.slot[n] \in SlotRecords
    BY <1>2
  <2>2. n \in roots => n \in Reached(g, roots)
    BY ReachedParts
  <2>3. CASE n \in Reached(g, roots)
    <3>1. slot[n] = [g.slot[n] EXCEPT !.dirty = TRUE, !.force = @ \/ n \in roots]
      BY <2>3 DEF Dirtied
    <3> HIDE DEF slot
    <3> QED  BY <2>1, <2>3, <3>1 DEF SlotRecords
  <2>4. CASE n \notin Reached(g, roots)
    BY <2>1, <2>2, <2>4
  <2> QED  BY <2>3, <2>4
<1>4. slot \in [Slots -> SlotRecords]
  BY <1>3
<1> HIDE DEF slot
<1>5. /\ Marked(g, roots) \in Graphs
      /\ Marked(g, roots).slot = slot
      /\ Marked(g, roots).deps = g.deps /\ Marked(g, roots).dependents = g.dependents
      /\ Marked(g, roots).pending = g.pending
      /\ Marked(g, roots).forceRun = g.forceRun
  BY <1>1, <1>4 DEF Graphs
<1> QED  BY <1>3, <1>5 DEF MarkedFrom

LEMMA InvalidatedParts ==
  ASSUME NEW g \in Graphs, NEW roots \in SUBSET Readers, NEW h \in Invalidated(g, roots)
  PROVE  h \in Graphs /\ MarkedFrom(g, h, roots)
<1> DEFINE m == Marked(g, roots)
           es == Reached(g, roots) \cap Effects
<1>1. m \in Graphs /\ MarkedFrom(g, m, roots)
  BY MarkedParts
<1>2. PICK order \in SetToSeqs(es \ ToSet(m.pending)) :
        h = [m EXCEPT !.pending = @ \o order, !.forceRun = @ \cup (roots \cap Effects)]
  BY DEF Invalidated, Scheduled
<1>3. order \in Seq(Effects)
  <2>1. IsFiniteSet(es \ ToSet(m.pending))
    BY KindsAssumption, FS_Subset
  <2>2. Cardinality(es \ ToSet(m.pending)) \in Nat
    BY <2>1, FS_CardinalityType
  <2>3. order \in [1 .. Cardinality(es \ ToSet(m.pending)) -> es \ ToSet(m.pending)]
    BY DEF SetToSeqs
  <2> HIDE DEF m
  <2>4. order \in [1 .. Cardinality(es \ ToSet(m.pending)) -> Effects]
    BY <2>3
  <2>5. \A k \in Nat : \A f \in [1 .. k -> Effects] : f \in Seq(Effects)
    OBVIOUS
  <2> QED  BY <2>2, <2>4, <2>5
<1> HIDE DEF m
<1>4. m.pending \o order \in Seq(Effects) /\ m.forceRun \cup (roots \cap Effects) \in SUBSET Effects
  BY <1>1, <1>3 DEF Graphs
<1>5. /\ h.slot = m.slot /\ h.deps = m.deps /\ h.dependents = m.dependents
      /\ h = [slot |-> m.slot, deps |-> m.deps, dependents |-> m.dependents,
              pending |-> m.pending \o order, forceRun |-> m.forceRun \cup (roots \cap Effects)]
  BY <1>1, <1>2 DEF Graphs
<1>6. h \in Graphs
  BY <1>1, <1>4, <1>5 DEF Graphs
<1> QED  BY <1>1, <1>5, <1>6 DEF MarkedFrom

LEMMA ToSetAppend ==
  ASSUME NEW S, NEW s \in Seq(S), NEW x \in S
  PROVE  /\ Append(s, x) \in Seq(S) /\ Len(Append(s, x)) = Len(s) + 1
         /\ ToSet(Append(s, x)) = ToSet(s) \cup {x}
         /\ \A i \in 1 .. Len(s) : Append(s, x)[i] = s[i]
         /\ Append(s, x)[Len(s) + 1] = x
<1>1. /\ Append(s, x) \in Seq(S) /\ Len(Append(s, x)) = Len(s) + 1
      /\ \A i \in 1 .. Len(s) : Append(s, x)[i] = s[i]
      /\ Append(s, x)[Len(s) + 1] = x
  OBVIOUS
<1>2. DOMAIN s = 1 .. Len(s) /\ DOMAIN Append(s, x) = 1 .. Len(s) + 1 /\ Len(s) \in Nat
  BY <1>1
<1>3. ASSUME NEW y PROVE y \in ToSet(Append(s, x)) <=> y \in ToSet(s) \cup {x}
  BY <1>1, <1>2 DEF ToSet
<1> QED  BY <1>1, <1>3

LEMMA MarkedOK ==
  ASSUME NEW g, NEW h \in Graphs, NEW L, NEW roots, GraphOK(g, L), MarkedFrom(g, h, roots)
  PROVE  GraphOK(h, L)
BY DEF GraphOK, MarkedFrom, Mirror

(* registerDependency. *)
LEMMA WithEdgeOK ==
  ASSUME NEW g, NEW L, GraphOK(g, L), NEW c \in Readers \cap L, NEW m \in (Sources \cup Slots) \cap L
  PROVE  /\ GraphOK(WithEdge(g, c, m), L)
         /\ WithEdge(g, c, m).slot = g.slot
         /\ WithEdge(g, c, m).pending = g.pending
         /\ \A d \in Readers : d # c => WithEdge(g, c, m).deps[d] = g.deps[d]
         /\ WithEdge(g, c, m).deps[c] = IF m \in ToSet(g.deps[c]) THEN g.deps[c] ELSE Append(g.deps[c], m)
         /\ \A x \in Sources \cup Slots :
              WithEdge(g, c, m).dependents[x] = g.dependents[x] \cup (IF x = m THEN {c} ELSE {})
<1> DEFINE h == WithEdge(g, c, m)
           edges == IF m \in ToSet(g.deps[c]) THEN g.deps[c] ELSE Append(g.deps[c], m)
           deps == [g.deps EXCEPT ![c] = edges]
           dependents == [g.dependents EXCEPT ![m] = @ \cup {c}]
<1>0. /\ g \in Graphs /\ g.deps \in [Readers -> Seq(Sources \cup Slots)]
      /\ g.dependents \in [Sources \cup Slots -> SUBSET Readers]
  BY DEF GraphOK, Graphs
<1>1. g.deps[c] \in Seq(Sources \cup Slots)
  BY <1>0
<1>2. edges \in Seq(Sources \cup Slots) /\ ToSet(edges) = ToSet(g.deps[c]) \cup {m}
  BY <1>1, ToSetAppend
<1>3. Single(edges)
  <2>1. Single(g.deps[c])
    BY DEF GraphOK
  <2>2. CASE m \in ToSet(g.deps[c])
    BY <2>1, <2>2
  <2>3. CASE m \notin ToSet(g.deps[c])
    <3> DEFINE e == g.deps[c]
    <3>1. edges = Append(e, m)
      BY <2>3
    <3>2. \A i \in DOMAIN e : e[i] # m
      BY <2>3 DEF ToSet
    <3> HIDE DEF e, edges
    <3>3. e \in Seq(Sources \cup Slots)
      BY <1>1 DEF e
    <3>4. DOMAIN edges = 1 .. Len(e) + 1 /\ DOMAIN e = 1 .. Len(e) /\ Len(e) \in Nat
      BY <3>1, <3>3
    <3>5. /\ \A i \in 1 .. Len(e) : edges[i] = e[i]
          /\ edges[Len(e) + 1] = m
      BY <3>1, <3>3
    <3>6. Single(e)
      BY <2>1 DEF e
    <3> QED  BY <3>2, <3>4, <3>5, <3>6 DEF Single
  <2> QED  BY <2>2, <2>3
<1>4. h = [g EXCEPT !.dependents = dependents, !.deps = deps]
  BY <1>0 DEF WithEdge
<1> HIDE DEF edges
<1>5. /\ deps \in [Readers -> Seq(Sources \cup Slots)]
      /\ dependents \in [Sources \cup Slots -> SUBSET Readers]
      /\ \A d \in Readers : deps[d] = IF d = c THEN edges ELSE g.deps[d]
      /\ \A x \in Sources \cup Slots :
           dependents[x] = g.dependents[x] \cup (IF x = m THEN {c} ELSE {})
  BY <1>0, <1>2
<1> HIDE DEF deps, dependents, h
<1>6. /\ h \in Graphs /\ h.deps = deps /\ h.dependents = dependents
      /\ h.slot = g.slot /\ h.pending = g.pending
  BY <1>0, <1>4, <1>5 DEF Graphs
<1>7. Mirror(h, L)
  <2> SUFFICES ASSUME NEW d \in Readers, NEW x \in Sources \cup Slots
               PROVE  /\ x \in ToSet(h.deps[d]) <=> d \in h.dependents[x]
                      /\ d \in h.dependents[x] => d \in L /\ x \in L
    BY DEF Mirror
  <2>1. /\ x \in ToSet(g.deps[d]) <=> d \in g.dependents[x]
        /\ d \in g.dependents[x] => d \in L /\ x \in L
    BY DEF GraphOK, Mirror
  <2> QED  BY <1>2, <1>5, <1>6, <2>1
<1>8. \A d \in Readers : Single(h.deps[d])
  BY <1>3, <1>5, <1>6 DEF GraphOK
<1>9. \A n \in Slots : h.slot[n].has => h.slot[n].value \in Values
  BY <1>6 DEF GraphOK
<1> QED  BY <1>5, <1>6, <1>7, <1>8, <1>9 DEF GraphOK, h, edges

(* The edges a rerun drops. *)
LEMMA WithoutEdgesOK ==
  ASSUME NEW g, NEW L, GraphOK(g, L), NEW c \in Readers
  PROVE  /\ GraphOK(WithoutEdges(g, c), L)
         /\ WithoutEdges(g, c).slot = g.slot
         /\ WithoutEdges(g, c).deps[c] = <<>>
         /\ \A d \in Readers : d # c => WithoutEdges(g, c).deps[d] = g.deps[d]
         /\ \A x \in Sources \cup Slots :
              WithoutEdges(g, c).dependents[x] = g.dependents[x] \ {c}
<1> DEFINE h == WithoutEdges(g, c)
           deps == [g.deps EXCEPT ![c] = <<>>]
           dependents == [x \in DOMAIN g.dependents |-> g.dependents[x] \ {c}]
<1>0. /\ g \in Graphs /\ g.deps \in [Readers -> Seq(Sources \cup Slots)]
      /\ g.dependents \in [Sources \cup Slots -> SUBSET Readers]
  BY DEF GraphOK, Graphs
<1>1. h = [g EXCEPT !.dependents = dependents, !.deps = deps]
  BY <1>0 DEF WithoutEdges
<1>2. /\ deps \in [Readers -> Seq(Sources \cup Slots)]
      /\ dependents \in [Sources \cup Slots -> SUBSET Readers]
      /\ \A d \in Readers : deps[d] = IF d = c THEN <<>> ELSE g.deps[d]
      /\ \A x \in Sources \cup Slots : dependents[x] = g.dependents[x] \ {c}
  BY <1>0
<1> HIDE DEF deps, dependents, h
<1>3. /\ h \in Graphs /\ h.deps = deps /\ h.dependents = dependents /\ h.slot = g.slot
  BY <1>0, <1>1, <1>2 DEF Graphs
<1>4. ToSet(<<>>) = {} /\ Single(<<>>)
  BY DEF ToSet, Single
<1>5. Mirror(h, L)
  <2> SUFFICES ASSUME NEW d \in Readers, NEW x \in Sources \cup Slots
               PROVE  /\ x \in ToSet(h.deps[d]) <=> d \in h.dependents[x]
                      /\ d \in h.dependents[x] => d \in L /\ x \in L
    BY DEF Mirror
  <2>1. /\ x \in ToSet(g.deps[d]) <=> d \in g.dependents[x]
        /\ d \in g.dependents[x] => d \in L /\ x \in L
    BY DEF GraphOK, Mirror
  <2> QED  BY <1>2, <1>3, <1>4, <2>1
<1>6. \A d \in Readers : Single(h.deps[d])
  BY <1>2, <1>3, <1>4 DEF GraphOK
<1>7. \A n \in Slots : h.slot[n].has => h.slot[n].value \in Values
  BY <1>3 DEF GraphOK
<1> QED  BY <1>2, <1>3, <1>5, <1>6, <1>7 DEF GraphOK, h

(* Swap-remove takes out exactly the edge, and keeps the others single. *)
LEMMA SwapRemovedParts ==
  ASSUME NEW S, NEW edges \in Seq(S), Single(edges), NEW m
  PROVE  /\ SwapRemoved(edges, m) \in Seq(S)
         /\ ToSet(SwapRemoved(edges, m)) = ToSet(edges) \ {m}
         /\ Single(SwapRemoved(edges, m))
         /\ m \notin ToSet(edges) => SwapRemoved(edges, m) = edges
<1>1. CASE m \notin ToSet(edges)
  BY <1>1 DEF SwapRemoved
<1>2. CASE m \in ToSet(edges)
  <2> DEFINE at == CHOOSE i \in DOMAIN edges : edges[i] = m
             n == Len(edges)
             t == [edges EXCEPT ![at] = Last(edges)]
             rest == Front(t)
  <2>0. DOMAIN edges = 1 .. n /\ n \in Nat
    OBVIOUS
  <2>1. at \in 1 .. n /\ edges[at] = m
    BY <1>2, <2>0 DEF ToSet
  <2> HIDE DEF at
  <2>2. t \in Seq(S) /\ Len(t) = n /\ \A i \in 1 .. n : t[i] = IF i = at THEN edges[n] ELSE edges[i]
    BY <2>1 DEF Last
  <2>3. /\ rest \in Seq(S) /\ Len(rest) = n - 1
        /\ \A i \in 1 .. n - 1 : rest[i] = t[i]
    BY <2>1, <2>2 DEF Front
  <2>4. SwapRemoved(edges, m) = rest
    BY <1>2 DEF SwapRemoved, at
  <2> HIDE DEF t, rest
  <2>5. DOMAIN rest = 1 .. n - 1
    BY <2>3
  <2>6. \A i \in 1 .. n - 1 : rest[i] = IF i = at THEN edges[n] ELSE edges[i]
    BY <2>2, <2>3
  <2> HIDE DEF n
  <2>7. ASSUME NEW y PROVE y \in ToSet(rest) <=> y \in ToSet(edges) \ {m}
    <3>1. ASSUME NEW i \in 1 .. n - 1, y = rest[i]
          PROVE  y \in ToSet(edges) \ {m}
      <4>1. CASE i = at
        <5>1. y = edges[n]
          BY <2>6, <3>1, <4>1
        <5>2. n # at /\ n \in 1 .. n
          BY <2>0, <2>1, <3>1, <4>1
        <5>3. n \in DOMAIN edges /\ at \in DOMAIN edges
          BY <2>0, <2>1, <5>2
        <5>4. y # m
          BY <5>1, <5>2, <5>3, <2>1 DEF Single
        <5> QED  BY <5>1, <5>3, <5>4 DEF ToSet
      <4>2. CASE i # at
        <5>1. y = edges[i] /\ i \in DOMAIN edges /\ at \in DOMAIN edges
          BY <2>0, <2>1, <2>6, <3>1, <4>2
        <5>2. y # m
          BY <5>1, <4>2, <2>1 DEF Single
        <5> QED  BY <5>1, <5>2 DEF ToSet
      <4> QED  BY <4>1, <4>2
    <3>2. ASSUME NEW j \in 1 .. n, y = edges[j], y # m
          PROVE  y \in ToSet(rest)
      <4>1. CASE j = n
        <5>1. at \in 1 .. n - 1
          BY <2>1, <3>2, <4>1
        <5>2. rest[at] = y
          BY <5>1, <2>6, <3>2, <4>1
        <5> QED  BY <5>1, <5>2, <2>5 DEF ToSet
      <4>2. CASE j # n
        <5>1. j \in 1 .. n - 1
          BY <2>0, <4>2
        <5>0. j # at
          BY <2>1, <3>2
        <5>2. rest[j] = y
          BY <5>0, <5>1, <2>6, <3>2
        <5> QED  BY <5>1, <5>2, <2>5 DEF ToSet
      <4> QED  BY <4>1, <4>2
    <3> QED  BY <3>1, <3>2, <2>0, <2>5 DEF ToSet
  <2>8. Single(rest)
    <3> SUFFICES ASSUME NEW i \in 1 .. n - 1, NEW j \in 1 .. n - 1, rest[i] = rest[j]
                 PROVE  i = j
      BY <2>5 DEF Single
    <3>1. \A k, l \in 1 .. n : edges[k] = edges[l] => k = l
      BY <2>0 DEF Single
    <3> QED  BY <3>1, <2>6, <2>0
  <2> QED  BY <2>3, <2>4, <2>7, <2>8, <1>2
<1> QED  BY <1>1, <1>2

(* A disposed node keeps no edge in either direction. *)
LEMMA DetachedOK ==
  ASSUME NEW g, NEW L, GraphOK(g, L), NEW n \in Nodes
  PROVE  /\ GraphOK(Detached(g, n), L \ {n})
         /\ Detached(g, n).slot = g.slot
         /\ \A d \in Readers : 
              /\ d = n => Detached(g, n).deps[d] = <<>>
              /\ d # n => Detached(g, n).deps[d] = SwapRemoved(g.deps[d], n)
              /\ ToSet(Detached(g, n).deps[d]) \subseteq ToSet(g.deps[d])
              /\ d # n /\ n \notin ToSet(g.deps[d]) => Detached(g, n).deps[d] = g.deps[d]
         /\ \A x \in Sources \cup Slots :
              Detached(g, n).dependents[x] = IF x = n THEN {} ELSE g.dependents[x] \ {n}
<1> DEFINE h == Detached(g, n)
           deps == [d \in Readers |-> IF d = n THEN <<>> ELSE SwapRemoved(g.deps[d], n)]
           dependents == [x \in DOMAIN g.dependents |-> IF x = n THEN {} ELSE g.dependents[x] \ {n}]
<1>0. /\ g \in Graphs /\ g.deps \in [Readers -> Seq(Sources \cup Slots)]
      /\ g.dependents \in [Sources \cup Slots -> SUBSET Readers]
  BY DEF GraphOK, Graphs
<1>1. h = [g EXCEPT !.dependents = dependents, !.deps = deps, !.forceRun = @ \ {n}]
  BY <1>0 DEF Detached
<1>2. ASSUME NEW d \in Readers
      PROVE  /\ SwapRemoved(g.deps[d], n) \in Seq(Sources \cup Slots)
             /\ ToSet(SwapRemoved(g.deps[d], n)) = ToSet(g.deps[d]) \ {n}
             /\ Single(SwapRemoved(g.deps[d], n))
             /\ n \notin ToSet(g.deps[d]) => SwapRemoved(g.deps[d], n) = g.deps[d]
  <2>1. g.deps[d] \in Seq(Sources \cup Slots) /\ Single(g.deps[d])
    BY <1>0 DEF GraphOK
  <2> QED  BY <2>1, SwapRemovedParts
<1>3. /\ deps \in [Readers -> Seq(Sources \cup Slots)]
      /\ dependents \in [Sources \cup Slots -> SUBSET Readers]
      /\ \A d \in Readers : deps[d] = IF d = n THEN <<>> ELSE SwapRemoved(g.deps[d], n)
      /\ \A x \in Sources \cup Slots : dependents[x] = IF x = n THEN {} ELSE g.dependents[x] \ {n}
  BY <1>0, <1>2
<1> HIDE DEF deps, dependents, h
<1>4. /\ h \in Graphs /\ h.deps = deps /\ h.dependents = dependents /\ h.slot = g.slot
  BY <1>0, <1>1, <1>3 DEF Graphs
<1>5. ToSet(<<>>) = {} /\ Single(<<>>)
  BY DEF ToSet, Single
<1>6. Mirror(h, L \ {n})
  <2> SUFFICES ASSUME NEW d \in Readers, NEW x \in Sources \cup Slots
               PROVE  /\ x \in ToSet(h.deps[d]) <=> d \in h.dependents[x]
                      /\ d \in h.dependents[x] => d \in L \ {n} /\ x \in L \ {n}
    BY DEF Mirror
  <2>1. /\ x \in ToSet(g.deps[d]) <=> d \in g.dependents[x]
        /\ d \in g.dependents[x] => d \in L /\ x \in L
    BY DEF GraphOK, Mirror
  <2>2. CASE d = n
    BY <1>3, <1>4, <1>5, <2>2
  <2>3. CASE d # n
    <3>1. ToSet(h.deps[d]) = ToSet(g.deps[d]) \ {n}
      BY <1>2, <1>3, <1>4, <2>3
    <3>2. h.dependents[x] = IF x = n THEN {} ELSE g.dependents[x] \ {n}
      BY <1>3, <1>4
    <3> QED  BY <2>1, <2>3, <3>1, <3>2
  <2> QED  BY <2>2, <2>3
<1>7. \A d \in Readers : Single(h.deps[d])
  BY <1>2, <1>3, <1>4, <1>5
<1>8. \A s \in Slots : h.slot[s].has => h.slot[s].value \in Values
  BY <1>4 DEF GraphOK
<1> QED  BY <1>2, <1>3, <1>4, <1>5, <1>6, <1>7, <1>8 DEF GraphOK, h

LEMMA SameRecord ==
  ASSUME NEW q \in SlotRecords, NEW r \in SlotRecords, q.value = r.value, q.has = r.has,
         q.dirty = r.dirty, q.force = r.force, q.busy = r.busy
  PROVE  q = r
<1>1. q = [value |-> q.value, has |-> q.has, dirty |-> q.dirty, force |-> q.force, busy |-> q.busy]
  BY DEF SlotRecords
<1>2. r = [value |-> r.value, has |-> r.has, dirty |-> r.dirty, force |-> r.force, busy |-> r.busy]
  BY DEF SlotRecords
<1> QED  BY <1>1, <1>2

LEMMA Cleaned ==
  ASSUME NEW q \in SlotRecords, NEW s,
         s = [q EXCEPT !.dirty = FALSE, !.force = FALSE, !.busy = FALSE]
  PROVE  /\ s \in SlotRecords /\ s.dirty = FALSE /\ s.force = FALSE /\ s.busy = FALSE
         /\ s.value = q.value /\ s.has = q.has
BY DEF SlotRecords

LEMMA Valued ==
  ASSUME NEW q \in SlotRecords, NEW v \in Values, NEW s, s = [q EXCEPT !.value = v, !.has = TRUE]
  PROVE  /\ s \in SlotRecords /\ s.dirty = q.dirty /\ s.force = q.force /\ s.busy = q.busy
         /\ s.value = v /\ s.has = TRUE
BY DEF SlotRecords

(* The record of one slot changes. *)
Put(g, n, r) == [g EXCEPT !.slot[n] = r]

LEMMA SlotSetOK ==
  ASSUME NEW g, NEW L, GraphOK(g, L), NEW n \in Slots, NEW r \in SlotRecords, r.has => r.value \in Values,
         NEW h, h = Put(g, n, r)
  PROVE  /\ GraphOK(h, L)
         /\ h.deps = g.deps /\ h.dependents = g.dependents
         /\ h.slot[n] = r
         /\ \A m \in Slots : m # n => h.slot[m] = g.slot[m]
<1> DEFINE slot == [g.slot EXCEPT ![n] = r]
<1>1. g \in Graphs /\ g.slot \in [Slots -> SlotRecords]
  BY DEF GraphOK, Graphs
<1>2. /\ slot \in [Slots -> SlotRecords] /\ slot[n] = r
      /\ \A m \in Slots : m # n => slot[m] = g.slot[m]
  BY <1>1
<1>3. h = [g EXCEPT !.slot = slot]
  BY <1>1 DEF Graphs, Put
<1> HIDE DEF slot
<1>4. h \in Graphs /\ h.slot = slot /\ h.deps = g.deps /\ h.dependents = g.dependents
  BY <1>1, <1>2, <1>3 DEF Graphs
<1>5. \A m \in Slots : h.slot[m].has => h.slot[m].value \in Values
  BY <1>2, <1>4 DEF GraphOK
<1>6. Mirror(h, L) /\ \A c \in Readers : Single(h.deps[c])
  BY <1>4 DEF GraphOK, Mirror
<1> QED  BY <1>2, <1>4, <1>5, <1>6 DEF GraphOK

Busied(g, n) == [g EXCEPT !.slot[n].busy = TRUE]

LEMMA BusiedOK ==
  ASSUME NEW g, NEW L, GraphOK(g, L), NEW n \in Slots, NEW h, h = Busied(g, n)
  PROVE  /\ GraphOK(h, L)
         /\ h.deps = g.deps /\ h.dependents = g.dependents
         /\ h.slot[n] = [g.slot[n] EXCEPT !.busy = TRUE]
         /\ \A m \in Slots : m # n => h.slot[m] = g.slot[m]
<1> DEFINE r == [g.slot[n] EXCEPT !.busy = TRUE]
<1>1. g \in Graphs /\ g.slot \in [Slots -> SlotRecords] /\ g.slot[n] \in SlotRecords
  BY DEF GraphOK, Graphs
<1>2. r \in SlotRecords /\ (r.has => r.value \in Values)
  BY <1>1 DEF SlotRecords, GraphOK
<1>3. h = Put(g, n, r)
  BY <1>1 DEF Busied, Graphs, Put
<1> HIDE DEF r
<1>4. /\ GraphOK(h, L) /\ h.deps = g.deps /\ h.dependents = g.dependents
      /\ h.slot[n] = r /\ \A m \in Slots : m # n => h.slot[m] = g.slot[m]
  BY <1>2, <1>3, SlotSetOK
<1> QED  BY <1>4 DEF r

Held(v) == [value |-> v, has |-> TRUE, dirty |-> FALSE, force |-> FALSE, busy |-> FALSE]

(* recomputeSlotNow puts v in the slot, and if that is a change it marks    *)
(* whoever reads it.                                                       *)
LEMMA StoreParts ==
  ASSUME NEW g, NEW L, GraphOK(g, L), NEW n \in Slots, NEW v \in Values, NEW h \in Store(g, n, v),
         NEW k, k = Put(g, n, Held(v))
  PROVE  /\ GraphOK(h, L) /\ GraphOK(k, L)
         /\ k.deps = g.deps /\ k.dependents = g.dependents
         /\ k.slot[n] = Held(v)
         /\ \A m \in Slots : m # n => k.slot[m] = g.slot[m]
         /\ IF g.slot[n].has /\ g.slot[n].value # v
            THEN h \in Invalidated(k, g.dependents[n]) /\ MarkedFrom(k, h, g.dependents[n])
            ELSE h = k
<1> DEFINE s == [g.slot[n] EXCEPT !.dirty = FALSE, !.force = FALSE, !.busy = FALSE]
           r == [s EXCEPT !.value = v, !.has = TRUE]
           changed == g.slot[n].has /\ g.slot[n].value # v
<1>1. g \in Graphs /\ g.slot \in [Slots -> SlotRecords] /\ g.slot[n] \in SlotRecords
  BY DEF GraphOK, Graphs
<1>2. /\ s \in SlotRecords /\ s.has = g.slot[n].has /\ s.value = g.slot[n].value
      /\ s.dirty = FALSE /\ s.force = FALSE /\ s.busy = FALSE
  BY <1>1, Cleaned
<1> HIDE DEF s
<1>2a. /\ Held(v) \in SlotRecords /\ Held(v).value = v /\ Held(v).has = TRUE
       /\ Held(v).dirty = FALSE /\ Held(v).force = FALSE /\ Held(v).busy = FALSE
  BY DEF SlotRecords, Held
<1>2b. r = Held(v)
  <2>1. /\ r \in SlotRecords /\ r.dirty = s.dirty /\ r.force = s.force /\ r.busy = s.busy
        /\ r.value = v /\ r.has = TRUE
    BY <1>2, Valued
  <2> HIDE DEF r
  <2> QED  BY <2>1, <1>2, <1>2a, SameRecord
<1>2c. g.slot[n].has /\ g.slot[n].value = v => s = Held(v)
  <2>1. g.slot[n].has \in BOOLEAN
    BY <1>1 DEF SlotRecords
  <2> QED  BY <2>1, <1>2, <1>2a, SameRecord
<1>3. /\ GraphOK(k, L)
      /\ k.deps = g.deps /\ k.dependents = g.dependents
      /\ k.slot[n] = Held(v)
      /\ \A m \in Slots : m # n => k.slot[m] = g.slot[m]
  BY <1>2a, SlotSetOK
<1>4. h \in IF s.has /\ s.value = v THEN {Put(g, n, s)}
            ELSE IF s.has THEN Invalidated(Put(g, n, r), Put(g, n, r).dependents[n])
            ELSE {Put(g, n, r)}
  BY Zenon DEF Store, s, Put
<1> HIDE DEF r
<1>5. CASE ~changed
  <2>1. h = Put(g, n, Held(v))
    BY <1>2, <1>2b, <1>2c, <1>4, <1>5
  <2> QED  BY <2>1, <1>3, <1>5
<1>6. CASE changed
  <2>1. h \in Invalidated(k, k.dependents[n])
    BY <1>2, <1>2b, <1>4, <1>6
  <2>2. k \in Graphs /\ k.dependents[n] \in SUBSET Readers
    BY <1>3 DEF GraphOK, Graphs
  <2>3. h \in Graphs /\ MarkedFrom(k, h, k.dependents[n])
    BY <2>1, <2>2, InvalidatedParts
  <2>4. GraphOK(h, L)
    BY <2>3, <1>3, MarkedOK
  <2> QED  BY <2>1, <2>3, <2>4, <1>3, <1>6
<1> QED  BY <1>5, <1>6

-----------------------------------------------------------------------------
LEMMA FrontOf ==
  ASSUME NEW S, NEW s \in Seq(S), s # <<>>
  PROVE  /\ Front(s) \in Seq(S) /\ Len(Front(s)) = Len(s) - 1
         /\ \A i \in 1 .. Len(s) - 1 : Front(s)[i] = s[i]
<1>1. 1 \in Int /\ Len(s)-1 \in Nat /\ \A i \in 1 .. Len(s) - 1 : s[i] \in S
  OBVIOUS
<1> DEFINE k == Len(s) - 1
<1>2. SubSeq(s, 1, k) \in Seq(S) /\ Len(SubSeq(s, 1, k)) = IF 1 <= k THEN k - 1 + 1 ELSE 0
  BY <1>1, SubSeqProperties
<1>3. \A i \in 1 .. k - 1 + 1 : SubSeq(s, 1, k)[i] = s[1 + i - 1]
  BY <1>1, SubSeqProperties
<1>4. Front(s) = SubSeq(s, 1, k)
  BY DEF Front
<1>5. k \in Nat
  BY <1>1
<1> HIDE DEF k
<1>6. (IF 1 <= k THEN k - 1 + 1 ELSE 0) = k /\ k - 1 + 1 = k
  BY <1>5
<1>7. \A i \in 1 .. k : 1 + i - 1 = i
  BY <1>5
<1>8. Front(s) \in Seq(S) /\ Len(Front(s)) = k /\ \A i \in 1 .. k : Front(s)[i] = s[i]
  BY <1>2, <1>3, <1>4, <1>6, <1>7
<1> QED BY <1>8 DEF k

LEMMA FrontLast ==
  ASSUME NEW S, NEW s \in Seq(S), s # <<>>
  PROVE  /\ Front(s) \in Seq(S) /\ Len(Front(s)) = Len(s) - 1 /\ Len(s) \in Nat \ {0}
         /\ Last(s) \in S /\ Last(s) = s[Len(s)]
         /\ \A i \in 1 .. Len(s) - 1 : Front(s)[i] = s[i]
<1>1. Len(s) \in Nat \ {0}
  OBVIOUS
<1>2. Last(s) \in S /\ Last(s) = s[Len(s)]
  BY <1>1 DEF Last
<1> QED  BY <1>1, <1>2, FrontOf

(* The innermost activation ends. *)
LEMMA PopOK ==
  ASSUME NEW g, NEW L, NEW s, StackOK(g, L, s), s # <<>>
  PROVE  StackOK(g, L, Front(s))
<1> DEFINE t == Front(s)
<1>1. s \in Seq(Frames)
  BY DEF StackOK
<1>2. /\ t \in Seq(Frames) /\ Len(t) = Len(s) - 1 /\ Len(s) \in Nat \ {0}
      /\ \A i \in 1 .. Len(s) - 1 : t[i] = s[i]
  BY <1>1, FrontLast
<1> HIDE DEF t
<1>3. /\ DOMAIN t = 1 .. Len(s) - 1 /\ DOMAIN s = 1 .. Len(s)
      /\ \A i \in DOMAIN t : i \in DOMAIN s /\ t[i] = s[i] /\ (i > 1 => i - 1 \in DOMAIN t)
      /\ t # <<>> => 1 \in DOMAIN t
  BY <1>1, <1>2
<1>4. StackOK(g, L, t)
  BY <1>2, <1>3 DEF StackOK
<1> QED  BY <1>4 DEF t

(* A new one begins. *)
LEMMA PushOK ==
  ASSUME NEW g, NEW L, NEW s, StackOK(g, L, s), NEW f, FrameOK(g, L, f),
         s = <<>> => ~OfEffect(f),
         s # <<>> => PairOK(g, Last(s), f),
         \A i \in DOMAIN s : s[i].op = "flush" => f.op # "flush",
         \A i \in DOMAIN s : s[i].op # "flush" /\ f.op # "flush" => s[i].node # f.node
  PROVE  StackOK(g, L, Append(s, f))
<1> DEFINE t == Append(s, f)
           n == Len(s)
<1>1. s \in Seq(Frames) /\ f \in Frames
  BY DEF StackOK, FrameOK
<1>2. /\ n \in Nat /\ DOMAIN s = 1 .. n /\ DOMAIN t = 1 .. n + 1
      /\ t \in Seq(Frames) /\ t[n + 1] = f
      /\ \A i \in 1 .. n : t[i] = s[i]
      /\ (s = <<>>) = (n = 0)
  BY <1>1
<1> HIDE DEF t
<1>3. \A i \in DOMAIN t : FrameOK(g, L, t[i])
  BY <1>2 DEF StackOK
<1>4. ASSUME NEW i \in DOMAIN t, i > 1
      PROVE  PairOK(g, t[i - 1], t[i])
  <2>1. CASE i = n + 1
    <3>1. s # <<>> /\ t[i - 1] = Last(s) /\ t[i] = f
      BY <1>2, <1>4, <2>1 DEF Last
    <3> QED  BY <3>1
  <2>2. CASE i # n + 1
    <3>1. i \in 1 .. n /\ i - 1 \in 1 .. n
      BY <1>2, <1>4, <2>2
    <3> QED  BY <3>1, <1>2, <1>4 DEF StackOK
  <2> QED  BY <2>1, <2>2
<1>5. ~OfEffect(t[1])
  <2>1. CASE n = 0
    BY <2>1, <1>2
  <2>2. CASE n # 0
    BY <2>2, <1>2 DEF StackOK
  <2> QED  BY <2>1, <2>2
<1>6. \A i, j \in DOMAIN t : t[i].op = "flush" /\ t[j].op = "flush" => i = j
  <2> SUFFICES ASSUME NEW i \in DOMAIN t, NEW j \in DOMAIN t, t[i].op = "flush", t[j].op = "flush"
               PROVE  i = j
    OBVIOUS
  <2>1. \A x \in DOMAIN t : x = n + 1 \/ x \in DOMAIN s
    BY <1>2
  <2> QED  BY <2>1, <1>2 DEF StackOK
<1>7. \A i, j \in DOMAIN t : t[i].op # "flush" /\ t[j].op # "flush" /\ t[i].node = t[j].node => i = j
  <2> SUFFICES ASSUME NEW i \in DOMAIN t, NEW j \in DOMAIN t, t[i].op # "flush", t[j].op # "flush",
                      t[i].node = t[j].node
               PROVE  i = j
    OBVIOUS
  <2>1. \A x \in DOMAIN t : x = n + 1 \/ x \in DOMAIN s
    BY <1>2
  <2> QED  BY <2>1, <1>2 DEF StackOK
<1>8. StackOK(g, L, t)
  BY <1>2, <1>3, <1>4, <1>5, <1>6, <1>7 DEF StackOK
<1> QED  BY <1>8 DEF t

(* The innermost one goes on, at the same node. *)
LEMMA SwapOK ==
  ASSUME NEW g, NEW L, NEW s, StackOK(g, L, s), s # <<>>, NEW f, FrameOK(g, L, f),
         f.op # "flush", Last(s).op # "flush", f.node = Last(s).node
  PROVE  StackOK(g, L, Append(Front(s), f))
<1> DEFINE b == Front(s)
           n == Len(s)
<1>1. s \in Seq(Frames)
  BY DEF StackOK
<1>2. /\ b \in Seq(Frames) /\ Len(b) = n - 1 /\ n \in Nat \ {0}
      /\ Last(s) = s[n] /\ DOMAIN s = 1 .. n
      /\ \A i \in 1 .. n - 1 : b[i] = s[i]
  BY <1>1, FrontLast
<1> HIDE DEF b, n
<1>3. StackOK(g, L, b)
  BY PopOK DEF b
<1>4. OfEffect(f) = OfEffect(Last(s)) /\ OfSlot(f) = OfSlot(Last(s))
  BY DEF OfEffect, OfSlot
<1>5. b = <<>> => ~OfEffect(f)
  <2>1. b = <<>> => n = 1
    BY <1>2
  <2>2. ~OfEffect(s[1])
    BY DEF StackOK
  <2> QED  BY <2>1, <2>2, <1>2, <1>4
<1>6. b # <<>> => PairOK(g, Last(b), f)
  <2> SUFFICES ASSUME b # <<>> PROVE PairOK(g, Last(b), f)
    OBVIOUS
  <2>1. n - 1 \in 1 .. n - 1 /\ n > 1
    BY <1>2
  <2>2. Last(b) = s[n - 1]
    BY <1>2, <2>1 DEF Last
  <2>3. PairOK(g, s[n - 1], s[n])
    BY <1>2, <2>1 DEF StackOK
  <2> QED  BY <2>2, <2>3, <1>2, <1>4 DEF PairOK
<1>7. \A i \in DOMAIN b : b[i].op # "flush" => b[i].node # f.node
  <2> SUFFICES ASSUME NEW i \in DOMAIN b, b[i].op # "flush" PROVE b[i].node # f.node
    OBVIOUS
  <2>1. i \in 1 .. n - 1 /\ i \in DOMAIN s /\ n \in DOMAIN s /\ i # n /\ b[i] = s[i]
    BY <1>2
  <2> QED  BY <2>1, <1>2 DEF StackOK
<1>8. StackOK(g, L, Append(b, f))
  BY <1>3, <1>5, <1>6, <1>7, PushOK
<1> QED  BY <1>8 DEF b

(* The graph changes in a way that no activation minds. *)
LEMMA CarryOK ==
  ASSUME NEW g, NEW h, NEW L, NEW s, StackOK(g, L, s),
         \A i \in DOMAIN s : OfSlot(s[i]) =>
            h.slot[s[i].node].busy /\ (g.slot[s[i].node].has => h.slot[s[i].node].has),
         \A i \in DOMAIN s : i # Len(s) /\ s[i].op # "flush" => h.deps[s[i].node] = g.deps[s[i].node]
  PROVE  StackOK(h, L, s)
<1>1. s \in Seq(Frames) /\ DOMAIN s = 1 .. Len(s) /\ Len(s) \in Nat
  BY DEF StackOK
<1>2. \A i \in DOMAIN s : FrameOK(h, L, s[i])
  <2> SUFFICES ASSUME NEW i \in DOMAIN s PROVE FrameOK(h, L, s[i])
    OBVIOUS
  <2>1. FrameOK(g, L, s[i])
    BY DEF StackOK
  <2>2. s[i].op = "refresh" => OfSlot(s[i])
    BY <2>1 DEF FrameOK, Frames, RefreshFrames, ShouldFrames, BodyFrames, FlushFrames, OfSlot
  <2> QED  BY <2>1, <2>2 DEF FrameOK
<1>3. ASSUME NEW i \in DOMAIN s, i > 1
      PROVE  PairOK(h, s[i - 1], s[i])
  <2>1. PairOK(g, s[i - 1], s[i])
    BY <1>3 DEF StackOK
  <2>2. i - 1 \in DOMAIN s /\ i - 1 # Len(s)
    BY <1>1, <1>3
  <2>3. s[i - 1].op # "flush" => h.deps[s[i - 1].node] = g.deps[s[i - 1].node]
    BY <2>2
  <2>4. \A n : Calls(g, s[i - 1], n) => Calls(h, s[i - 1], n)
    BY <2>3 DEF Calls
  <2> QED  BY <2>1, <2>4 DEF PairOK
<1> QED  BY <1>2, <1>3 DEF StackOK

LEMMA FrameKinds ==
  ASSUME NEW f \in Frames
  PROVE  /\ f.op \in {"refresh", "should", "body", "flush"}
         /\ f.op = "refresh" => f.node \in Slots /\ f.i \in Nat \ {0} /\ f.changed \in BOOLEAN /\ f \in RefreshFrames
         /\ f.op = "should" => f.node \in Effects /\ f.i \in Nat \ {0} /\ f.changed \in BOOLEAN /\ f \in ShouldFrames
         /\ f.op = "body" => f.node \in Readers /\ f.seen \in Seq(Values) /\ f \in BodyFrames
         /\ f.op = "flush" => f = FlushFrame
BY DEF Frames, RefreshFrames, ShouldFrames, BodyFrames, FlushFrames, FlushFrame

(* What the next instruction of a body can be. *)
LEMMA NextInstruction ==
  ASSUME NEW c \in Readers, NEW seen \in Seq(Values), Len(seen) <= MaxReads
  PROVE  LET i == Body(c, seen) IN
         \/ i.do = "read" /\ i.node \in Sources \cup Slots /\ Len(seen) < MaxReads
         \/ i.do = "set" /\ i.node \in Sources /\ i.value \in Values /\ Len(seen) < MaxReads
         \/ i.do = "return" /\ i.value \in Values
         \/ i.do = "throw"
<1>1. Len(seen) \in 0 .. MaxReads /\ seen \in [1 .. Len(seen) -> Values]
  BY BoundsAssumption
<1>2. c \in Slots \cup Effects
  BY DEF Readers
<1> QED  BY <1>1, <1>2, BodiesAssumption

(* The frame that asked takes the answer. *)
LEMMA AbsorbOK ==
  ASSUME NEW g, NEW L, NEW f, FrameOK(g, L, f), NEW n \in Slots, Calls(g, f, n),
         g.slot[n].has, g.slot[n].value \in Values, NEW changed \in BOOLEAN
  PROVE  /\ FrameOK(g, L, Absorb(g, f, n, changed))
         /\ Absorb(g, f, n, changed).op = f.op /\ f.op # "flush"
         /\ Absorb(g, f, n, changed).node = f.node
<1> DEFINE a == Absorb(g, f, n, changed)
<1>0. f \in Frames
  BY DEF FrameOK
<1>1. CASE f.op = "body"
  <2>1. f \in BodyFrames /\ f.node \in Readers /\ f.seen \in Seq(Values)
    BY <1>0, <1>1, FrameKinds
  <2>2. a = [f EXCEPT !.seen = Append(@, g.slot[n].value)]
    BY <1>1 DEF Absorb
  <2>3. Append(f.seen, g.slot[n].value) \in Seq(Values) /\ Len(Append(f.seen, g.slot[n].value)) = Len(f.seen) + 1
    BY <2>1
  <2> HIDE DEF a
  <2>4. a \in BodyFrames /\ a.op = "body" /\ a.node = f.node /\ a.seen = Append(f.seen, g.slot[n].value)
    BY <2>1, <2>2, <2>3 DEF BodyFrames
  <2>5. Len(f.seen) <= MaxReads /\ Body(f.node, f.seen).do = "read"
    BY <1>1 DEF FrameOK, Calls
  <2>6. Len(f.seen) < MaxReads
    BY <2>1, <2>5, NextInstruction
  <2>7. Len(a.seen) <= MaxReads
    BY <2>1, <2>3, <2>4, <2>6, BoundsAssumption
  <2>8. /\ f.node \in L /\ (OfSlot(f) => g.slot[f.node].busy)
        /\ OfSlot(a) => OfSlot(f)
    BY <1>1, <2>4 DEF FrameOK, OfSlot
  <2>9. FrameOK(g, L, a)
    BY <2>4, <2>7, <2>8 DEF FrameOK, Frames
  <2> QED  BY <2>4, <2>9, <1>1 DEF a
<1>2. CASE f.op \in {"refresh", "should"}
  <2>1. /\ f \in RefreshFrames \cup ShouldFrames /\ f.i \in Nat \ {0} /\ f.changed \in BOOLEAN
    BY <1>0, <1>2, FrameKinds
  <2>2. a = [f EXCEPT !.i = @ + 1, !.changed = @ \/ changed]
    BY <1>2 DEF Absorb
  <2> HIDE DEF a
  <2>3. /\ a \in RefreshFrames \cup ShouldFrames /\ a.op = f.op /\ a.node = f.node
        /\ f.changed => a.changed
    <3>1. f.i + 1 \in Nat \ {0} /\ (f.changed \/ changed) \in BOOLEAN
      BY <2>1
    <3>2. CASE f \in RefreshFrames
      BY <2>2, <3>1, <3>2 DEF RefreshFrames
    <3>3. CASE f \in ShouldFrames
      BY <2>2, <3>1, <3>3 DEF ShouldFrames
    <3> QED  BY <2>1, <3>2, <3>3
  <2>4. /\ f.node \in L /\ (OfSlot(f) => g.slot[f.node].busy)
        /\ f.op = "refresh" => f.changed \/ g.slot[f.node].has
        /\ OfSlot(a) => OfSlot(f)
    BY <1>2, <2>3 DEF FrameOK, OfSlot
  <2>5. FrameOK(g, L, a)
    BY <1>2, <2>3, <2>4 DEF FrameOK, Frames
  <2> QED  BY <2>3, <2>5, <1>2 DEF a
<1> QED  BY <1>0, <1>1, <1>2 DEF Calls

(* A refresh hands its answer to the activation below. *)
LEMMA ReturnOK ==
  ASSUME NEW h, NEW L, GraphOK(h, L), stack # <<>>, stack \in Seq(Frames), StackOK(h, L, Front(stack)),
         NEW n \in Slots, h.slot[n].has, NEW changed \in BOOLEAN,
         Front(stack) # <<>> => Calls(h, Last(Front(stack)), n)
  PROVE  StackOK(h, L, Return(h, n, changed))
<1> DEFINE b == Front(stack)
           a == Absorb(h, Last(b), n, changed)
<1>1. CASE b = <<>>
  BY <1>1 DEF Return
<1>2. CASE b # <<>>
  <2>1. b \in Seq(Frames)
    BY FrontOf
  <2> HIDE DEF b
  <2>2. FrameOK(h, L, Last(b))
    <3>1. Last(b) = b[Len(b)] /\ Len(b) \in DOMAIN b
      BY <2>1, <1>2 DEF Last
    <3> QED  BY <3>1 DEF StackOK, b
  <2>3. h.slot[n].value \in Values
    BY DEF GraphOK
  <2>4. FrameOK(h, L, a) /\ a.op = Last(b).op /\ Last(b).op # "flush" /\ a.node = Last(b).node
    BY <2>2, <2>3, <1>2, AbsorbOK DEF b
  <2>5. StackOK(h, L, b)
    BY DEF b
  <2> HIDE DEF a
  <2>6. StackOK(h, L, Append(Front(b), a))
    BY <2>4, <2>5, <1>2, SwapOK
  <2> QED  BY <2>6, <1>2 DEF Return, a, b
<1> QED  BY <1>1, <1>2

(* The frame on top. *)
LEMMA TopOK ==
  ASSUME NEW g, NEW L, StackOK(g, L, stack), stack # <<>>
  PROVE  /\ stack \in Seq(Frames) /\ FrameOK(g, L, Top) /\ Top \in Frames
         /\ Len(stack) \in DOMAIN stack /\ Top = stack[Len(stack)]
         /\ Len(stack) \in Nat \ {0} /\ DOMAIN stack = 1 .. Len(stack)
<1>1. stack \in Seq(Frames)
  BY DEF StackOK
<1>2. Len(stack) \in DOMAIN stack /\ Top = stack[Len(stack)] /\ Len(stack) \in Nat \ {0} /\ DOMAIN stack = 1 .. Len(stack)
  BY <1>1 DEF Top, Last
<1> QED  BY <1>1, <1>2 DEF StackOK, FrameOK

(* What the frame below the top called is what runs on top. *)
LEMMA BelowCalls ==
  ASSUME NEW g, NEW L, StackOK(g, L, stack), stack # <<>>, OfSlot(Top), Front(stack) # <<>>
  PROVE  Calls(g, Last(Front(stack)), Top.node)
<1>1. /\ stack \in Seq(Frames) /\ Top = stack[Len(stack)] /\ Len(stack) \in Nat \ {0} /\ DOMAIN stack = 1 .. Len(stack)
  <2>1. stack \in Seq(Frames)
    BY DEF StackOK
  <2> QED  BY <2>1 DEF Top, Last
<1> DEFINE b == Front(stack)
           n == Len(stack)
<1>2. b \in Seq(Frames) /\ Len(b) = n - 1 /\ \A i \in 1 .. n - 1 : b[i] = stack[i]
  BY <1>1, FrontLast
<1> HIDE DEF b, n
<1>3. n \in Nat /\ n - 1 # 0 /\ n # 0
  BY <1>1, <1>2 DEF b, n
<1>4. n - 1 \in 1 .. n - 1 /\ n > 1 /\ n \in 1 .. n
  BY <1>3
<1>5. Last(b) = stack[n - 1]
  BY <1>2, <1>4 DEF Last
<1>6. PairOK(g, stack[n - 1], stack[n])
  BY <1>1, <1>4 DEF StackOK, n
<1> QED  BY <1>1, <1>5, <1>6 DEF PairOK, b, n

(* A slot that is not being refreshed is on no frame. *)
LEMMA NotBusy ==
  ASSUME NEW g, NEW L, StackOK(g, L, stack), NEW n \in Slots, ~g.slot[n].busy
  PROVE  \A i \in DOMAIN stack : stack[i].op # "flush" => stack[i].node # n
BY DEF StackOK, FrameOK, OfSlot

LEMMA EmptyOK == ASSUME NEW g, NEW L PROVE StackOK(g, L, <<>>)
<1>1. <<>> \in Seq(Frames) /\ DOMAIN <<>> = {}
  OBVIOUS
<1> QED  BY <1>1 DEF StackOK

(* An error leaves a graph in order. *)
LEMMA FailOK ==
  ASSUME NEW g, NEW L, GraphOK(g, L), NEW kind, Fail(g, kind)
  PROVE  /\ GraphOK(graph', L) /\ stack' = <<>>
         /\ graph'.deps = g.deps /\ graph'.dependents = g.dependents
         /\ \A n \in Slots : /\ graph'.slot[n].has = g.slot[n].has
                           /\ graph'.slot[n].value = g.slot[n].value
                           /\ graph'.slot[n].dirty = g.slot[n].dirty
                           /\ graph'.slot[n].force = g.slot[n].force
         /\ UNCHANGED <<source, live, batching, batched>>
<1> DEFINE slot == [n \in Slots |-> [g.slot[n] EXCEPT !.busy = FALSE]]
<1>1. g \in Graphs /\ g.slot \in [Slots -> SlotRecords]
  BY DEF GraphOK, Graphs
<1>2. graph' = [g EXCEPT !.slot = slot] /\ stack' = <<>> /\ UNCHANGED <<source, live, batching, batched>>
  BY DEF Fail, Kept
<1>3. ASSUME NEW n \in Slots
      PROVE  /\ slot[n] \in SlotRecords
             /\ slot[n].has = g.slot[n].has /\ slot[n].value = g.slot[n].value
             /\ slot[n].dirty = g.slot[n].dirty /\ slot[n].force = g.slot[n].force
  <2>1. g.slot[n] \in SlotRecords /\ slot[n] = [g.slot[n] EXCEPT !.busy = FALSE]
    BY <1>1
  <2> HIDE DEF slot
  <2> QED  BY <2>1 DEF SlotRecords
<1>4. slot \in [Slots -> SlotRecords]
  BY <1>3
<1> HIDE DEF slot
<1>5. /\ graph' \in Graphs /\ graph'.slot = slot
      /\ graph'.deps = g.deps /\ graph'.dependents = g.dependents
  BY <1>1, <1>2, <1>4 DEF Graphs
<1>6. GraphOK(graph', L)
  BY <1>3, <1>5 DEF GraphOK, Mirror
<1> QED  BY <1>2, <1>3, <1>5, <1>6

(* refreshSlot is called. *)
LEMMA CallRefreshOK ==
  ASSUME NEW g, GraphOK(g, live), StackOK(g, live, stack), stack # <<>>,
         NEW n \in Slots \cap live, Calls(g, Top, n), CallRefresh(g, n)
  PROVE  /\ GraphOK(graph', live) /\ StackOK(graph', live, stack')
         /\ UNCHANGED <<source, live, batching, batched>>
<1>0. /\ stack \in Seq(Frames) /\ FrameOK(g, live, Top)
      /\ Top = Last(stack)
  BY TopOK DEF Top
<1>1. CASE Cached(g, n)
  <2>1. graph' = g /\ stack' = Replace(Absorb(g, Top, n, FALSE)) /\ Kept
    BY <1>1 DEF CallRefresh
  <2>2. g.slot[n].has /\ g.slot[n].value \in Values
    BY <1>1 DEF Cached, GraphOK
  <2>3. /\ FrameOK(g, live, Absorb(g, Top, n, FALSE))
        /\ Absorb(g, Top, n, FALSE).op # "flush" /\ Top.op # "flush"
        /\ Absorb(g, Top, n, FALSE).node = Top.node
    <3> DEFINE no == FALSE
    <3>1. no \in BOOLEAN
      OBVIOUS
    <3> HIDE DEF no
    <3>2. /\ FrameOK(g, live, Absorb(g, Top, n, no))
          /\ Absorb(g, Top, n, no).op = Top.op /\ Top.op # "flush"
          /\ Absorb(g, Top, n, no).node = Top.node
      BY <3>1, <1>0, <2>2, AbsorbOK
    <3> QED  BY <3>2 DEF no
  <2>4. StackOK(g, live, Append(Front(stack), Absorb(g, Top, n, FALSE)))
    BY <1>0, <2>3, SwapOK
  <2> QED  BY <2>1, <2>4 DEF Replace, Kept
<1>2. CASE ~Cached(g, n) /\ g.slot[n].busy
  <2>1. Fail(g, "cycle")
    BY <1>2 DEF CallRefresh
  <2> QED  BY <2>1, FailOK, EmptyOK
<1>3. CASE ~Cached(g, n) /\ ~g.slot[n].busy
  <2> DEFINE f == ScanFrame("refresh", n, ~g.slot[n].has \/ g.slot[n].force)
  <2>1. graph' = Busied(g, n) /\ stack' = Append(stack, f) /\ Kept
    BY <1>3 DEF CallRefresh, Busied
  <2>2. /\ GraphOK(graph', live)
        /\ graph'.deps = g.deps
        /\ graph'.slot[n] = [g.slot[n] EXCEPT !.busy = TRUE]
        /\ \A m \in Slots : m # n => graph'.slot[m] = g.slot[m]
    BY <2>1, BusiedOK
  <2>3. g.slot[n] \in SlotRecords
    BY DEF GraphOK, Graphs
  <2>4. graph'.slot[n].busy /\ graph'.slot[n].has = g.slot[n].has
    BY <2>2, <2>3 DEF SlotRecords
  <2>5. \A i \in DOMAIN stack : stack[i].op # "flush" => stack[i].node # n
    BY <1>3, NotBusy
  <2>6. \A i \in DOMAIN stack : OfSlot(stack[i]) => g.slot[stack[i].node].busy
    BY DEF StackOK, FrameOK
  <2>7. StackOK(graph', live, stack)
    BY <2>2, <2>5, <2>6, CarryOK DEF OfSlot
  <2>8. /\ f \in RefreshFrames /\ f.op = "refresh" /\ f.node = n
        /\ f.changed = (~g.slot[n].has \/ g.slot[n].force)
    BY <2>3 DEF ScanFrame, RefreshFrames, SlotRecords
  <2> HIDE DEF f
  <2>9. FrameOK(graph', live, f)
    BY <2>3, <2>4, <2>8 DEF FrameOK, Frames, SlotRecords
  <2>10. OfSlot(f) /\ ~OfEffect(f)
    BY <2>8, KindsAssumption DEF OfSlot, OfEffect
  <2>11. PairOK(graph', Top, f)
    <3>1. Calls(graph', Top, n)
      BY <2>2 DEF Calls
    <3> QED  BY <3>1, <2>8, <2>10 DEF PairOK, Calls
  <2>12. StackOK(graph', live, Append(stack, f))
    BY <2>5, <2>7, <2>8, <2>9, <2>10, <2>11, <1>0, PushOK
  <2> QED  BY <2>1, <2>2, <2>12 DEF Kept
<1> QED  BY <1>1, <1>2, <1>3

(* The frames below the top do not mind what becomes of its node. *)
LEMMA BelowUndisturbed ==
  ASSUME NEW g, NEW h, NEW L, StackOK(g, L, stack), stack # <<>>,
         \A m \in Slots : m # Top.node => h.slot[m].busy = g.slot[m].busy /\ h.slot[m].has = g.slot[m].has,
         Top.op # "flush", h.deps = g.deps
  PROVE  StackOK(h, L, Front(stack))
<1> DEFINE b == Front(stack)
<1>1. /\ stack \in Seq(Frames) /\ Top = stack[Len(stack)] /\ Len(stack) \in Nat \ {0}
      /\ DOMAIN stack = 1 .. Len(stack)
  <2>1. stack \in Seq(Frames)
    BY DEF StackOK
  <2> QED  BY <2>1 DEF Top, Last
<1>2. b \in Seq(Frames) /\ Len(b) = Len(stack) - 1 /\ \A i \in 1 .. Len(stack) - 1 : b[i] = stack[i]
  BY <1>1, FrontLast
<1>3. StackOK(g, L, b)
  BY PopOK
<1> HIDE DEF b
<1>4. ASSUME NEW i \in DOMAIN b, OfSlot(b[i])
      PROVE  /\ b[i].node \in Slots /\ b[i].node # Top.node
             /\ g.slot[b[i].node].busy
  <2>1. i \in DOMAIN stack /\ i # Len(stack) /\ b[i] = stack[i] /\ Len(stack) \in DOMAIN stack
    BY <1>1, <1>2
  <2>2. b[i].op # "flush" /\ b[i].node \in Slots
    BY <1>4 DEF OfSlot
  <2>3. b[i].node # Top.node
    BY <1>1, <2>1, <2>2 DEF StackOK
  <2>4. g.slot[b[i].node].busy
    BY <1>3, <1>4 DEF StackOK, FrameOK
  <2> QED  BY <2>2, <2>3, <2>4
<1>5. \A i \in DOMAIN b : OfSlot(b[i]) =>
        h.slot[b[i].node].busy /\ (g.slot[b[i].node].has => h.slot[b[i].node].has)
  BY <1>4
<1>6. StackOK(h, L, b)
  BY <1>3, <1>5, CarryOK
<1> QED  BY <1>6 DEF b

(* The frame that asks, when its dependency is m, calls it. *)
LEMMA ScanCalls ==
  ASSUME Scanning, NEW m, m = graph.deps[Top.node][Top.i], Top.node \in Readers, Top.i \in Nat \ {0},
         GraphOK(graph, live)
  PROVE  /\ Calls(graph, Top, m) /\ m \in ToSet(graph.deps[Top.node]) /\ m \in live
         /\ m \in Sources \cup Slots
<1>1. graph.deps[Top.node] \in Seq(Sources \cup Slots)
  BY DEF GraphOK, Graphs
<1>2. Top.i \in DOMAIN graph.deps[Top.node] /\ Top.op \in {"refresh", "should"}
  BY <1>1 DEF Scanning
<1>3. m \in ToSet(graph.deps[Top.node]) /\ m \in Sources \cup Slots
  BY <1>1, <1>2 DEF ToSet
<1> QED  BY <1>2, <1>3 DEF Calls, GraphOK, Mirror

LEMMA ScanDependencyShaped == ASSUME Shaped, ScanDependency PROVE Shaped'
<1> DEFINE m == graph.deps[Top.node][Top.i]
<1>1. stack # <<>> /\ Scanning
  BY DEF ScanDependency, Scanning, Idle
<1>2. /\ StackOK(graph, live, stack) /\ GraphOK(graph, live)
      /\ Top \in Frames /\ FrameOK(graph, live, Top) /\ Top = Last(stack)
  BY <1>1, TopOK DEF Shaped, Top
<1>3. /\ Top.op \in {"refresh", "should"} /\ Top.node \in Readers
      /\ Top.i \in Nat \ {0} /\ Top.changed \in BOOLEAN
      /\ Top \in RefreshFrames \cup ShouldFrames
  BY <1>1, <1>2, FrameKinds DEF Scanning, Readers
<1>4. Calls(graph, Top, m)
  BY <1>1, <1>2, <1>3, ScanCalls
<1>5. CASE m \in Slots \cap live /\ CallRefresh(graph, m)
  <2>1. GraphOK(graph', live) /\ StackOK(graph', live, stack') /\ UNCHANGED <<source, live, batching, batched>>
    BY <1>1, <1>2, <1>4, <1>5, CallRefreshOK
  <2> QED  BY <2>1 DEF Shaped
<1>6. CASE stack' = Replace([Top EXCEPT !.i = @ + 1]) /\ UNCHANGED graph /\ Quietly /\ Kept
  <2> DEFINE a == [Top EXCEPT !.i = @ + 1]
  <2>1. a \in RefreshFrames \cup ShouldFrames /\ a.op = Top.op /\ a.node = Top.node /\ a.changed = Top.changed
    <3>1. CASE Top \in RefreshFrames
      BY <1>3, <3>1 DEF RefreshFrames
    <3>2. CASE Top \in ShouldFrames
      BY <1>3, <3>2 DEF ShouldFrames
    <3> QED  BY <1>3, <3>1, <3>2
  <2>2. stack' = Append(Front(stack), a)
    BY <1>6 DEF Replace
  <2> HIDE DEF a
  <2>3. FrameOK(graph, live, a)
    BY <1>2, <1>3, <2>1 DEF FrameOK, Frames, OfSlot
  <2>4. StackOK(graph, live, stack')
    BY <1>1, <1>2, <1>3, <2>1, <2>2, <2>3, SwapOK
  <2> QED  BY <1>6, <2>4 DEF Shaped, Kept
<1> QED  BY <1>5, <1>6 DEF ScanDependency

LEMMA ScanDoneShaped == ASSUME Shaped, ScanDone PROVE Shaped'
<1>1. stack # <<>> /\ Top.op \in {"refresh", "should"}
  BY DEF ScanDone, Idle
<1>2. /\ StackOK(graph, live, stack) /\ GraphOK(graph, live) /\ stack \in Seq(Frames)
      /\ Top \in Frames /\ FrameOK(graph, live, Top) /\ Top = Last(stack)
  BY <1>1, TopOK DEF Shaped, Top
<1>3. /\ Top.node \in Readers \cap live /\ Top.i \in Nat \ {0} /\ Top.changed \in BOOLEAN
      /\ Top \in RefreshFrames \cup ShouldFrames
  BY <1>1, <1>2, FrameKinds DEF Readers, FrameOK
<1>4. UNCHANGED <<source, live, batching, batched>>
  BY DEF ScanDone, Kept
<1> SUFFICES GraphOK(graph', live) /\ StackOK(graph', live, stack')
  BY <1>4 DEF Shaped
<1>5. CASE /\ graph' = [WithoutEdges(graph, Top.node) EXCEPT !.forceRun = @ \ {Top.node}]
           /\ stack' = Replace(BodyFrame(Top.node))
  <2> DEFINE k == WithoutEdges(graph, Top.node)
             b == BodyFrame(Top.node)
  <2>1. /\ GraphOK(k, live) /\ k.slot = graph.slot
        /\ \A d \in Readers : d # Top.node => k.deps[d] = graph.deps[d]
    BY <1>2, <1>3, WithoutEdgesOK
  <2>2. graph' = [k EXCEPT !.forceRun = @ \ {Top.node}]
    BY <1>5
  <2> HIDE DEF k
  <2>3. /\ GraphOK(graph', live) /\ graph'.slot = k.slot /\ graph'.deps = k.deps
    BY <2>1, <2>2 DEF GraphOK, Graphs, Mirror
  <2>4. b \in BodyFrames /\ b.op = "body" /\ b.node = Top.node /\ b.seen = <<>>
    BY <1>3 DEF BodyFrame, BodyFrames
  <2>5. stack' = Append(Front(stack), b)
    BY <1>5 DEF Replace
  <2> HIDE DEF b
  <2>6. ASSUME NEW i \in DOMAIN stack, i # Len(stack), stack[i].op # "flush"
        PROVE  stack[i].node \in Readers /\ stack[i].node # Top.node
    <3>1. Top = stack[Len(stack)] /\ Len(stack) \in DOMAIN stack
      BY <1>1, <1>2, TopOK
    <3>2. stack[i] \in Frames
      BY <1>2
    <3>3. stack[i].node \in Readers
      BY <2>6, <3>2, FrameKinds DEF Readers
    <3> QED  BY <1>1, <1>2, <2>6, <3>1, <3>3 DEF StackOK
  <2>7. StackOK(graph', live, stack)
    <3>1. \A i \in DOMAIN stack : i # Len(stack) /\ stack[i].op # "flush" =>
            graph'.deps[stack[i].node] = graph.deps[stack[i].node]
      BY <2>1, <2>3, <2>6
    <3>2. \A i \in DOMAIN stack : OfSlot(stack[i]) => graph.slot[stack[i].node].busy
      BY <1>2 DEF StackOK, FrameOK
    <3> QED  BY <1>2, <2>1, <2>3, <3>1, <3>2, CarryOK
  <2>8. FrameOK(graph', live, b)
    <3>1. Len(b.seen) <= MaxReads
      BY <2>4, BoundsAssumption
    <3>2. OfSlot(b) => graph'.slot[b.node].busy
      BY <1>1, <1>2, <2>1, <2>3, <2>4 DEF FrameOK, OfSlot
    <3> QED  BY <1>3, <2>4, <3>1, <3>2 DEF FrameOK, Frames
  <2>9. StackOK(graph', live, stack')
    BY <1>1, <1>2, <2>4, <2>5, <2>7, <2>8, SwapOK
  <2> QED  BY <2>3, <2>9
<1>6. CASE ~Top.changed /\ Top.op = "refresh"
  <2> DEFINE n == Top.node
             s == [graph.slot[n] EXCEPT !.dirty = FALSE, !.force = FALSE, !.busy = FALSE]
             g == Put(graph, n, s)
  <2>1. n \in Slots /\ graph.slot[n].has
    BY <1>2, <1>6, FrameKinds DEF FrameOK
  <2>2. graph.slot[n] \in SlotRecords /\ graph.slot \in [Slots -> SlotRecords]
    BY <1>2, <2>1 DEF GraphOK, Graphs
  <2>3. s \in SlotRecords /\ s.has = graph.slot[n].has /\ s.value = graph.slot[n].value
    BY <2>2, Cleaned
  <2>4. graph' = g /\ stack' = Return(g, n, FALSE)
    BY <1>6 DEF ScanDone, Put
  <2> HIDE DEF s, g
  <2>5. s.value \in Values
    BY <1>2, <2>1, <2>3 DEF GraphOK
  <2>6. /\ GraphOK(g, live) /\ g.deps = graph.deps /\ g.slot[n] = s
        /\ \A m \in Slots : m # n => g.slot[m] = graph.slot[m]
    BY <1>2, <2>1, <2>3, <2>5, SlotSetOK DEF g
  <2>7. StackOK(g, live, Front(stack))
    BY <1>1, <1>2, <2>1, <2>3, <2>6, BelowUndisturbed
  <2>8. OfSlot(Top)
    BY <1>6, <2>1 DEF OfSlot
  <2>9. Front(stack) # <<>> => Calls(g, Last(Front(stack)), n)
    <3>1. Front(stack) # <<>> => Calls(graph, Last(Front(stack)), n)
      BY <1>1, <1>2, <2>8, BelowCalls
    <3> QED  BY <2>6, <3>1 DEF Calls
  <2> DEFINE no == FALSE
  <2>10. no \in BOOLEAN /\ stack' = Return(g, n, no)
    BY <2>4
  <2> HIDE DEF no, n
  <2>11. StackOK(g, live, Return(g, n, no))
    BY <1>1, <1>2, <2>1, <2>3, <2>6, <2>7, <2>9, <2>10, ReturnOK
  <2> QED  BY <2>4, <2>6, <2>10, <2>11
<1>7. CASE stack' = Front(stack) /\ UNCHANGED graph
  BY <1>1, <1>2, <1>7, PopOK
<1> QED  BY <1>5, <1>6, <1>7 DEF ScanDone

(* The body on top, and what it may do. *)
LEMMA BodyOK ==
  ASSUME Shaped, InBody
  PROVE  /\ stack # <<>> /\ StackOK(graph, live, stack) /\ GraphOK(graph, live)
         /\ stack \in Seq(Frames) /\ Top \in Frames /\ Top = Last(stack) /\ FrameOK(graph, live, Top)
         /\ Top.op = "body" /\ Top.op # "flush" /\ Top.node \in Readers \cap live
         /\ Top.seen \in Seq(Values) /\ Top \in BodyFrames
         /\ Len(Top.seen) <= MaxReads
         /\ \/ /\ Instruction.do = "read" /\ Instruction.node \in Sources \cup Slots
               /\ Len(Top.seen) < MaxReads
            \/ /\ Instruction.do = "set" /\ Instruction.node \in Sources /\ Instruction.value \in Values
               /\ Len(Top.seen) < MaxReads
            \/ Instruction.do = "return" /\ Instruction.value \in Values
            \/ Instruction.do = "throw"
<1>1. stack # <<>> /\ Top.op = "body"
  BY DEF InBody, Idle
<1>2. /\ StackOK(graph, live, stack) /\ GraphOK(graph, live) /\ stack \in Seq(Frames)
      /\ Top \in Frames /\ FrameOK(graph, live, Top) /\ Top = Last(stack)
  BY <1>1, TopOK DEF Shaped, Top
<1>3. /\ Top.node \in Readers \cap live /\ Top.seen \in Seq(Values) /\ Top \in BodyFrames
      /\ Len(Top.seen) <= MaxReads
  BY <1>1, <1>2, FrameKinds DEF FrameOK
<1>4. \/ /\ Instruction.do = "read" /\ Instruction.node \in Sources \cup Slots
         /\ Len(Top.seen) < MaxReads
      \/ /\ Instruction.do = "set" /\ Instruction.node \in Sources /\ Instruction.value \in Values
         /\ Len(Top.seen) < MaxReads
      \/ Instruction.do = "return" /\ Instruction.value \in Values
      \/ Instruction.do = "throw"
  BY <1>3, NextInstruction DEF Instruction
<1> QED  BY <1>1, <1>2, <1>3, <1>4

(* A body that has read a value v, or written it. *)
LEMMA SeenOK ==
  ASSUME NEW g, NEW L, StackOK(g, L, stack), stack # <<>>, Top.op = "body", NEW v \in Values,
         Len(Top.seen) < MaxReads
  PROVE  StackOK(g, L, Replace([Top EXCEPT !.seen = Append(@, v)]))
<1> DEFINE a == [Top EXCEPT !.seen = Append(@, v)]
<1>1. /\ stack \in Seq(Frames) /\ Top \in Frames /\ FrameOK(g, L, Top) /\ Top = Last(stack)
  BY TopOK DEF Top
<1>2. Top \in BodyFrames /\ Top.seen \in Seq(Values)
  BY <1>1, FrameKinds
<1>3. Append(Top.seen, v) \in Seq(Values) /\ Len(Append(Top.seen, v)) = Len(Top.seen) + 1
  BY <1>2
<1>4. a \in BodyFrames /\ a.op = "body" /\ a.node = Top.node /\ a.seen = Append(Top.seen, v)
  BY <1>2, <1>3 DEF BodyFrames
<1> HIDE DEF a
<1>5. Len(a.seen) <= MaxReads
  BY <1>2, <1>3, <1>4, BoundsAssumption
<1>6. FrameOK(g, L, a)
  BY <1>1, <1>4, <1>5 DEF FrameOK, Frames, OfSlot
<1>7. StackOK(g, L, Append(Front(stack), a))
  BY <1>1, <1>4, <1>6, SwapOK
<1> QED  BY <1>7 DEF Replace, a

(* A read leaves its edge before anything else. *)
LEMMA ReadLeavesEdge ==
  ASSUME Shaped, InBody, Instruction.do = "read", NEW m, m = Instruction.node, m \in live,
         NEW g, g = WithEdge(graph, Top.node, m)
  PROVE  /\ GraphOK(g, live) /\ g.slot = graph.slot
         /\ \A d \in Readers : d # Top.node => g.deps[d] = graph.deps[d]
         /\ m \in ToSet(g.deps[Top.node])
         /\ StackOK(g, live, stack)
<1>1. /\ stack # <<>> /\ StackOK(graph, live, stack) /\ GraphOK(graph, live)
      /\ stack \in Seq(Frames) /\ Top.op = "body"
      /\ Top.node \in Readers \cap live
      /\ m \in Sources \cup Slots
      /\ Len(stack) \in DOMAIN stack /\ Top = stack[Len(stack)]
  BY BodyOK, TopOK
<1>2. /\ GraphOK(g, live) /\ g.slot = graph.slot
      /\ \A d \in Readers : d # Top.node => g.deps[d] = graph.deps[d]
      /\ Top.node \in g.dependents[m]
  BY <1>1, WithEdgeOK
<1>3. m \in ToSet(g.deps[Top.node])
  BY <1>1, <1>2 DEF GraphOK, Mirror
<1>4. ASSUME NEW i \in DOMAIN stack, i # Len(stack), stack[i].op # "flush"
      PROVE  stack[i].node \in Readers /\ stack[i].node # Top.node
  <2>1. stack[i].node \in Readers
    BY <1>1, <1>4, FrameKinds DEF Readers
  <2> QED  BY <1>1, <1>4, <2>1 DEF StackOK
<1>5. \A i \in DOMAIN stack : OfSlot(stack[i]) => graph.slot[stack[i].node].busy
  BY <1>1 DEF StackOK, FrameOK
<1>6. StackOK(g, live, stack)
  BY <1>1, <1>2, <1>4, <1>5, CarryOK
<1> QED  BY <1>2, <1>3, <1>6

LEMMA BodyReadsShaped == ASSUME Shaped, BodyReads PROVE Shaped'
<1> DEFINE m == Instruction.node
           g == WithEdge(graph, Top.node, m)
<1>1. InBody /\ Instruction.do = "read"
  BY DEF BodyReads
<1>2. /\ stack # <<>> /\ StackOK(graph, live, stack) /\ GraphOK(graph, live)
      /\ stack \in Seq(Frames) /\ Top = Last(stack) /\ Top.op = "body"
      /\ Top.node \in Readers \cap live /\ FrameOK(graph, live, Top)
      /\ m \in Sources \cup Slots /\ Len(Top.seen) < MaxReads
      /\ Len(stack) \in DOMAIN stack /\ Top = stack[Len(stack)]
  BY <1>1, BodyOK, TopOK
<1>3. CASE Fail(graph, "disposed")
  BY <1>2, <1>3, FailOK, EmptyOK DEF Shaped
<1>4. ASSUME m \in live
      PROVE  /\ GraphOK(g, live) /\ m \in ToSet(g.deps[Top.node]) /\ StackOK(g, live, stack)
  BY <1>1, <1>4, ReadLeavesEdge
<1>5. CASE /\ m \in live \cap Sources /\ graph' = g
           /\ stack' = Replace([Top EXCEPT !.seen = Append(@, source[m])])
           /\ Quietly /\ Kept
  <2>1. source[m] \in Values
    BY <1>5 DEF Shaped
  <2>2. GraphOK(graph', live) /\ StackOK(graph', live, stack')
    <3>1. GraphOK(g, live) /\ StackOK(g, live, stack)
      BY <1>4, <1>5
    <3> HIDE DEF g
    <3> QED  BY <1>2, <1>5, <2>1, <3>1, SeenOK
  <2> QED  BY <1>5, <2>2 DEF Shaped, Kept
<1>6. CASE m \in live \cap Slots /\ CallRefresh(g, m)
  <2>1. GraphOK(g, live) /\ StackOK(g, live, stack) /\ m \in ToSet(g.deps[Top.node])
    BY <1>4, <1>6
  <2>2. Calls(g, Top, m)
    BY <1>1, <1>2, <2>1 DEF Calls, Instruction
  <2> HIDE DEF g
  <2>3. GraphOK(graph', live) /\ StackOK(graph', live, stack') /\ UNCHANGED <<source, live, batching, batched>>
    BY <1>2, <1>6, <2>1, <2>2, CallRefreshOK
  <2> QED  BY <2>3 DEF Shaped
<1> QED  BY <1>3, <1>5, <1>6 DEF BodyReads

LEMMA BodyThrowsShaped == ASSUME Shaped, BodyThrows PROVE Shaped'
BY FailOK, EmptyOK DEF Shaped, BodyThrows

LEMMA SlotReturnsShaped == ASSUME Shaped, SlotReturns PROVE Shaped'
<1> DEFINE n == Top.node
           v == Instruction.value
           changed == graph.slot[n].has /\ graph.slot[n].value # v
<1>1. InBody /\ n \in Slots /\ Instruction.do = "return"
  BY DEF SlotReturns
<1>2. /\ stack # <<>> /\ StackOK(graph, live, stack) /\ GraphOK(graph, live)
      /\ stack \in Seq(Frames) /\ Top.op = "body" /\ Top.op # "flush" /\ v \in Values
  BY <1>1, BodyOK
<1>3. PICK h \in Store(graph, n, v) : graph' = h /\ stack' = Return(h, n, changed)
  BY DEF SlotReturns
<1>4. UNCHANGED <<source, live, batching, batched>>
  BY DEF SlotReturns, Kept
<1> DEFINE k == Put(graph, n, Held(v))
<1>5. /\ GraphOK(h, live) /\ GraphOK(k, live)
      /\ k.deps = graph.deps /\ k.slot[n] = Held(v)
      /\ \A m \in Slots : m # n => k.slot[m] = graph.slot[m]
      /\ IF changed THEN MarkedFrom(k, h, graph.dependents[n]) ELSE h = k
  BY <1>1, <1>2, StoreParts
<1> HIDE DEF k
<1>6. /\ h.deps = graph.deps /\ h.slot[n].has
      /\ \A m \in Slots : m # n =>
           h.slot[m].busy = graph.slot[m].busy /\ h.slot[m].has = graph.slot[m].has
  <2>1. k.slot[n].has
    BY <1>5 DEF Held
  <2>2. CASE changed
    BY <1>1, <1>5, <2>1, <2>2 DEF MarkedFrom
  <2>3. CASE ~changed
    BY <1>5, <2>1, <2>3
  <2> QED  BY <2>2, <2>3
<1>7. StackOK(h, live, Front(stack))
  BY <1>2, <1>6, BelowUndisturbed
<1>8. Front(stack) # <<>> => Calls(h, Last(Front(stack)), n)
  <2>1. OfSlot(Top)
    BY <1>1, <1>2 DEF OfSlot
  <2>2. Front(stack) # <<>> => Calls(graph, Last(Front(stack)), n)
    BY <1>2, <2>1, BelowCalls
  <2> QED  BY <1>6, <2>2 DEF Calls
<1>9. changed \in BOOLEAN
  OBVIOUS
<1> HIDE DEF n, v, changed
<1>10. StackOK(h, live, Return(h, n, changed))
  BY <1>1, <1>2, <1>5, <1>6, <1>7, <1>8, <1>9, ReturnOK
<1> QED  BY <1>3, <1>4, <1>5, <1>10 DEF Shaped

LEMMA EffectReturnsShaped == ASSUME Shaped, EffectReturns PROVE Shaped'
<1>1. stack # <<>> /\ stack' = Front(stack) /\ UNCHANGED <<source, live, graph, batching, batched>>
  BY BodyOK DEF EffectReturns
<1>2. StackOK(graph, live, stack')
  BY <1>1, PopOK DEF Shaped
<1> QED  BY <1>1, <1>2 DEF Shaped

-----------------------------------------------------------------------------
LEMMA FlushFrameOK ==
  ASSUME NEW g, NEW L
  PROVE  /\ FrameOK(g, L, FlushFrame) /\ FlushFrame.op = "flush"
         /\ ~OfEffect(FlushFrame) /\ ~OfSlot(FlushFrame)
         /\ StackOK(g, L, <<FlushFrame>>)
<1>1. /\ FrameOK(g, L, FlushFrame) /\ FlushFrame.op = "flush"
      /\ ~OfEffect(FlushFrame) /\ ~OfSlot(FlushFrame)
  BY DEF FlushFrame, FrameOK, Frames, FlushFrames, OfSlot, OfEffect
<1>2. StackOK(g, L, <<>>) /\ DOMAIN <<>> = {} /\ Append(<<>>, FlushFrame) = <<FlushFrame>>
  BY EmptyOK
<1>3. StackOK(g, L, Append(<<>>, FlushFrame))
  BY <1>1, <1>2, PushOK
<1> QED  BY <1>1, <1>2, <1>3

LEMMA InvalidatedStack ==
  ASSUME NEW g, NEW h, NEW L, NEW s, NEW roots, StackOK(g, L, s), MarkedFrom(g, h, roots)
  PROVE  StackOK(h, L, s)
<1>1. \A i \in DOMAIN s : OfSlot(s[i]) =>
         h.slot[s[i].node].busy /\ (g.slot[s[i].node].has => h.slot[s[i].node].has)
  BY DEF StackOK, FrameOK, OfSlot, MarkedFrom
<1>2. h.deps = g.deps
  BY DEF MarkedFrom
<1> QED  BY <1>1, <1>2, CarryOK

(* A write, under the activations `above`. *)
LEMMA WriteShaped ==
  ASSUME Shaped, NEW s \in Sources, NEW v \in Values, NEW above, StackOK(graph, live, above),
         Write(s, v, above),
         ~Flushing => \A i \in DOMAIN above : above[i].op # "flush",
         above # <<>> => Last(above).op # "flush"
  PROVE  Shaped'
<1>1. /\ source' = [source EXCEPT ![s] = v] /\ UNCHANGED <<live, batching>>
  BY DEF Write
<1>2. source' \in [Sources -> Values] /\ live' \subseteq Nodes
  BY <1>1 DEF Shaped
<1>3. batched' \subseteq Sources /\ (~batching' => batched' = {})
  BY <1>1 DEF Write, Shaped
<1> SUFFICES GraphOK(graph', live) /\ StackOK(graph', live, stack')
  BY <1>1, <1>2, <1>3 DEF Shaped
<1>4. CASE stack' = above /\ UNCHANGED graph
  BY <1>4 DEF Shaped
<1>5. CASE /\ graph' \in Invalidated(graph, graph.dependents[s])
           /\ stack' = IF Flushing \/ Reached(graph, graph.dependents[s]) \cap Effects = {}
                       THEN above ELSE Append(above, FlushFrame)
  <2>1. graph \in Graphs /\ graph.dependents[s] \in SUBSET Readers
    BY DEF Shaped, GraphOK, Graphs
  <2>2. graph' \in Graphs /\ MarkedFrom(graph, graph', graph.dependents[s])
    BY <1>5, <2>1, InvalidatedParts
  <2>3. GraphOK(graph', live)
    BY <2>2, MarkedOK DEF Shaped
  <2>4. StackOK(graph', live, above)
    BY <2>2, InvalidatedStack
  <2>5. ASSUME ~Flushing PROVE StackOK(graph', live, Append(above, FlushFrame))
    <3>1. \A i \in DOMAIN above : above[i].op = "flush" => FlushFrame.op # "flush"
      BY <2>5
    <3>2. FrameOK(graph', live, FlushFrame) /\ FlushFrame.op = "flush" /\ ~OfEffect(FlushFrame) /\ ~OfSlot(FlushFrame)
      BY FlushFrameOK
    <3>3. above # <<>> => PairOK(graph', Last(above), FlushFrame)
      BY <3>2 DEF PairOK
    <3> QED  BY <2>4, <3>1, <3>2, <3>3, PushOK
  <2> QED  BY <1>5, <2>3, <2>4, <2>5
<1> QED  BY <1>4, <1>5 DEF Write

LEMMA BodyWritesShaped == ASSUME Shaped, BodyWrites PROVE Shaped'
<1> DEFINE s == Instruction.node
           v == Instruction.value
           above == Replace([Top EXCEPT !.seen = Append(@, v)])
<1>1. InBody /\ Instruction.do = "set"
  BY DEF BodyWrites
<1>2. /\ stack # <<>> /\ StackOK(graph, live, stack) /\ stack \in Seq(Frames)
      /\ Top.op = "body" /\ Top = Last(stack) /\ s \in Sources /\ v \in Values /\ Len(Top.seen) < MaxReads
      /\ Top \in BodyFrames
  BY <1>1, BodyOK
<1>3. CASE Fail(graph, "disposed")
  BY <1>3, FailOK, EmptyOK DEF Shaped
<1>4. CASE Write(s, v, above)
  <2>1. StackOK(graph, live, above)
    BY <1>2, SeenOK
  <2> DEFINE a == [Top EXCEPT !.seen = Append(@, v)]
             b == Front(stack)
  <2>2. /\ b \in Seq(Frames) /\ Len(b) = Len(stack) - 1 /\ Len(stack) \in Nat \ {0}
        /\ \A i \in 1 .. Len(stack) - 1 : b[i] = stack[i]
    BY <1>2, FrontLast
  <2>3. a \in Frames /\ a.op = "body"
    <3>1. Append(Top.seen, v) \in Seq(Values)
      BY <1>1, <1>2, BodyOK
    <3>2. a \in BodyFrames /\ a.op = "body"
      BY <1>2, <3>1 DEF BodyFrames
    <3> HIDE DEF a
    <3> QED  BY <3>2 DEF Frames
  <2> HIDE DEF a, b
  <2>4. above = Append(b, a)
    BY DEF Replace, a, b
  <2> HIDE DEF above
  <2>5. /\ above # <<>> /\ Last(above) = a
        /\ \A i \in DOMAIN above : above[i] = a \/ (i \in DOMAIN stack /\ above[i] = stack[i])
    <3>1. DOMAIN above = 1 .. Len(b) + 1 /\ Len(above) = Len(b) + 1
      BY <2>2, <2>4
    <3>2. above[Len(b) + 1] = a /\ \A i \in 1 .. Len(b) : above[i] = b[i]
      BY <2>2, <2>3, <2>4
    <3>3. DOMAIN stack = 1 .. Len(stack)
      BY <1>2
    <3>4. above # <<>> /\ Last(above) = a
      BY <2>2, <2>3, <2>4, <3>1, <3>2 DEF Last
    <3>5. ASSUME NEW i \in DOMAIN above PROVE above[i] = a \/ (i \in DOMAIN stack /\ above[i] = stack[i])
      <4>1. i = Len(b) + 1 \/ i \in 1 .. Len(b)
        BY <2>2, <3>1
      <4>2. \A j \in 1 .. Len(b) : j \in 1 .. Len(stack) - 1 /\ j \in 1 .. Len(stack)
        BY <2>2
      <4> QED  BY <4>1, <4>2, <3>2, <3>3, <2>2
    <3> QED  BY <3>4, <3>5
  <2>6. ~Flushing => \A i \in DOMAIN above : above[i].op # "flush"
    BY <2>3, <2>5 DEF Flushing
  <2> HIDE DEF s, v
  <2> QED  BY <1>2, <1>4, <2>1, <2>3, <2>5, <2>6, WriteShaped
<1> QED  BY <1>3, <1>4 DEF BodyWrites

LEMMA FlushNextShaped == ASSUME Shaped, FlushNext PROVE Shaped'
<1>1. /\ stack # <<>> /\ Top.op = "flush" /\ StackOK(graph, live, stack) /\ GraphOK(graph, live)
      /\ UNCHANGED <<source, live, batching, batched>>
  BY DEF FlushNext, Idle, Kept, Shaped
<1>2. /\ stack \in Seq(Frames) /\ Top = Last(stack) /\ Len(stack) \in DOMAIN stack
      /\ Top = stack[Len(stack)] /\ DOMAIN stack = 1 .. Len(stack) /\ Len(stack) \in Nat \ {0}
  BY <1>1, TopOK DEF Top
<1> SUFFICES GraphOK(graph', live) /\ StackOK(graph', live, stack')
  BY <1>1 DEF Shaped
<1>3. CASE graph.pending = <<>>
  BY <1>1, <1>3, PopOK DEF FlushNext
<1>4. CASE graph.pending # <<>>
  <2> DEFINE e == Head(graph.pending)
             f == ScanFrame("should", e, e \in graph.forceRun)
  <2>1. /\ graph' = [graph EXCEPT !.pending = Tail(@)]
        /\ stack' = IF e \notin live THEN stack ELSE Append(stack, f)
    BY <1>4 DEF FlushNext
  <2>2. graph \in Graphs /\ graph.pending \in Seq(Effects) /\ e \in Effects /\ Tail(graph.pending) \in Seq(Effects)
    BY <1>1, <1>4 DEF GraphOK, Graphs
  <2>3. /\ graph' \in Graphs /\ graph'.slot = graph.slot /\ graph'.deps = graph.deps
        /\ graph'.dependents = graph.dependents
    BY <2>1, <2>2 DEF Graphs
  <2>4. GraphOK(graph', live)
    BY <1>1, <2>3 DEF GraphOK, Mirror
  <2>5. StackOK(graph', live, stack)
    <3>1. \A i \in DOMAIN stack : OfSlot(stack[i]) => graph.slot[stack[i].node].busy
      BY <1>1 DEF StackOK, FrameOK
    <3> QED  BY <1>1, <2>3, <3>1, CarryOK
  <2>6. ASSUME e \in live PROVE StackOK(graph', live, Append(stack, f))
    <3>1. f \in ShouldFrames /\ f.op = "should" /\ f.node = e
      BY <2>2 DEF ScanFrame, ShouldFrames
    <3> HIDE DEF f, e
    <3>2. OfEffect(f) /\ ~OfSlot(f)
      BY <2>2, <3>1, KindsAssumption DEF OfEffect, OfSlot
    <3>3. FrameOK(graph', live, f)
      BY <2>6, <3>1, <3>2 DEF FrameOK, Frames
    <3>4. PairOK(graph', Last(stack), f)
      BY <1>1, <1>2, <3>2 DEF PairOK
    <3>5. ASSUME NEW i \in DOMAIN stack, stack[i].op # "flush"
          PROVE  stack[i].node # f.node
      <4> SUFFICES ASSUME stack[i].node = e PROVE FALSE
        BY <3>1
      <4>1. OfEffect(stack[i])
        BY <2>2, <3>5 DEF OfEffect
      <4>2. i # 1
        BY <1>1, <4>1 DEF StackOK
      <4>3. i - 1 \in DOMAIN stack /\ i > 1
        BY <1>2, <4>2
      <4>4. PairOK(graph, stack[i - 1], stack[i])
        BY <1>1, <4>3 DEF StackOK
      <4>5. stack[i - 1].op = "flush"
        BY <4>1, <4>4 DEF PairOK
      <4>6. i - 1 = Len(stack)
        BY <1>1, <1>2, <4>3, <4>5 DEF StackOK
      <4> QED  BY <1>2, <4>6
    <3> QED  BY <1>1, <2>5, <3>1, <3>3, <3>4, <3>5, PushOK
  <2> QED  BY <2>1, <2>4, <2>5, <2>6
<1> QED  BY <1>3, <1>4

LEMMA SetShaped == ASSUME Shaped, NEW s \in Sources, NEW v \in Values, Set(s, v) PROVE Shaped'
<1>1. Write(s, v, <<>>) /\ DOMAIN <<>> = {} /\ StackOK(graph, live, <<>>)
  BY EmptyOK DEF Set
<1> QED  BY <1>1, WriteShaped

LEMMA GetShaped == ASSUME Shaped, NEW n \in Slots, Get(n) PROVE Shaped'
<1> DEFINE f == ScanFrame("refresh", n, ~graph.slot[n].has \/ graph.slot[n].force)
<1>1. /\ n \in live /\ graph' = Busied(graph, n) /\ stack' = <<f>>
      /\ UNCHANGED <<source, live, batching, batched>>
  BY DEF Get, Kept, Busied
<1>2. /\ GraphOK(graph, live) /\ graph.slot[n] \in SlotRecords
  BY DEF Shaped, GraphOK, Graphs
<1>3. GraphOK(graph', live) /\ graph'.slot[n] = [graph.slot[n] EXCEPT !.busy = TRUE]
  BY <1>1, <1>2, BusiedOK
<1>4. graph'.slot[n].busy /\ graph'.slot[n].has = graph.slot[n].has
  BY <1>2, <1>3 DEF SlotRecords
<1>5. /\ f \in RefreshFrames /\ f.op = "refresh" /\ f.node = n
      /\ f.changed = (~graph.slot[n].has \/ graph.slot[n].force)
  BY <1>2 DEF ScanFrame, RefreshFrames, SlotRecords
<1> HIDE DEF f
<1>6. FrameOK(graph', live, f) /\ ~OfEffect(f)
  BY <1>1, <1>2, <1>4, <1>5, KindsAssumption DEF FrameOK, Frames, SlotRecords, OfEffect
<1>7. StackOK(graph', live, <<>>) /\ DOMAIN <<>> = {} /\ Append(<<>>, f) = <<f>>
  BY EmptyOK
<1>8. StackOK(graph', live, Append(<<>>, f))
  BY <1>6, <1>7, PushOK
<1> QED  BY <1>1, <1>3, <1>7, <1>8 DEF Shaped

LEMMA BatchEndShaped == ASSUME Shaped, BatchEnd PROVE Shaped'
<1>1. /\ graph' \in IF batched = {} THEN {graph} ELSE Invalidated(graph, BatchRoots)
      /\ stack' = <<FlushFrame>> /\ batched' = {} /\ UNCHANGED <<source, live>>
  BY DEF BatchEnd
<1>2. graph \in Graphs /\ GraphOK(graph, live) /\ BatchRoots \in SUBSET Readers
  BY DEF Shaped, GraphOK, Graphs, BatchRoots
<1>3. GraphOK(graph', live)
  <2>1. CASE batched = {}
    BY <1>1, <1>2, <2>1
  <2>2. CASE batched # {}
    <3>1. graph' \in Graphs /\ MarkedFrom(graph, graph', BatchRoots)
      BY <1>1, <1>2, <2>2, InvalidatedParts
    <3> QED  BY <1>2, <3>1, MarkedOK
  <2> QED  BY <2>1, <2>2
<1>4. StackOK(graph', live, stack')
  BY <1>1, FlushFrameOK
<1> QED  BY <1>1, <1>3, <1>4 DEF Shaped

LEMMA CreateEffectShaped == ASSUME Shaped, NEW e \in Effects, CreateEffect(e) PROVE Shaped'
<1>1. /\ live' = live \cup {e} /\ UNCHANGED <<source, batching, batched>>
      /\ graph' = [graph EXCEPT !.pending = Append(@, e), !.forceRun = @ \cup {e}]
      /\ stack' = <<FlushFrame>>
  BY DEF CreateEffect
<1>2. graph \in Graphs /\ GraphOK(graph, live) /\ live' \subseteq Nodes
  BY <1>1 DEF Shaped, GraphOK, Nodes
<1>3. /\ graph' \in Graphs /\ graph'.slot = graph.slot /\ graph'.deps = graph.deps
      /\ graph'.dependents = graph.dependents
  <2>1. graph.pending \in Seq(Effects) /\ graph.forceRun \in SUBSET Effects
    BY <1>2 DEF Graphs
  <2>2. Append(graph.pending, e) \in Seq(Effects) /\ graph.forceRun \cup {e} \in SUBSET Effects
    BY <2>1
  <2> QED  BY <1>1, <1>2, <2>2 DEF Graphs
<1>4. GraphOK(graph', live')
  BY <1>1, <1>2, <1>3 DEF GraphOK, Mirror
<1>5. StackOK(graph', live', stack')
  BY <1>1, FlushFrameOK
<1> QED  BY <1>1, <1>2, <1>4, <1>5 DEF Shaped

LEMMA MarkedReadersParts ==
  ASSUME NEW g, NEW L, GraphOK(g, L), NEW n \in Nodes
  PROVE  /\ GraphOK(MarkedReaders(g, n), L)
         /\ n \in Effects => MarkedReaders(g, n) = g
         /\ n \notin Effects => MarkedFrom(g, MarkedReaders(g, n), g.dependents[n])
<1>1. CASE n \in Effects
  BY <1>1 DEF MarkedReaders
<1>2. CASE n \notin Effects
  <2>1. g \in Graphs /\ g.dependents[n] \in SUBSET Readers
    BY <1>2 DEF GraphOK, Graphs, Nodes
  <2>2. /\ MarkedReaders(g, n) = Marked(g, g.dependents[n])
        /\ Marked(g, g.dependents[n]) \in Graphs
        /\ MarkedFrom(g, Marked(g, g.dependents[n]), g.dependents[n])
    BY <1>2, <2>1, MarkedParts DEF MarkedReaders
  <2>3. GraphOK(MarkedReaders(g, n), L)
    BY <2>2, MarkedOK
  <2> QED  BY <1>2, <2>2, <2>3
<1> QED  BY <1>1, <1>2

LEMMA DisposeShaped == ASSUME Shaped, NEW n \in Nodes, Dispose(n) PROVE Shaped'
<1>1. /\ live' = live \ {n} /\ graph' = Detached(MarkedReaders(graph, n), n)
      /\ stack = <<>> /\ UNCHANGED <<source, batching, batched, stack>>
  BY DEF Dispose, Idle
<1>2. GraphOK(MarkedReaders(graph, n), live)
  BY MarkedReadersParts DEF Shaped
<1>3. GraphOK(graph', live')
  BY <1>1, <1>2, DetachedOK
<1>4. StackOK(graph', live', stack')
  BY <1>1, EmptyOK
<1> QED  BY <1>1, <1>3, <1>4 DEF Shaped

LEMMA ShapedInit == Init => Shaped
<1> SUFFICES ASSUME Init PROVE Shaped
  OBVIOUS
<1> DEFINE empty == [value |-> NoValue, has |-> FALSE, dirty |-> FALSE, force |-> FALSE, busy |-> FALSE]
<1>1. empty \in SlotRecords /\ empty.has = FALSE
  BY DEF SlotRecords
<1> HIDE DEF empty
<1>2. /\ graph = [slot |-> [n \in Slots |-> empty], deps |-> [c \in Readers |-> <<>>],
                  dependents |-> [m \in Sources \cup Slots |-> {}], pending |-> <<>>, forceRun |-> {}]
      /\ live = Sources \cup Slots /\ source \in [Sources -> Values] /\ batched = {} /\ stack = <<>>
  BY DEF Init, empty
<1>3. <<>> \in Seq(Sources \cup Slots) /\ <<>> \in Seq(Effects)
  OBVIOUS
<1>4. graph \in Graphs
  BY <1>1, <1>2, <1>3 DEF Graphs
<1>5. ToSet(<<>>) = {} /\ Single(<<>>)
  BY DEF ToSet, Single
<1>6. Mirror(graph, live) /\ (\A c \in Readers : Single(graph.deps[c]))
  BY <1>2, <1>5 DEF Mirror
<1>7. GraphOK(graph, live)
  BY <1>1, <1>2, <1>4, <1>6 DEF GraphOK
<1> QED  BY <1>2, <1>7, EmptyOK DEF Shaped, Nodes

LEMMA ShapedStep == ASSUME Shaped, [Next]_vars PROVE Shaped'
<1>1. CASE UNCHANGED vars
  BY <1>1 DEF vars, Shaped
<1>2. CASE BatchStart
  BY <1>2 DEF BatchStart, Shaped
<1> QED  BY <1>1, <1>2, ScanDependencyShaped, ScanDoneShaped, BodyReadsShaped, BodyThrowsShaped,
            SlotReturnsShaped, EffectReturnsShaped, BodyWritesShaped, FlushNextShaped,
            SetShaped, GetShaped, BatchEndShaped, CreateEffectShaped, DisposeShaped DEF Next

(* Graph and stack keep their shape through every read, write, throw,      *)
(* flush, batch and disposal, whatever the bodies do.                      *)
THEOREM AlwaysShaped == Spec => []Shaped
<1>1. Init => Shaped
  BY ShapedInit
<1>2. Shaped /\ [Next]_vars => Shaped'
  BY ShapedStep
<1> QED  BY <1>1, <1>2, PTL DEF Spec

(* Whatever bodies read, write, return and throw, and whatever the host    *)
(* disposes between calls, both ends of an edge know it and neither is a   *)
(* node that is gone.                                                      *)
THEOREM EdgesAlwaysMirror == Spec => []EdgesMirror
<1>1. Shaped => EdgesMirror
  BY DEF Shaped, GraphOK, Mirror, EdgesMirror
<1> QED  BY <1>1, AlwaysShaped, PTL

-----------------------------------------------------------------------------
(* Slots write nothing, read what is of less height, and in that order: so *)
(* whoever reads n and what n is made of reads the latter first.           *)
ReadsUpwards(height) ==
  \A c \in Slots : \A k \in 0 .. MaxReads : \A seen \in [1 .. k -> Values] :
    LET here == Body(c, seen) IN
    /\ here.do # "set"
    /\ here.do = "read" /\ here.node \in Slots =>
         /\ height[here.node] < height[c]
         /\ \A p \in 0 .. k - 1 :
              LET before == Body(c, [i \in 1 .. p |-> seen[i]]) IN
              before.do = "read" /\ before.node \in Slots => height[before.node] <= height[here.node]

(* A run that only reads, what its p-th read was of, and whether a node    *)
(* still holds what was read.                                              *)
Upto(seen, p) == [i \in 1 .. p |-> seen[i]]
Of(c, seen, p) == Body(c, Upto(seen, p - 1)).node
Trace(c, seen) == \A p \in 1 .. Len(seen) : Body(c, Upto(seen, p - 1)).do = "read"
Readings(c, seen) == {Of(c, seen, p) : p \in 1 .. Len(seen)}

Holds(src, g, m, v) ==
  IF m \in Sources THEN src[m] = v ELSE g.slot[m].has /\ g.slot[m].value = v

Agrees(src, g, c, seen) == \A p \in 1 .. Len(seen) : Holds(src, g, Of(c, seen, p), seen[p])

Histories == UNION {[1 .. k -> Values] : k \in 0 .. MaxReads}

(* The slot holds what its body returns of what it read. *)
Current(src, g, c) ==
  \E seen \in Histories :
    /\ Trace(c, seen) /\ Agrees(src, g, c, seen)
    /\ Body(c, seen).do = "return" /\ Body(c, seen).value = g.slot[c].value
    /\ ToSet(g.deps[c]) = Readings(c, seen)

Valid(g, c) == g.slot[c].has /\ ~g.slot[c].force

Upwards(edges, height) ==
  \A i, j \in DOMAIN edges :
    i < j /\ edges[i] \in Slots /\ edges[j] \in Slots => height[edges[i]] <= height[edges[j]]

CachedIfSlot(g, m) == m \in Slots => Cached(g, m)

Untouched(g, w, c) == \A m \in w : c \notin g.dependents[m]

(* A slot: what it reads is below it; a cached one has cached dependencies; *)
(* one that is dirty at most was right when its dependencies had the values *)
(* they have, unless a batch still holds back a write to one.              *)
SlotFit(height, L, src, g, w, c) ==
  /\ \A m \in ToSet(g.deps[c]) : m \in Slots => height[m] < height[c]
  /\ Cached(g, c) => \A m \in ToSet(g.deps[c]) : CachedIfSlot(g, m)
  /\ c \in L /\ Valid(g, c) =>
       /\ Upwards(g.deps[c], height)
       /\ Untouched(g, w, c) => Current(src, g, c)

(* A refresh under way: whether it has to run the body is what the flags   *)
(* say by now, and what it has passed is cached.                           *)
RefreshFit(g, f) ==
  /\ f.changed <=> ~Valid(g, f.node)
  /\ ~Cached(g, f.node)
  /\ \A j \in DOMAIN g.deps[f.node] : j < f.i => CachedIfSlot(g, g.deps[f.node][j])

(* A body under way: what it has read still is so, and its edges are those *)
(* of its reads.                                                           *)
RunFit(height, src, g, f) ==
  /\ ~Valid(g, f.node)
  /\ Trace(f.node, f.seen) /\ Agrees(src, g, f.node, f.seen)
  /\ \A m \in Readings(f.node, f.seen) : CachedIfSlot(g, m)
  /\ Readings(f.node, f.seen) \subseteq ToSet(g.deps[f.node])
  /\ \A m \in ToSet(g.deps[f.node]) :
       \/ m \in Readings(f.node, f.seen)
       \/ Body(f.node, f.seen).do = "read" /\ Body(f.node, f.seen).node = m
  /\ Upwards(g.deps[f.node], height)

FrameFit(height, src, g, f) ==
  /\ f.op = "refresh" => RefreshFit(g, f)
  /\ f.op = "body" /\ f.node \in Slots => RunFit(height, src, g, f)

Ladder(height, s) ==
  /\ \A i \in DOMAIN s : s[i].op = "flush" => i = 1
  /\ \A i, j \in DOMAIN s : i < j /\ OfSlot(s[i]) /\ OfSlot(s[j]) => height[s[j].node] < height[s[i].node]

StackFit(height, src, g, s) ==
  /\ \A i \in DOMAIN s : FrameFit(height, src, g, s[i])
  /\ Ladder(height, s)

Fit(height) ==
  /\ \A c \in Slots : SlotFit(height, live, source, graph, batched, c)
  /\ StackFit(height, source, graph, stack)

(* A slot with the same edges is fine if its flags only got worse and what *)
(* it is still valid for has not changed.                                  *)
LEMMA SlotKept ==
  ASSUME NEW height, NEW L, NEW src, NEW g, NEW w, NEW c \in Slots, SlotFit(height, L, src, g, w, c),
         NEW K, NEW y, NEW h, NEW x,
         c \in K => c \in L,
         h.deps[c] = g.deps[c],
         h.slot[c].value = g.slot[c].value,
         Cached(h, c) => \A m \in ToSet(g.deps[c]) : CachedIfSlot(h, m),
         c \in K /\ Valid(h, c) => Valid(g, c),
         c \in K /\ Valid(h, c) /\ Untouched(h, x, c) =>
           /\ Untouched(g, w, c)
           /\ \A m \in ToSet(g.deps[c]) : \A v : Holds(src, g, m, v) => Holds(y, h, m, v)
  PROVE  SlotFit(height, K, y, h, x, c)
<1>1. /\ \A m \in ToSet(h.deps[c]) : m \in Slots => height[m] < height[c]
      /\ Cached(h, c) => \A m \in ToSet(h.deps[c]) : CachedIfSlot(h, m)
  BY DEF SlotFit
<1>2. c \in K /\ Valid(h, c) => Upwards(h.deps[c], height)
  BY DEF SlotFit
<1>3. ASSUME c \in K, Valid(h, c), Untouched(h, x, c)
      PROVE  Current(y, h, c)
  <2>1. Current(src, g, c) /\ \A m \in ToSet(g.deps[c]) : \A v : Holds(src, g, m, v) => Holds(y, h, m, v)
    BY <1>3 DEF SlotFit
  <2>2. PICK seen \in Histories :
          /\ Trace(c, seen) /\ Agrees(src, g, c, seen)
          /\ Body(c, seen).do = "return" /\ Body(c, seen).value = g.slot[c].value
          /\ ToSet(g.deps[c]) = Readings(c, seen)
    BY <2>1 DEF Current
  <2>3. Agrees(y, h, c, seen)
    BY <2>1, <2>2 DEF Agrees, Readings
  <2> QED  BY <2>2, <2>3 DEF Current
<1> QED  BY <1>1, <1>2, <1>3 DEF SlotFit

(* What a walk leaves behind: flags only get worse, and what stays cached  *)
(* reads nothing that was marked.                                          *)
Worsened(g, h, roots, c) ==
  /\ Cached(h, c) => Cached(g, c) /\ \A m \in ToSet(g.deps[c]) : CachedIfSlot(g, m) => CachedIfSlot(h, m)
  /\ Cached(g, c) /\ c \notin Reached(g, roots) => Cached(h, c)
  /\ Valid(h, c) <=> Valid(g, c) /\ c \notin roots
  /\ h.deps[c] = g.deps[c] /\ h.slot[c].value = g.slot[c].value
  /\ h.slot[c].has = g.slot[c].has

LEMMA MarksClosed ==
  ASSUME NEW g, NEW h \in Graphs, NEW L, NEW roots, GraphOK(g, L), MarkedFrom(g, h, roots), NEW c \in Slots
  PROVE  Worsened(g, h, roots, c)
<1>1. /\ roots \subseteq Reached(g, roots)
      /\ \A n \in Reached(g, roots) \cap Slots :
           ~g.slot[n].dirty \/ (n \in roots /\ ~g.slot[n].force) => g.dependents[n] \subseteq Reached(g, roots)
  BY ReachedParts
<1>2. \A n \in Slots :
        /\ Cached(h, n) <=> Cached(g, n) /\ n \notin Reached(g, roots)
        /\ Valid(h, n) <=> Valid(g, n) /\ n \notin roots
  BY <1>1 DEF MarkedFrom, Cached, Valid
<1>3. ASSUME Cached(h, c), NEW m \in ToSet(g.deps[c]), CachedIfSlot(g, m)
      PROVE  CachedIfSlot(h, m)
  <2> SUFFICES ASSUME m \in Slots, m \in Reached(g, roots) PROVE FALSE
    BY <1>2, <1>3 DEF CachedIfSlot
  <2>1. c \in g.dependents[m]
    BY <1>3 DEF GraphOK, Mirror, Readers
  <2>2. ~g.slot[m].dirty
    BY <1>3 DEF CachedIfSlot, Cached
  <2> QED  BY <1>1, <1>2, <1>3, <2>1, <2>2
<1> QED  BY <1>2, <1>3 DEF MarkedFrom, Worsened

(* A graph that differs in the queue of effects and the busy flags only.   *)
SameSlots(g, h) ==
  \A c \in Slots :
    /\ h.deps[c] = g.deps[c] /\ h.slot[c].value = g.slot[c].value /\ h.slot[c].has = g.slot[c].has
    /\ Cached(h, c) <=> Cached(g, c)
    /\ Valid(h, c) <=> Valid(g, c)

LEMMA SlotSame ==
  ASSUME NEW height, NEW L, NEW src, NEW g, NEW w, NEW c \in Slots, SlotFit(height, L, src, g, w, c),
         GraphOK(g, L), NEW K, NEW h, SameSlots(g, h), c \in K => c \in L,
         \A m \in w : c \in g.dependents[m] => c \in h.dependents[m]
  PROVE  SlotFit(height, K, src, h, w, c)
<1>1. /\ h.deps[c] = g.deps[c] /\ h.slot[c].value = g.slot[c].value
      /\ Cached(h, c) => Cached(g, c)
      /\ Valid(h, c) => Valid(g, c)
  BY DEF SameSlots
<1>2. \A m \in ToSet(g.deps[c]) : m \in Sources \cup Slots
  BY DEF GraphOK, Graphs, ToSet, Readers
<1>3. \A m \in ToSet(g.deps[c]) : CachedIfSlot(g, m) => CachedIfSlot(h, m)
  BY DEF SameSlots, CachedIfSlot
<1>4. \A m \in ToSet(g.deps[c]) : \A v : Holds(src, g, m, v) => Holds(src, h, m, v)
  BY <1>2 DEF SameSlots, Holds
<1>5. Untouched(h, w, c) => Untouched(g, w, c)
  BY DEF Untouched
<1>6. Cached(h, c) => \A m \in ToSet(g.deps[c]) : CachedIfSlot(h, m)
  BY <1>1, <1>3 DEF SlotFit
<1> QED  BY <1>1, <1>4, <1>5, <1>6, SlotKept

-----------------------------------------------------------------------------
(* A frame does not mind what becomes of slots it has not passed, if its   *)
(* own keeps its edges and its validity.                                   *)
LEMMA FrameKept ==
  ASSUME NEW height, NEW src, NEW g, NEW f, FrameFit(height, src, g, f),
         NEW h, NEW L, GraphOK(g, L), f \in Frames,
         OfSlot(f) =>
           /\ h.deps[f.node] = g.deps[f.node]
           /\ Valid(h, f.node) => Valid(g, f.node)
           /\ f.op = "refresh" => (Valid(g, f.node) => Valid(h, f.node))
           /\ Cached(h, f.node) => Cached(g, f.node)
           /\ \A m \in Slots : m \in ToSet(g.deps[f.node]) /\ Cached(g, m) =>
                Cached(h, m) /\ \A v : Holds(src, g, m, v) => Holds(src, h, m, v)
  PROVE  FrameFit(height, src, h, f)
<1>0. /\ f.op = "refresh" => f.node \in Slots /\ OfSlot(f)
      /\ f.op = "body" /\ f.node \in Slots => OfSlot(f)
  BY FrameKinds DEF OfSlot
<1>1. ASSUME f.op = "refresh"
      PROVE  RefreshFit(h, f)
  <2>1. RefreshFit(g, f) /\ OfSlot(f)
    BY <1>0, <1>1 DEF FrameFit
  <2>2. \A j \in DOMAIN g.deps[f.node] : g.deps[f.node][j] \in ToSet(g.deps[f.node])
    BY DEF ToSet
  <2>3. h.deps[f.node] = g.deps[f.node]
    BY <2>1
  <2> QED  BY <1>1, <2>1, <2>2, <2>3 DEF RefreshFit, CachedIfSlot
<1>2. ASSUME f.op = "body", f.node \in Slots
      PROVE  RunFit(height, src, h, f)
  <2>1. RunFit(height, src, g, f) /\ OfSlot(f)
    BY <1>0, <1>2 DEF FrameFit
  <2>2. \A m \in Readings(f.node, f.seen) : CachedIfSlot(g, m) /\ m \in ToSet(g.deps[f.node])
    BY <2>1 DEF RunFit
  <2>3. \A m \in ToSet(g.deps[f.node]) : m \in Sources \cup Slots
    BY <1>2 DEF GraphOK, Graphs, ToSet, Readers
  <2>4. \A m \in Readings(f.node, f.seen) : CachedIfSlot(h, m) /\ \A v : Holds(src, g, m, v) => Holds(src, h, m, v)
    BY <2>1, <2>2, <2>3 DEF CachedIfSlot, Holds
  <2>5. Agrees(src, h, f.node, f.seen)
    BY <2>1, <2>4 DEF RunFit, Agrees, Readings
  <2> QED  BY <2>1, <2>4, <2>5 DEF RunFit
<1> QED  BY <1>1, <1>2 DEF FrameFit

(* Only frames of slots have anything to lose. *)
LEMMA FrameFree ==
  ASSUME NEW f \in Frames, ~OfSlot(f), NEW height, NEW src, NEW g
  PROVE  FrameFit(height, src, g, f)
BY FrameKinds DEF FrameFit, OfSlot

LEMMA FrameSame ==
  ASSUME NEW height, NEW src, NEW g, NEW f \in Frames, FrameFit(height, src, g, f), NEW h, NEW L, GraphOK(g, L),
         SameSlots(g, h)
  PROVE  FrameFit(height, src, h, f)
<1>1. OfSlot(f) => f.node \in Slots
  BY DEF OfSlot
<1>2. \A m \in Slots : \A v : Holds(src, g, m, v) => Holds(src, h, m, v)
  BY DEF Holds, SameSlots
<1> QED  BY <1>1, <1>2, FrameKept DEF SameSlots

(* One more read. *)
LEMMA UptoAppend ==
  ASSUME NEW seen \in Seq(Values), NEW v \in Values
  PROVE  /\ \A q \in 0 .. Len(seen) : Upto(Append(seen, v), q) = Upto(seen, q)
         /\ Upto(seen, Len(seen)) = seen
         /\ Append(seen, v) \in Seq(Values) /\ Len(Append(seen, v)) = Len(seen) + 1 /\ Len(seen) \in Nat
         /\ \A p \in 1 .. Len(seen) : Append(seen, v)[p] = seen[p]
         /\ Append(seen, v)[Len(seen) + 1] = v
<1>1. /\ Append(seen, v) \in Seq(Values) /\ Len(Append(seen, v)) = Len(seen) + 1 /\ Len(seen) \in Nat
      /\ \A p \in 1 .. Len(seen) : Append(seen, v)[p] = seen[p]
      /\ Append(seen, v)[Len(seen) + 1] = v
      /\ seen \in [1 .. Len(seen) -> Values]
  OBVIOUS
<1>2. ASSUME NEW q \in 0 .. Len(seen)
      PROVE  Upto(Append(seen, v), q) = Upto(seen, q)
  <2>1. \A i \in 1 .. q : i \in 1 .. Len(seen)
    BY <1>1
  <2> QED  BY <1>1, <2>1 DEF Upto
<1>3. Upto(seen, Len(seen)) = seen
  BY <1>1 DEF Upto
<1> QED  BY <1>1, <1>2, <1>3

LEMMA SeenFit ==
  ASSUME NEW height, NEW src, NEW h, NEW f, RunFit(height, src, h, f), f.seen \in Seq(Values),
         NEW m, NEW v \in Values, Holds(src, h, m, v), CachedIfSlot(h, m), m \in ToSet(h.deps[f.node]),
         Body(f.node, f.seen).do = "read", Body(f.node, f.seen).node = m,
         NEW a, a.node = f.node, a.seen = Append(f.seen, v)
  PROVE  RunFit(height, src, h, a)
<1> DEFINE c == f.node
           seen == f.seen
           more == Append(seen, v)
           k == Len(seen)
<1>1. /\ \A q \in 0 .. k : Upto(more, q) = Upto(seen, q)
      /\ Upto(seen, k) = seen
      /\ Len(more) = k + 1 /\ k \in Nat
      /\ \A p \in 1 .. k : more[p] = seen[p]
      /\ more[k + 1] = v
  BY UptoAppend
<1>2. a.node = c /\ a.seen = more /\ Body(c, seen).do = "read" /\ Body(c, seen).node = m
  OBVIOUS
<1> HIDE DEF more, k
<1>3. \A p \in 1 .. k : Body(c, Upto(more, p - 1)) = Body(c, Upto(seen, p - 1))
  <2>1. \A p \in 1 .. k : p - 1 \in 0 .. k
    BY <1>1
  <2> QED  BY <1>1, <2>1
<1>4. Body(c, Upto(more, k + 1 - 1)) = Body(c, seen)
  <2>1. k + 1 - 1 = k /\ k \in 0 .. k
    BY <1>1
  <2> QED  BY <1>1, <2>1
<1>5. 1 .. Len(more) = (1 .. k) \cup {k + 1}
  BY <1>1
<1>6. Trace(c, seen) /\ Agrees(src, h, c, seen)
  BY DEF RunFit
<1>7. Trace(c, more)
  BY <1>2, <1>3, <1>4, <1>5, <1>6 DEF Trace, k
<1>8. /\ \A p \in 1 .. k : Of(c, more, p) = Of(c, seen, p)
      /\ Of(c, more, k + 1) = m
  <2>1. \A p \in 1 .. k : Of(c, more, p) = Of(c, seen, p)
    BY <1>3, Zenon DEF Of
  <2>2. Of(c, more, k + 1) = Body(c, seen).node
    <3>1. \A p : p - 1 = k => Of(c, more, p) = Body(c, Upto(more, k)).node
      BY Zenon DEF Of
    <3>2. k + 1 - 1 = k
      BY <1>1
    <3>3. Of(c, more, k + 1) = Body(c, Upto(more, k)).node
      <4> DEFINE q == k + 1
      <4>1. q - 1 = k
        BY <1>1
      <4> HIDE DEF q
      <4>2. Of(c, more, q) = Body(c, Upto(more, k)).node
        BY <3>1, <4>1
      <4> QED  BY <4>2 DEF q
    <3>4. Body(c, Upto(more, k)) = Body(c, seen)
      BY <1>4, <3>2
    <3> QED  BY <3>3, <3>4
  <2> QED  BY <1>2, <2>1, <2>2
<1>9. Agrees(src, h, c, more)
  BY <1>1, <1>5, <1>6, <1>8 DEF Agrees, k
<1>10. Readings(c, more) = Readings(c, seen) \cup {m}
  BY <1>5, <1>8 DEF Readings, k
<1> QED  BY <1>2, <1>7, <1>9, <1>10 DEF RunFit

(* The frame that asked has its answer. *)
LEMMA AbsorbFit ==
  ASSUME NEW height, NEW src, NEW h, NEW L, GraphOK(h, L), NEW f, FrameOK(h, L, f),
         NEW n \in Slots, Cached(h, n), Calls(h, f, n), NEW ch \in BOOLEAN,
         f.op = "refresh" =>
           /\ f.changed \/ ch <=> ~Valid(h, f.node)
           /\ ~Cached(h, f.node)
           /\ \A j \in DOMAIN h.deps[f.node] : j < f.i => CachedIfSlot(h, h.deps[f.node][j]),
         f.op = "body" /\ f.node \in Slots => RunFit(height, src, h, f)
  PROVE  FrameFit(height, src, h, Absorb(h, f, n, ch))
<1> DEFINE a == Absorb(h, f, n, ch)
<1>0. f \in Frames /\ f.op # "flush"
  BY AbsorbOK DEF FrameOK, Calls
<1>1. CASE f.op = "body"
  <2>1. f \in BodyFrames /\ f.seen \in Seq(Values) /\ f.node \in Readers
    BY <1>0, <1>1, FrameKinds
  <2>2. a = [f EXCEPT !.seen = Append(@, h.slot[n].value)]
    BY <1>1 DEF Absorb
  <2>3. a.op = "body" /\ a.node = f.node /\ a.seen = Append(f.seen, h.slot[n].value)
    BY <1>1, <2>1, <2>2 DEF BodyFrames
  <2>4. /\ Body(f.node, f.seen).do = "read" /\ Body(f.node, f.seen).node = n
        /\ n \in ToSet(h.deps[f.node])
    BY <1>1 DEF Calls
  <2>5. h.slot[n].value \in Values /\ Holds(src, h, n, h.slot[n].value) /\ CachedIfSlot(h, n)
    BY KindsAssumption DEF GraphOK, Cached, Holds, CachedIfSlot
  <2>6. f.node \in Slots => RunFit(height, src, h, a)
    BY <1>1, <2>1, <2>3, <2>4, <2>5, SeenFit
  <2> QED  BY <2>3, <2>6 DEF FrameFit
<1>2. CASE f.op = "refresh"
  <2>1. f \in RefreshFrames /\ f.i \in Nat \ {0} /\ f.changed \in BOOLEAN /\ f.node \in Slots
    BY <1>0, <1>2, FrameKinds
  <2>2. a = [f EXCEPT !.i = @ + 1, !.changed = @ \/ ch]
    BY <1>2 DEF Absorb
  <2>3. a.op = "refresh" /\ a.node = f.node /\ a.i = f.i + 1 /\ (a.changed <=> f.changed \/ ch)
    BY <1>2, <2>1, <2>2 DEF RefreshFrames
  <2>4. h.deps[f.node][f.i] = n
    BY <1>2 DEF Calls
  <2>5. DOMAIN h.deps[f.node] \subseteq Nat
    BY <2>1 DEF GraphOK, Graphs, Readers
  <2>6. ASSUME NEW j \in DOMAIN h.deps[f.node], j < f.i + 1
        PROVE  CachedIfSlot(h, h.deps[f.node][j])
    <3>1. j < f.i \/ j = f.i
      BY <2>1, <2>5, <2>6
    <3> QED  BY <1>2, <2>4, <2>6, <3>1 DEF CachedIfSlot
  <2>7. RefreshFit(h, a)
    BY <1>2, <2>3, <2>6 DEF RefreshFit
  <2> QED  BY <2>3, <2>7 DEF FrameFit
<1>3. CASE f.op = "should"
  <2>1. f \in ShouldFrames
    BY <1>0, <1>3, FrameKinds
  <2>2. a.op = "should"
    BY <1>3, <2>1 DEF Absorb, ShouldFrames
  <2> QED  BY <2>2 DEF FrameFit
<1> QED  BY <1>0, <1>1, <1>2, <1>3, FrameKinds

(* The innermost activation ends, goes on, or calls another. *)
LEMMA PopFit ==
  ASSUME NEW height, NEW src, NEW g, NEW s \in Seq(Frames), s # <<>>, StackFit(height, src, g, s)
  PROVE  StackFit(height, src, g, Front(s))
<1> DEFINE t == Front(s)
<1>1. Len(t) = Len(s) - 1 /\ Len(s) \in Nat \ {0} /\ t \in Seq(Frames) /\ \A i \in 1 .. Len(s) - 1 : t[i] = s[i]
  BY FrontLast
<1> HIDE DEF t
<1>2. \A i \in DOMAIN t : i \in DOMAIN s /\ t[i] = s[i]
  BY <1>1
<1>3. \A i \in DOMAIN t : FrameFit(height, src, g, t[i])
  BY <1>2 DEF StackFit
<1>4. Ladder(height, t)
  BY <1>2 DEF StackFit, Ladder
<1> QED  BY <1>3, <1>4 DEF StackFit, t

LEMMA PushFit ==
  ASSUME NEW height, NEW src, NEW g, NEW s \in Seq(Frames), StackFit(height, src, g, s),
         NEW f \in Frames, FrameFit(height, src, g, f), f.op = "flush" => s = <<>>,
         OfSlot(f) => \A i \in DOMAIN s : OfSlot(s[i]) => height[f.node] < height[s[i].node]
  PROVE  StackFit(height, src, g, Append(s, f))
<1> DEFINE t == Append(s, f)
           n == Len(s)
<1>1. /\ n \in Nat /\ DOMAIN s = 1 .. n /\ DOMAIN t = (1 .. n) \cup {n + 1}
      /\ t[n + 1] = f /\ \A i \in 1 .. n : t[i] = s[i]
      /\ s = <<>> => n = 0
  OBVIOUS
<1> HIDE DEF t, n
<1>2. \A i \in DOMAIN t : FrameFit(height, src, g, t[i])
  BY <1>1 DEF StackFit
<1>3. ASSUME NEW i \in DOMAIN t, t[i].op = "flush"
      PROVE  i = 1
  BY <1>1, <1>3 DEF StackFit, Ladder
<1>4. ASSUME NEW i \in DOMAIN t, NEW j \in DOMAIN t, i < j, OfSlot(t[i]), OfSlot(t[j])
      PROVE  height[t[j].node] < height[t[i].node]
  <2>1. CASE j = n + 1
    <3>1. i \in 1 .. n
      BY <1>1, <1>4, <2>1
    <3> QED  BY <1>1, <1>4, <2>1, <3>1
  <2>2. CASE j # n + 1
    <3>1. i \in 1 .. n /\ j \in 1 .. n
      BY <1>1, <1>4, <2>2
    <3> QED  BY <1>1, <1>4, <3>1 DEF StackFit, Ladder
  <2> QED  BY <2>1, <2>2
<1> QED  BY <1>2, <1>3, <1>4 DEF StackFit, Ladder, t

LEMMA SwapFit ==
  ASSUME NEW height, NEW src, NEW g, NEW s \in Seq(Frames), s # <<>>,
         \A i \in DOMAIN s : i # Len(s) => FrameFit(height, src, g, s[i]), Ladder(height, s),
         NEW f \in Frames, FrameFit(height, src, g, f), f.op # "flush", Last(s).op # "flush", f.node = Last(s).node
  PROVE  StackFit(height, src, g, Append(Front(s), f))
<1> DEFINE b == Front(s)
           n == Len(s)
           t == Append(b, f)
<1>1. Len(b) = n - 1 /\ n \in Nat \ {0} /\ b \in Seq(Frames) /\ (\A i \in 1 .. n - 1 : b[i] = s[i]) /\ Last(s) = s[n]
  BY FrontLast
<1>2. DOMAIN s = 1 .. n
  OBVIOUS
<1> HIDE DEF b, n
<1>3. /\ DOMAIN t = 1 .. n /\ t[n] = f /\ \A i \in 1 .. n - 1 : t[i] = s[i]
  BY <1>1
<1> HIDE DEF t
<1>4. \A i \in DOMAIN t : i # n => i \in 1 .. n - 1
  BY <1>1, <1>3
<1>5. \A i \in DOMAIN t : i \in DOMAIN s /\ (OfSlot(t[i]) <=> OfSlot(s[i]))
                          /\ (t[i].op = "flush" <=> s[i].op = "flush")
                          /\ (t[i].op # "flush" => t[i].node = s[i].node)
  BY <1>1, <1>2, <1>3, <1>4 DEF OfSlot
<1>6. \A i \in DOMAIN t : FrameFit(height, src, g, t[i])
  BY <1>1, <1>2, <1>3, <1>4 DEF n
<1>7. Ladder(height, t)
  BY <1>5 DEF Ladder, OfSlot
<1> QED  BY <1>6, <1>7 DEF StackFit, b, t

(* Frames of effects and flushes mind nothing. *)
LEMMA NoSlots ==
  ASSUME NEW height, NEW src, NEW g, NEW s \in Seq(Frames), Ladder(height, s), NEW y, NEW h,
         \A i \in DOMAIN s : ~OfSlot(s[i])
  PROVE  StackFit(height, y, h, s)
<1>1. \A i \in DOMAIN s : s[i] \in Frames
  OBVIOUS
<1> QED  BY <1>1, FrameFree DEF StackFit

LEMMA StackSame ==
  ASSUME NEW height, NEW src, NEW g, NEW s \in Seq(Frames), StackFit(height, src, g, s),
         NEW h, NEW L, GraphOK(g, L), SameSlots(g, h)
  PROVE  StackFit(height, src, h, s)
<1>1. \A i \in DOMAIN s : s[i] \in Frames
  OBVIOUS
<1> QED  BY <1>1, FrameSame DEF StackFit

LEMMA EmptyFit == ASSUME NEW height, NEW src, NEW g PROVE StackFit(height, src, g, <<>>)
<1>1. DOMAIN <<>> = {}
  OBVIOUS
<1> QED  BY <1>1 DEF StackFit, Ladder

(* What the frame on top stands above: under an effect's body there is the *)
(* flush alone.                                                            *)
LEMMA EffectAbove ==
  ASSUME NEW height, NEW g, NEW L, StackOK(g, L, stack), stack # <<>>, OfEffect(Top), Ladder(height, stack)
  PROVE  Flushing /\ \A i \in DOMAIN stack : ~OfSlot(stack[i])
<1>1. /\ stack \in Seq(Frames) /\ Top = stack[Len(stack)] /\ Len(stack) \in Nat \ {0}
      /\ DOMAIN stack = 1 .. Len(stack) /\ Len(stack) \in DOMAIN stack
  BY TopOK
<1> DEFINE n == Len(stack)
<1>2. n \in Nat \ {0} /\ DOMAIN stack = 1 .. n /\ OfEffect(stack[n])
  BY <1>1
<1> HIDE DEF n
<1>3. n > 1
  BY <1>2 DEF StackOK
<1>4. n - 1 \in DOMAIN stack /\ stack[n - 1].op = "flush"
  BY <1>2, <1>3 DEF StackOK, PairOK
<1>5. n = 2
  BY <1>2, <1>4 DEF Ladder
<1>6. stack[1].op = "flush"
  BY <1>4, <1>5
<1>7. ~OfSlot(stack[1]) /\ ~OfSlot(stack[2])
  BY <1>2, <1>5, <1>6, KindsAssumption DEF OfSlot, OfEffect
<1> QED  BY <1>2, <1>4, <1>5, <1>7 DEF Flushing

(* The frames below the top are of other nodes. *)
LEMMA BelowOthers ==
  ASSUME NEW g, NEW L, StackOK(g, L, stack), stack # <<>>, Top.op # "flush"
  PROVE  /\ \A i \in DOMAIN stack : i # Len(stack) /\ stack[i].op # "flush" => stack[i].node # Top.node
         /\ \A i \in DOMAIN stack : stack[i] \in Frames
<1>1. /\ stack \in Seq(Frames) /\ Top = stack[Len(stack)] /\ Len(stack) \in DOMAIN stack
  BY TopOK
<1> QED  BY <1>1 DEF StackOK

LEMMA SameFlags ==
  ASSUME NEW g, NEW h, h.deps = g.deps,
         \A c \in Slots : /\ h.slot[c].value = g.slot[c].value /\ h.slot[c].has = g.slot[c].has
                          /\ h.slot[c].dirty = g.slot[c].dirty /\ h.slot[c].force = g.slot[c].force
  PROVE  SameSlots(g, h)
BY DEF SameSlots, Cached, Valid

(* What the frame on top calls is below every slot on the stack. *)
LEMMA CalleeBelow ==
  ASSUME NEW height \in [Slots -> Nat], NEW g, NEW L, GraphOK(g, L), StackOK(g, L, stack), stack # <<>>,
         \A c \in Slots : \A m \in ToSet(g.deps[c]) : m \in Slots => height[m] < height[c],
         Ladder(height, stack), NEW n \in Slots, Calls(g, Top, n)
  PROVE  \A i \in DOMAIN stack : OfSlot(stack[i]) => height[n] < height[stack[i].node]
<1>1. /\ stack \in Seq(Frames) /\ Top = stack[Len(stack)] /\ Len(stack) \in Nat \ {0}
      /\ DOMAIN stack = 1 .. Len(stack) /\ Len(stack) \in DOMAIN stack
      /\ Top \in Frames
  BY TopOK
<1>2. Top.op # "flush" /\ n \in ToSet(g.deps[Top.node])
  BY <1>1, FrameKinds DEF Calls, ToSet
<1>3. CASE OfSlot(Top)
  <2>1. height[n] < height[Top.node] /\ Top.node \in Slots
    BY <1>2, <1>3 DEF OfSlot
  <2> SUFFICES ASSUME NEW i \in DOMAIN stack, OfSlot(stack[i]) PROVE height[n] < height[stack[i].node]
    OBVIOUS
  <2>2. CASE i = Len(stack)
    BY <1>1, <2>1, <2>2
  <2>3. CASE i # Len(stack)
    <3>1. i < Len(stack)
      BY <1>1, <2>3
    <3>2. height[Top.node] < height[stack[i].node]
      BY <1>1, <1>3, <3>1 DEF Ladder
    <3>3. stack[i].node \in Slots
      BY DEF OfSlot
    <3> QED  BY <2>1, <3>2, <3>3
  <2> QED  BY <2>2, <2>3
<1>4. CASE ~OfSlot(Top)
  <2>1. OfEffect(Top)
    BY <1>1, <1>2, <1>4, FrameKinds DEF OfSlot, OfEffect, Readers
  <2> QED  BY <2>1, EffectAbove
<1> QED  BY <1>3, <1>4

(* A refresh that begins. *)
LEMMA BeginFit ==
  ASSUME NEW g, NEW h, NEW L, GraphOK(g, L), NEW n \in Slots, h = Busied(g, n), ~Cached(g, n),
         NEW forced \in BOOLEAN, forced <=> ~Valid(g, n), NEW f, f = ScanFrame("refresh", n, forced),
         NEW height, NEW src
  PROVE  /\ SameSlots(g, h) /\ GraphOK(h, L) /\ f \in Frames /\ FrameFit(height, src, h, f)
         /\ f.op = "refresh" /\ f.node = n /\ h.dependents = g.dependents
<1>1. /\ h.deps = g.deps /\ h.slot[n] = [g.slot[n] EXCEPT !.busy = TRUE] /\ GraphOK(h, L)
      /\ \A m \in Slots : m # n => h.slot[m] = g.slot[m]
      /\ h.dependents = g.dependents
  BY BusiedOK
<1>2. g.slot[n] \in SlotRecords /\ h.deps[n] \in Seq(Sources \cup Slots)
  BY <1>1 DEF GraphOK, Graphs, Readers
<1>3. /\ h.slot[n].value = g.slot[n].value /\ h.slot[n].has = g.slot[n].has
      /\ h.slot[n].dirty = g.slot[n].dirty /\ h.slot[n].force = g.slot[n].force
  BY <1>1, <1>2 DEF SlotRecords
<1>4. SameSlots(g, h)
  <2>1. \A c \in Slots : /\ h.slot[c].value = g.slot[c].value /\ h.slot[c].has = g.slot[c].has
                         /\ h.slot[c].dirty = g.slot[c].dirty /\ h.slot[c].force = g.slot[c].force
    BY <1>1, <1>3
  <2> QED  BY <1>1, <2>1, SameFlags
<1>5. /\ f.op = "refresh" /\ f.node = n /\ f.i = 1
      /\ f.changed = forced /\ f \in Frames
  BY DEF ScanFrame, Frames, RefreshFrames
<1>6. RefreshFit(h, f)
  <2>1. \A j \in DOMAIN h.deps[n] : ~(j < 1)
    BY <1>2
  <2>2. ~Cached(h, n)
    BY <1>4 DEF SameSlots
  <2>3. Valid(h, n) <=> Valid(g, n)
    BY <1>4 DEF SameSlots
  <2> QED  BY <1>5, <2>1, <2>2, <2>3 DEF RefreshFit
<1> QED  BY <1>1, <1>4, <1>5, <1>6 DEF FrameFit

LEMMA FailFit ==
  ASSUME NEW height, NEW g, GraphOK(g, live), NEW kind, Fail(g, kind),
         \A c \in Slots : SlotFit(height, live, source, g, batched, c)
  PROVE  Fit(height)'
<1>1. /\ stack' = <<>>
      /\ graph'.deps = g.deps /\ graph'.dependents = g.dependents
      /\ \A c \in Slots : /\ graph'.slot[c].has = g.slot[c].has
                        /\ graph'.slot[c].value = g.slot[c].value
                        /\ graph'.slot[c].dirty = g.slot[c].dirty
                        /\ graph'.slot[c].force = g.slot[c].force
      /\ UNCHANGED <<source, live, batching, batched>>
  BY FailOK
<1>2. SameSlots(g, graph')
  BY <1>1, SameFlags
<1>3. \A c \in Slots : SlotFit(height, live, source, graph', batched, c)
  BY <1>1, <1>2, SlotSame
<1> QED  BY <1>1, <1>3, EmptyFit DEF Fit

(* refreshSlot is called and begins. *)
LEMMA CallBegins ==
  ASSUME NEW height \in [Slots -> Nat], NEW g, GraphOK(g, live), StackOK(g, live, stack), stack # <<>>,
         \A c \in Slots : SlotFit(height, live, source, g, batched, c),
         StackFit(height, source, g, stack),
         NEW n \in Slots, Calls(g, Top, n), ~Cached(g, n),
         NEW h, h = Busied(g, n), NEW forced \in BOOLEAN, forced <=> ~Valid(g, n),
         NEW f, f = ScanFrame("refresh", n, forced)
  PROVE  /\ \A c \in Slots : SlotFit(height, live, source, h, batched, c)
         /\ StackFit(height, source, h, Append(stack, f))
<1>1. stack \in Seq(Frames)
  BY TopOK
<1>2. /\ SameSlots(g, h) /\ GraphOK(h, live) /\ f \in Frames /\ FrameFit(height, source, h, f)
      /\ f.op = "refresh" /\ f.node = n /\ h.dependents = g.dependents
  <2>1. SameSlots(g, h) /\ GraphOK(h, live)
    BY BeginFit
  <2>2. f \in Frames
    BY BeginFit
  <2>3. FrameFit(height, source, h, f)
    BY BeginFit
  <2>4. f.op = "refresh" /\ f.node = n
    BY DEF ScanFrame
  <2>5. h.dependents = g.dependents
    BY DEF Busied
  <2> QED  BY <2>1, <2>2, <2>3, <2>4, <2>5
<1>3. \A c \in Slots : SlotFit(height, live, source, h, batched, c)
  BY <1>2, SlotSame
<1>4. StackFit(height, source, h, stack)
  BY <1>1, <1>2, StackSame
<1>5. \A i \in DOMAIN stack : OfSlot(stack[i]) => height[n] < height[stack[i].node]
  <2>1. \A c \in Slots : \A m \in ToSet(g.deps[c]) : m \in Slots => height[m] < height[c]
    BY DEF SlotFit
  <2> QED  BY <2>1, CalleeBelow DEF StackFit
<1>6. StackFit(height, source, h, Append(stack, f))
  BY <1>1, <1>2, <1>4, <1>5, PushFit
<1> QED  BY <1>3, <1>6

(* refreshSlot is called. *)
LEMMA CallFit ==
  ASSUME NEW height \in [Slots -> Nat], NEW g, GraphOK(g, live), StackOK(g, live, stack), stack # <<>>,
         \A c \in Slots : SlotFit(height, live, source, g, batched, c),
         StackFit(height, source, g, stack),
         NEW n \in Slots \cap live, Calls(g, Top, n), CallRefresh(g, n)
  PROVE  Fit(height)'
<1>1. /\ stack \in Seq(Frames) /\ Top = stack[Len(stack)] /\ Len(stack) \in DOMAIN stack
      /\ Top \in Frames /\ FrameOK(g, live, Top) /\ Top = Last(stack)
  BY TopOK DEF Top
<1>2. FrameFit(height, source, g, Top)
  BY <1>1 DEF StackFit
<1>3. CASE Cached(g, n)
  <2> DEFINE no == FALSE
  <2>1. no \in BOOLEAN /\ ~no
    OBVIOUS
  <2>2. graph' = g /\ stack' = Append(Front(stack), Absorb(g, Top, n, no))
        /\ UNCHANGED <<source, live, batched>>
    BY <1>3 DEF CallRefresh, Replace, Kept
  <2> HIDE DEF no
  <2> DEFINE a == Absorb(g, Top, n, no)
  <2>3. g.slot[n].has /\ g.slot[n].value \in Values
    BY <1>3 DEF GraphOK, Cached
  <2>4. a.op = Top.op /\ a.node = Top.node /\ FrameOK(g, live, a) /\ Top.op # "flush"
    BY <1>1, <2>1, <2>3, AbsorbOK
  <2>5. FrameFit(height, source, g, a)
    <3>1. Top.op = "refresh" =>
           /\ Top.changed \/ no <=> ~Valid(g, Top.node)
           /\ ~Cached(g, Top.node)
           /\ \A j \in DOMAIN g.deps[Top.node] : j < Top.i => CachedIfSlot(g, g.deps[Top.node][j])
      BY <1>2, <2>1 DEF FrameFit, RefreshFit
    <3>2. Top.op = "body" /\ Top.node \in Slots => RunFit(height, source, g, Top)
      BY <1>2 DEF FrameFit
    <3> QED  BY <1>1, <1>3, <2>1, <3>1, <3>2, AbsorbFit
  <2>6. a \in Frames
    BY <2>4 DEF FrameOK
  <2> HIDE DEF a
  <2>7. StackFit(height, source, g, Append(Front(stack), a))
    BY <1>1, <2>4, <2>5, <2>6, SwapFit DEF StackFit
  <2> QED  BY <2>2, <2>7 DEF Fit, a
<1>4. CASE ~Cached(g, n) /\ g.slot[n].busy
  <2>1. Fail(g, "cycle")
    BY <1>4 DEF CallRefresh
  <2> QED  BY <2>1, FailFit
<1>5. CASE ~Cached(g, n) /\ ~g.slot[n].busy
  <2>1. PICK h : h = Busied(g, n)
    OBVIOUS
  <2>2. PICK forced \in BOOLEAN : forced <=> (~g.slot[n].has \/ g.slot[n].force)
    <3>1. \E b \in BOOLEAN : b <=> (~g.slot[n].has \/ g.slot[n].force)
      BY Zenon
    <3> QED  BY <3>1
  <2>3. g.slot[n] \in SlotRecords
    BY DEF GraphOK, Graphs
  <2>4. forced = (~g.slot[n].has \/ g.slot[n].force) /\ (forced <=> ~Valid(g, n))
    BY <2>2, <2>3 DEF SlotRecords, Valid
  <2>5. PICK f : f = ScanFrame("refresh", n, forced)
    OBVIOUS
  <2>6. graph' = h /\ stack' = Append(stack, f) /\ UNCHANGED <<source, live, batched>>
    BY <1>5, <2>1, <2>4, <2>5 DEF CallRefresh, Kept, Busied
  <2>7. (\A c \in Slots : SlotFit(height, live, source, h, batched, c))
        /\ StackFit(height, source, h, Append(stack, f))
    BY <1>5, <2>1, <2>4, <2>5, CallBegins
  <2> QED  BY <2>6, <2>7 DEF Fit
<1> QED  BY <1>3, <1>4, <1>5

(* The edges of one node change, and nothing else. *)
OnlyEdges(g, h, n) ==
  /\ h.slot = g.slot
  /\ \A d \in Readers : d # n => h.deps[d] = g.deps[d]
  /\ \A m \in Sources \cup Slots : h.dependents[m] \ {n} = g.dependents[m] \ {n}

LEMMA OnlyEdgesFit ==
  ASSUME NEW height, NEW g, NEW h, NEW n, OnlyEdges(g, h, n), GraphOK(g, live),
         StackOK(g, live, stack), stack # <<>>, Top.op # "flush", Top.node = n, batched \subseteq Sources
  PROVE  /\ \A c \in Slots : c # n /\ SlotFit(height, live, source, g, batched, c) =>
              SlotFit(height, live, source, h, batched, c)
         /\ StackFit(height, source, g, stack) =>
              \A i \in DOMAIN stack : i # Len(stack) => FrameFit(height, source, h, stack[i])
<1>1. \A c \in Slots : (Cached(h, c) <=> Cached(g, c)) /\ (Valid(h, c) <=> Valid(g, c)) /\ h.slot[c].value = g.slot[c].value
  BY DEF OnlyEdges, Cached, Valid
<1>2. \A m : CachedIfSlot(h, m) <=> CachedIfSlot(g, m)
  BY <1>1 DEF CachedIfSlot
<1>3. \A m, v : Holds(source, h, m, v) <=> Holds(source, g, m, v)
  BY DEF OnlyEdges, Holds
<1>4. ASSUME NEW c \in Slots, c # n, SlotFit(height, live, source, g, batched, c)
      PROVE  SlotFit(height, live, source, h, batched, c)
  <2>1. h.deps[c] = g.deps[c]
    BY <1>4 DEF OnlyEdges, Readers
  <2>2. Untouched(h, batched, c) => Untouched(g, batched, c)
    <3>1. \A m \in batched : c \in g.dependents[m] => c \in h.dependents[m]
      BY <1>4 DEF OnlyEdges
    <3> QED  BY <3>1 DEF Untouched
  <2>3. Cached(h, c) => \A m \in ToSet(g.deps[c]) : CachedIfSlot(h, m)
    BY <1>1, <1>2, <1>4 DEF SlotFit
  <2> QED  BY <1>1, <1>3, <1>4, <2>1, <2>2, <2>3, SlotKept
<1>5. ASSUME StackFit(height, source, g, stack), NEW i \in DOMAIN stack, i # Len(stack)
      PROVE  FrameFit(height, source, h, stack[i])
  <2>1. stack[i] \in Frames /\ (OfSlot(stack[i]) => stack[i].node # n)
    BY <1>5, BelowOthers DEF OfSlot
  <2>2. OfSlot(stack[i]) => h.deps[stack[i].node] = g.deps[stack[i].node] /\ stack[i].node \in Slots
    BY <2>1 DEF OnlyEdges, OfSlot, Readers
  <2>3. FrameFit(height, source, g, stack[i])
    BY <1>5 DEF StackFit
  <2> QED  BY <1>1, <1>3, <2>1, <2>2, <2>3, FrameKept
<1> QED  BY <1>4, <1>5

(* A refresh of n has returned, and n is cached. *)
LEMMA ReturnFit ==
  ASSUME NEW height, NEW src, NEW h, NEW L, GraphOK(h, L), stack \in Seq(Frames), stack # <<>>,
         StackOK(h, L, Front(stack)), Ladder(height, stack),
         NEW n \in Slots, Cached(h, n), NEW ch \in BOOLEAN,
         Front(stack) # <<>> => Calls(h, Last(Front(stack)), n),
         \A i \in DOMAIN stack : i < Len(stack) - 1 => FrameFit(height, src, h, stack[i]),
         Len(stack) > 1 =>
           LET f == stack[Len(stack) - 1] IN
           /\ f.op = "refresh" =>
                /\ f.changed \/ ch <=> ~Valid(h, f.node)
                /\ ~Cached(h, f.node)
                /\ \A j \in DOMAIN h.deps[f.node] : j < f.i => CachedIfSlot(h, h.deps[f.node][j])
           /\ f.op = "body" /\ f.node \in Slots => RunFit(height, src, h, f)
  PROVE  StackFit(height, src, h, Return(h, n, ch))
<1> DEFINE b == Front(stack)
<1>1. CASE b = <<>>
  <2>1. Return(h, n, ch) = <<>>
    BY <1>1 DEF Return
  <2> QED  BY <2>1, EmptyFit
<1>2. CASE b # <<>>
  <2> DEFINE f == Last(b)
             a == Absorb(h, f, n, ch)
             k == Len(stack)
  <2>1. /\ Len(b) = k - 1 /\ k \in Nat \ {0} /\ b \in Seq(Frames) /\ \A i \in 1 .. k - 1 : b[i] = stack[i]
    BY FrontLast
  <2>2. Return(h, n, ch) = Append(Front(b), a)
    BY <1>2 DEF Return
  <2>3. DOMAIN stack = 1 .. k
    OBVIOUS
  <2> HIDE DEF k
  <2>4. b \in Seq(Frames) /\ StackOK(h, L, b) /\ Calls(h, f, n)
    BY <1>2, <2>1
  <2> HIDE DEF b
  <2>5. f = b[Len(b)] /\ Len(b) \in Nat \ {0} /\ f \in Frames /\ DOMAIN b = 1 .. Len(b)
    BY <1>2, <2>4, FrontLast
  <2>6. f = stack[k - 1] /\ k > 1 /\ Len(b) = k - 1
    BY <2>1, <2>5
  <2>7. FrameOK(h, L, f)
    BY <2>4, <2>5 DEF StackOK
  <2>8. h.slot[n].has /\ h.slot[n].value \in Values
    BY DEF Cached, GraphOK
  <2> HIDE DEF f, a
  <2>9. a.op = f.op /\ a.node = f.node /\ FrameOK(h, L, a) /\ f.op # "flush"
    BY <2>4, <2>7, <2>8, AbsorbOK DEF a
  <2>10. FrameFit(height, src, h, a)
    BY <2>4, <2>6, <2>7, AbsorbFit DEF a, k
  <2>11. a \in Frames
    BY <2>9 DEF FrameOK
  <2>12. \A i \in DOMAIN b : i \in DOMAIN stack /\ b[i] = stack[i] /\ (i # Len(b) => i < k - 1)
    BY <2>1, <2>3, <2>5
  <2>13. \A i \in DOMAIN b : i # Len(b) => FrameFit(height, src, h, b[i])
    BY <2>12 DEF k
  <2>14. Ladder(height, b)
    BY <2>12 DEF Ladder
  <2>15. StackFit(height, src, h, Append(Front(b), a))
    BY <1>2, <2>4, <2>9, <2>10, <2>11, <2>13, <2>14, SwapFit DEF f
  <2> QED  BY <2>2, <2>15 DEF a, b, f
<1> QED  BY <1>1, <1>2

LEMMA ScanDependencyFit ==
  ASSUME NEW height \in [Slots -> Nat], Shaped, Fit(height), ScanDependency PROVE Fit(height)'
<1> DEFINE m == graph.deps[Top.node][Top.i]
<1>1. stack # <<>> /\ Scanning
  BY DEF ScanDependency, Scanning, Idle
<1>2. /\ StackOK(graph, live, stack) /\ GraphOK(graph, live) /\ stack \in Seq(Frames)
      /\ Top \in Frames /\ Top = Last(stack) /\ Top = stack[Len(stack)] /\ Len(stack) \in DOMAIN stack
  BY <1>1, TopOK DEF Shaped, Top
<1>3. /\ Top.op \in {"refresh", "should"} /\ Top.node \in Readers /\ Top.i \in Nat \ {0}
      /\ (Top.op = "refresh" => Top \in RefreshFrames) /\ (Top.op = "should" => Top \in ShouldFrames)
  BY <1>1, <1>2, FrameKinds DEF Scanning, Readers
<1>4. Calls(graph, Top, m) /\ m \in live /\ m \in Sources \cup Slots
  BY <1>1, <1>2, <1>3, ScanCalls
<1>5. /\ \A c \in Slots : SlotFit(height, live, source, graph, batched, c)
      /\ StackFit(height, source, graph, stack)
  BY DEF Fit
<1>6. CASE m \in Slots \cap live /\ CallRefresh(graph, m)
  BY <1>1, <1>2, <1>4, <1>5, <1>6, CallFit
<1>7. CASE /\ m \notin Slots \cap live
           /\ stack' = Replace([Top EXCEPT !.i = @ + 1]) /\ UNCHANGED graph /\ Quietly /\ Kept
  <2> DEFINE a == [Top EXCEPT !.i = @ + 1]
  <2>1. a \in Frames /\ a.op = Top.op /\ a.node = Top.node /\ (Top.op = "refresh" => a.changed = Top.changed /\ a.i = Top.i + 1)
    <3>1. CASE Top.op = "refresh"
      BY <1>3, <3>1 DEF RefreshFrames, Frames
    <3>2. CASE Top.op = "should"
      BY <1>3, <3>2 DEF ShouldFrames, Frames
    <3> QED  BY <1>3, <3>1, <3>2
  <2>2. stack' = Append(Front(stack), a)
    BY <1>7 DEF Replace
  <2> HIDE DEF a
  <2>3. FrameFit(height, source, graph, Top)
    BY <1>2, <1>5 DEF StackFit
  <2>4. ASSUME Top.op = "refresh" PROVE RefreshFit(graph, a)
    <3>1. RefreshFit(graph, Top) /\ m \notin Slots
      BY <1>4, <1>7, <2>3, <2>4 DEF FrameFit
    <3>2. DOMAIN graph.deps[Top.node] \subseteq Nat
      BY <1>2, <1>3 DEF GraphOK, Graphs
    <3>3. ASSUME NEW j \in DOMAIN graph.deps[Top.node], j < Top.i + 1
          PROVE  CachedIfSlot(graph, graph.deps[Top.node][j])
      <4>1. j < Top.i \/ j = Top.i
        BY <1>3, <3>2, <3>3
      <4> QED  BY <3>1, <4>1 DEF RefreshFit, CachedIfSlot
    <3> QED  BY <2>1, <2>4, <3>1, <3>3 DEF RefreshFit
  <2>5. FrameFit(height, source, graph, a)
    BY <1>3, <2>1, <2>4 DEF FrameFit
  <2>6. StackFit(height, source, graph, Append(Front(stack), a))
    BY <1>1, <1>2, <1>3, <1>5, <2>1, <2>5, SwapFit DEF StackFit
  <2> QED  BY <1>5, <1>7, <2>2, <2>6 DEF Fit, Kept
<1> QED  BY <1>6, <1>7 DEF ScanDependency

(* The refresh of the slot on top has returned; what it read is cached.    *)
LEMMA CleanFit ==
  ASSUME NEW height, Shaped, Fit(height), stack # <<>>, OfSlot(Top), NEW n, n = Top.node, NEW s \in SlotRecords,
         s.has, ~s.dirty, ~s.force, s.value = graph.slot[n].value, Valid(graph, n),
         \A m \in ToSet(graph.deps[n]) : CachedIfSlot(graph, m),
         Front(stack) # <<>> => Calls(graph, Last(Front(stack)), n),
         NEW h, h = Put(graph, n, s), NEW no \in BOOLEAN, ~no
  PROVE  /\ \A c \in Slots : SlotFit(height, live, source, h, batched, c)
         /\ StackFit(height, source, h, Return(h, n, no))
<1>1. /\ StackOK(graph, live, stack) /\ GraphOK(graph, live) /\ stack \in Seq(Frames)
      /\ n \in Slots /\ Top.op # "flush" /\ Len(stack) \in Nat \ {0} /\ DOMAIN stack = 1 .. Len(stack)
  BY TopOK DEF Shaped, OfSlot
<1>2. /\ GraphOK(h, live) /\ h.deps = graph.deps /\ h.dependents = graph.dependents /\ h.slot[n] = s
      /\ \A m \in Slots : m # n => h.slot[m] = graph.slot[m]
  <2>1. s.value \in Values
    BY <1>1 DEF GraphOK, Valid
  <2> QED  BY <1>1, <2>1, SlotSetOK
<1>3. /\ \A c \in Slots : h.slot[c].value = graph.slot[c].value /\ h.slot[c].has = graph.slot[c].has
      /\ \A c \in Slots : Valid(h, c) <=> Valid(graph, c)
      /\ \A c \in Slots : Cached(h, c) <=> Cached(graph, c) \/ c = n
  <2> SUFFICES ASSUME NEW c \in Slots
               PROVE  /\ h.slot[c].value = graph.slot[c].value /\ h.slot[c].has = graph.slot[c].has
                      /\ Valid(h, c) <=> Valid(graph, c)
                      /\ Cached(h, c) <=> Cached(graph, c) \/ c = n
    OBVIOUS
  <2>1. CASE c = n
    <3>1. s.has \in BOOLEAN /\ graph.slot[n].has \in BOOLEAN
      BY <1>1 DEF GraphOK, Graphs, SlotRecords
    <3> QED  BY <1>2, <2>1, <3>1 DEF Valid, Cached
  <2>2. CASE c # n
    <3>1. h.slot[c] = graph.slot[c]
      BY <1>2, <2>2
    <3> QED  BY <2>2, <3>1 DEF Valid, Cached
  <2> QED  BY <2>1, <2>2
<1>4. /\ \A c \in Slots : SlotFit(height, live, source, graph, batched, c)
      /\ StackFit(height, source, graph, stack)
  BY DEF Fit
<1>5. \A m : CachedIfSlot(graph, m) => CachedIfSlot(h, m)
  BY <1>3 DEF CachedIfSlot
<1>6. \A c \in Slots : \A m \in ToSet(graph.deps[c]) : m \in Sources \cup Slots
  BY <1>1 DEF GraphOK, Graphs, ToSet, Readers
<1>7. \A m \in Sources \cup Slots : \A v : Holds(source, graph, m, v) => Holds(source, h, m, v)
  BY <1>3 DEF Holds
<1>8. ASSUME NEW c \in Slots
      PROVE  SlotFit(height, live, source, h, batched, c)
  <2>1. Cached(h, c) => \A m \in ToSet(graph.deps[c]) : CachedIfSlot(h, m)
    BY <1>3, <1>4, <1>5 DEF SlotFit
  <2>2. Untouched(h, batched, c) => Untouched(graph, batched, c)
    BY <1>2 DEF Untouched
  <2>3. \A m \in ToSet(graph.deps[c]) : \A v : Holds(source, graph, m, v) => Holds(source, h, m, v)
    BY <1>6, <1>7
  <2> QED  BY <1>2, <1>3, <1>4, <2>1, <2>2, <2>3, SlotKept
<1>9. ASSUME NEW i \in DOMAIN stack, i # Len(stack)
      PROVE  FrameFit(height, source, h, stack[i])
  <2>1. stack[i] \in Frames /\ (OfSlot(stack[i]) => stack[i].node # n /\ stack[i].node \in Slots)
    BY <1>1, <1>9, BelowOthers DEF OfSlot
  <2>2. FrameFit(height, source, graph, stack[i])
    BY <1>4 DEF StackFit
  <2> QED  BY <1>1, <1>2, <1>3, <1>7, <2>1, <2>2, FrameKept
<1>10. StackOK(h, live, Front(stack))
  <2>1. \A m \in Slots : m # Top.node => h.slot[m].busy = graph.slot[m].busy /\ h.slot[m].has = graph.slot[m].has
    BY <1>2
  <2> QED  BY <1>1, <1>2, <2>1, BelowUndisturbed
<1>11. StackFit(height, source, h, Return(h, n, no))
  <2>1. Front(stack) # <<>> => Calls(h, Last(Front(stack)), n)
    BY <1>2 DEF Calls
  <2>2. \A i \in DOMAIN stack : i < Len(stack) - 1 => FrameFit(height, source, h, stack[i])
    BY <1>1, <1>9
  <2>3. ASSUME Len(stack) > 1, NEW f, f = stack[Len(stack) - 1]
        PROVE  /\ f.op = "refresh" =>
                    /\ f.changed \/ no <=> ~Valid(h, f.node)
                    /\ ~Cached(h, f.node)
                    /\ \A j \in DOMAIN h.deps[f.node] : j < f.i => CachedIfSlot(h, h.deps[f.node][j])
               /\ f.op = "body" /\ f.node \in Slots => RunFit(height, source, h, f)
    <3>1. FrameFit(height, source, h, f)
      BY <1>1, <1>9, <2>3
    <3> QED  BY <3>1 DEF FrameFit, RefreshFit
  <2>4. Cached(h, n) /\ Ladder(height, stack)
    BY <1>1, <1>3, <1>4 DEF StackFit
  <2> QED  BY <1>1, <1>2, <1>10, <2>1, <2>2, <2>3, <2>4, ReturnFit
<1> QED  BY <1>8, <1>11

LEMMA ScanDoneFit ==
  ASSUME NEW height \in [Slots -> Nat], Shaped, Fit(height), ScanDone PROVE Fit(height)'
<1> DEFINE n == Top.node
<1>1. stack # <<>> /\ Top.op \in {"refresh", "should"}
  BY DEF ScanDone, Idle
<1>2. /\ StackOK(graph, live, stack) /\ GraphOK(graph, live) /\ stack \in Seq(Frames)
      /\ Top \in Frames /\ FrameOK(graph, live, Top) /\ Top = Last(stack)
      /\ Top = stack[Len(stack)] /\ Len(stack) \in DOMAIN stack /\ batched \subseteq Sources
  BY <1>1, TopOK DEF Shaped, Top
<1>3. /\ n \in Readers \cap live /\ Top.i \in Nat \ {0} /\ Top.op # "flush"
      /\ Top.op = "refresh" => n \in Slots /\ OfSlot(Top)
      /\ Top.op = "should" => n \in Effects
  BY <1>1, <1>2, FrameKinds DEF Readers, FrameOK, OfSlot
<1>4. UNCHANGED <<source, live, batched>> /\ ~Scanning
  BY DEF ScanDone, Kept
<1>5. /\ \A c \in Slots : SlotFit(height, live, source, graph, batched, c)
      /\ StackFit(height, source, graph, stack)
  BY DEF Fit
<1>6. FrameFit(height, source, graph, Top)
  BY <1>2, <1>5 DEF StackFit
<1>7. CASE /\ Top.changed
           /\ graph' = [WithoutEdges(graph, n) EXCEPT !.forceRun = @ \ {n}]
           /\ stack' = Replace(BodyFrame(n))
  <2> DEFINE k == WithoutEdges(graph, n)
             b == BodyFrame(n)
  <2>1. /\ GraphOK(k, live) /\ k.slot = graph.slot /\ k.deps[n] = <<>>
        /\ \A d \in Readers : d # n => k.deps[d] = graph.deps[d]
        /\ \A x \in Sources \cup Slots : k.dependents[x] = graph.dependents[x] \ {n}
    BY <1>2, <1>3, WithoutEdgesOK
  <2>2. graph' = [k EXCEPT !.forceRun = @ \ {n}]
    BY <1>7
  <2> HIDE DEF k
  <2>3. graph'.slot = k.slot /\ graph'.deps = k.deps /\ graph'.dependents = k.dependents
    BY <2>1, <2>2 DEF GraphOK, Graphs
  <2>4. b \in BodyFrames /\ b.op = "body" /\ b.node = n /\ b.seen = <<>>
    BY <1>3 DEF BodyFrame, BodyFrames
  <2>5. stack' = Append(Front(stack), b)
    BY <1>7 DEF Replace
  <2> HIDE DEF b, n
  <2>6. OnlyEdges(graph, graph', n)
    BY <2>1, <2>3 DEF OnlyEdges
  <2>7. /\ \A c \in Slots : c # n => SlotFit(height, live, source, graph', batched, c)
        /\ \A i \in DOMAIN stack : i # Len(stack) => FrameFit(height, source, graph', stack[i])
    BY <1>1, <1>2, <1>3, <1>5, <2>6, OnlyEdgesFit DEF n
  <2>8. n \in Slots => ~Valid(graph', n) /\ ~Cached(graph', n)
    <3>1. n \in Slots => Top.op = "refresh"
      BY <1>1, <1>3, KindsAssumption
    <3>2. n \in Slots => ~Valid(graph, n)
      BY <1>6, <1>7, <3>1 DEF FrameFit, RefreshFit, n
    <3> QED  BY <2>1, <2>3, <3>2 DEF Valid, Cached
  <2>9. graph'.deps[n] = <<>> /\ ToSet(graph'.deps[n]) = {} /\ DOMAIN graph'.deps[n] = {}
    <3>1. ToSet(<<>>) = {} /\ DOMAIN <<>> = {}
      BY DEF ToSet
    <3> QED  BY <2>1, <2>3, <3>1
  <2>10. n \in Slots => SlotFit(height, live, source, graph', batched, n)
    BY <2>8, <2>9 DEF SlotFit
  <2>11. n \in Slots => RunFit(height, source, graph', b)
    <3>1. Len(<<>>) = 0 /\ 1 .. 0 = {}
      OBVIOUS
    <3>2. Trace(n, <<>>) /\ Agrees(source, graph', n, <<>>) /\ Readings(n, <<>>) = {}
      BY <3>1 DEF Trace, Agrees, Readings
    <3>3. Upwards(graph'.deps[n], height)
      BY <2>9 DEF Upwards
    <3> QED  BY <2>4, <2>8, <2>9, <3>2, <3>3 DEF RunFit
  <2>12. FrameFit(height, source, graph', b) /\ b \in Frames
    BY <2>4, <2>11 DEF FrameFit, Frames
  <2>13. StackFit(height, source, graph', stack')
    BY <1>1, <1>2, <1>3, <1>5, <2>4, <2>5, <2>7, <2>12, SwapFit DEF StackFit, n
  <2> QED  BY <1>4, <2>7, <2>10, <2>13 DEF Fit
<1>8. CASE ~Top.changed /\ Top.op = "refresh"
  <2> DEFINE s == [graph.slot[n] EXCEPT !.dirty = FALSE, !.force = FALSE, !.busy = FALSE]
             h == Put(graph, n, s)
             no == FALSE
  <2>1. n \in Slots /\ OfSlot(Top) /\ RefreshFit(graph, Top)
    BY <1>3, <1>6, <1>8 DEF FrameFit
  <2>2. Valid(graph, n) /\ graph.slot[n] \in SlotRecords
    BY <1>2, <1>8, <2>1 DEF RefreshFit, GraphOK, Graphs
  <2>3. /\ s \in SlotRecords /\ s.has = graph.slot[n].has /\ s.value = graph.slot[n].value
        /\ ~s.dirty /\ ~s.force
    BY <2>2, Cleaned
  <2>4. graph' = h /\ stack' = Return(h, n, no) /\ no \in BOOLEAN /\ ~no
    BY <1>8 DEF ScanDone, Put
  <2>5. \A m \in ToSet(graph.deps[n]) : CachedIfSlot(graph, m)
    <3>1. graph.deps[n] \in Seq(Sources \cup Slots)
      BY <1>2, <1>3 DEF GraphOK, Graphs
    <3>2. ~(Top.i <= Len(graph.deps[n]))
      BY <1>1, <1>4, <1>8 DEF Scanning, Idle
    <3>3. ASSUME NEW j \in DOMAIN graph.deps[n]
          PROVE  j < Top.i
      BY <1>3, <3>1, <3>2
    <3> QED  BY <2>1, <3>3 DEF RefreshFit, ToSet
  <2>6. Front(stack) # <<>> => Calls(graph, Last(Front(stack)), n)
    BY <1>1, <1>2, <2>1, BelowCalls
  <2>7. s.has
    BY <2>2, <2>3 DEF Valid
  <2> HIDE DEF s, no, h
  <2>8. /\ \A c \in Slots : SlotFit(height, live, source, h, batched, c)
        /\ StackFit(height, source, h, Return(h, n, no))
    <3> HIDE DEF n
    <3>1. n = Top.node
      BY DEF n
    <3> QED  BY <1>1, <2>1, <2>2, <2>3, <2>4, <2>5, <2>6, <2>7, <3>1, CleanFit DEF h
  <2> QED  BY <1>4, <2>4, <2>8 DEF Fit
<1>9. CASE stack' = Front(stack) /\ UNCHANGED graph
  <2>1. StackFit(height, source, graph, Front(stack))
    BY <1>1, <1>2, <1>5, PopFit
  <2> QED  BY <1>4, <1>5, <1>9, <2>1 DEF Fit
<1> QED  BY <1>7, <1>8, <1>9 DEF ScanDone

(* What a body reads next is below it and not below what it read before.   *)
LEMMA NextIsHigher ==
  ASSUME NEW height \in [Slots -> Nat], ReadsUpwards(height), NEW c \in Slots, NEW seen \in Seq(Values),
         Len(seen) <= MaxReads, Trace(c, seen), Body(c, seen).do = "read",
         NEW m \in Slots, m = Body(c, seen).node
  PROVE  /\ height[m] < height[c]
         /\ \A x \in Readings(c, seen) : x \in Slots => height[x] <= height[m]
<1> DEFINE k == Len(seen)
<1>1. k \in 0 .. MaxReads /\ seen \in [1 .. k -> Values]
  BY BoundsAssumption
<1> HIDE DEF k
<1>2. /\ height[m] < height[c]
      /\ \A p \in 0 .. k - 1 :
           LET before == Body(c, [i \in 1 .. p |-> seen[i]]) IN
           before.do = "read" /\ before.node \in Slots => height[before.node] <= height[m]
  BY <1>1 DEF ReadsUpwards
<1>3. ASSUME NEW p \in 1 .. k, Of(c, seen, p) \in Slots
      PROVE  height[Of(c, seen, p)] <= height[m]
  <2>1. p - 1 \in 0 .. k - 1
    BY <1>1
  <2>2. Body(c, Upto(seen, p - 1)).do = "read"
    BY DEF Trace, k
  <2> QED  BY <1>2, <1>3, <2>1, <2>2 DEF Of, Upto
<1> QED  BY <1>2, <1>3 DEF Readings, k

LEMMA UpwardsAppend ==
  ASSUME NEW edges \in Seq(Sources \cup Slots), NEW m \in Sources \cup Slots, NEW height, Upwards(edges, height),
         m \in Slots => \A x \in ToSet(edges) : x \in Slots => height[x] <= height[m]
  PROVE  Upwards(Append(edges, m), height)
<1> DEFINE t == Append(edges, m)
           n == Len(edges)
<1>1. /\ n \in Nat /\ DOMAIN edges = 1 .. n /\ DOMAIN t = (1 .. n) \cup {n + 1}
      /\ t[n + 1] = m /\ \A i \in 1 .. n : t[i] = edges[i]
  OBVIOUS
<1>2. \A i \in 1 .. n : edges[i] \in ToSet(edges)
  BY <1>1 DEF ToSet
<1> HIDE DEF t, n
<1>3. ASSUME NEW i \in DOMAIN t, NEW j \in DOMAIN t, i < j, t[i] \in Slots, t[j] \in Slots
      PROVE  height[t[i]] <= height[t[j]]
  <2>1. i \in 1 .. n
    BY <1>1, <1>3
  <2>2. CASE j = n + 1
    BY <1>1, <1>2, <1>3, <2>1, <2>2
  <2>3. CASE j # n + 1
    <3>1. j \in 1 .. n
      BY <1>1, <2>3
    <3> QED  BY <1>1, <1>3, <2>1, <3>1 DEF Upwards
  <2> QED  BY <2>2, <2>3
<1> QED  BY <1>3 DEF Upwards, t

LEMMA BodyReadsFit ==
  ASSUME NEW height \in [Slots -> Nat], ReadsUpwards(height), Shaped, Fit(height), BodyReads PROVE Fit(height)'
<1> DEFINE c == Top.node
           m == Instruction.node
           g == WithEdge(graph, c, m)
<1>1. InBody /\ Instruction.do = "read" /\ Instruction = Body(c, Top.seen)
  BY DEF BodyReads, Instruction
<1>2. /\ stack # <<>> /\ StackOK(graph, live, stack) /\ GraphOK(graph, live)
      /\ stack \in Seq(Frames) /\ Top = Last(stack) /\ Top.op = "body" /\ Top \in BodyFrames
      /\ c \in Readers \cap live /\ FrameOK(graph, live, Top)
      /\ m \in Sources \cup Slots /\ Len(Top.seen) < MaxReads /\ Top.seen \in Seq(Values)
      /\ Len(stack) \in DOMAIN stack /\ Top = stack[Len(stack)] /\ batched \subseteq Sources
  BY <1>1, BodyOK, TopOK DEF Shaped
<1>3. /\ \A d \in Slots : SlotFit(height, live, source, graph, batched, d)
      /\ StackFit(height, source, graph, stack) /\ FrameFit(height, source, graph, Top)
  BY <1>2 DEF Fit, StackFit
<1>4. CASE Fail(graph, "disposed")
  BY <1>2, <1>3, <1>4, FailFit
<1>5. ASSUME m \in live
      PROVE  /\ GraphOK(g, live) /\ StackOK(g, live, stack) /\ m \in ToSet(g.deps[c])
             /\ \A d \in Slots : SlotFit(height, live, source, g, batched, d)
             /\ StackFit(height, source, g, stack)
  <2>1. /\ GraphOK(g, live) /\ g.slot = graph.slot
        /\ \A d \in Readers : d # c => g.deps[d] = graph.deps[d]
        /\ g.deps[c] = IF m \in ToSet(graph.deps[c]) THEN graph.deps[c] ELSE Append(graph.deps[c], m)
        /\ \A x \in Sources \cup Slots : g.dependents[x] = graph.dependents[x] \cup (IF x = m THEN {c} ELSE {})
    BY <1>2, <1>5, WithEdgeOK
  <2>2. m \in ToSet(g.deps[c]) /\ StackOK(g, live, stack)
    BY <1>1, <1>5, ReadLeavesEdge
  <2>3. graph.deps[c] \in Seq(Sources \cup Slots)
    BY <1>2 DEF GraphOK, Graphs
  <2>4. ToSet(g.deps[c]) = ToSet(graph.deps[c]) \cup {m}
    BY <1>2, <2>1, <2>3, ToSetAppend
  <2> HIDE DEF g
  <2>5. OnlyEdges(graph, g, c)
    BY <2>1 DEF OnlyEdges
  <2> HIDE DEF c, m
  <2>6. /\ \A d \in Slots : d # c => SlotFit(height, live, source, g, batched, d)
        /\ \A i \in DOMAIN stack : i # Len(stack) => FrameFit(height, source, g, stack[i])
    BY <1>2, <1>3, <2>5, OnlyEdgesFit DEF c
  <2>7. ASSUME c \in Slots
        PROVE  SlotFit(height, live, source, g, batched, c) /\ RunFit(height, source, g, Top)
    <3>1. RunFit(height, source, graph, Top)
      BY <1>2, <1>3, <2>7 DEF FrameFit, c
    <3>2. /\ m \in Slots => height[m] < height[c]
          /\ m \in Slots => \A x \in Readings(c, Top.seen) : x \in Slots => height[x] <= height[m]
      <4>1. Agrees(source, graph, c, Top.seen) /\ c \in Slots
        BY <2>7, <3>1 DEF RunFit, c
      <4>2. Body(c, Top.seen).do = "read" /\ Body(c, Top.seen).node = m
        BY <1>1 DEF c, m
      <4>3. Len(Top.seen) <= MaxReads /\ Top.seen \in Seq(Values) /\ Trace(c, Top.seen)
        BY <1>2, <3>1, BoundsAssumption DEF RunFit, c
      <4> HIDE DEF c, m
      <4> SUFFICES ASSUME m \in Slots
                   PROVE  height[m] < height[c]
                          /\ \A x \in Readings(c, Top.seen) : x \in Slots => height[x] <= height[m]
        OBVIOUS
      <4> QED  BY <4>1, <4>2, <4>3, NextIsHigher
    <3>3. ~Valid(g, c) /\ ~Cached(g, c)
      BY <2>1, <3>1 DEF RunFit, Valid, Cached, c
    <3>4. SlotFit(height, live, source, g, batched, c)
      BY <1>3, <2>4, <2>7, <3>2, <3>3 DEF SlotFit
    <3>5. \A x \in ToSet(graph.deps[c]) : x \in Readings(c, Top.seen) \/ x = m
      BY <1>1, <3>1 DEF RunFit, c, m
    <3>6. m \in Slots => height[m] \in Nat
      OBVIOUS
    <3>7. m \in Slots => \A x \in ToSet(graph.deps[c]) : x \in Slots => height[x] <= height[m]
      BY <3>2, <3>5, <3>6
    <3>8. Upwards(graph.deps[c], height)
      BY <3>1 DEF RunFit, c
    <3>9. Upwards(g.deps[c], height)
      BY <1>2, <2>1, <2>3, <3>7, <3>8, UpwardsAppend DEF m
    <3>10. \A x : CachedIfSlot(g, x) <=> CachedIfSlot(graph, x)
      BY <2>1 DEF CachedIfSlot, Cached
    <3>11. \A x, v : Holds(source, g, x, v) <=> Holds(source, graph, x, v)
      BY <2>1 DEF Holds
    <3>12. Agrees(source, g, c, Top.seen)
      BY <3>1, <3>11 DEF RunFit, Agrees, c
    <3>13. \A x \in ToSet(g.deps[c]) :
             x \in Readings(c, Top.seen) \/ (Body(c, Top.seen).do = "read" /\ Body(c, Top.seen).node = x)
      BY <1>1, <2>4, <3>5 DEF c, m
    <3> QED  BY <2>4, <3>1, <3>3, <3>4, <3>9, <3>10, <3>12, <3>13 DEF RunFit, c
  <2>8. FrameFit(height, source, g, Top)
    BY <1>2, <2>7 DEF FrameFit, c
  <2>9. StackFit(height, source, g, stack)
    BY <1>2, <1>3, <2>6, <2>8 DEF StackFit
  <2> QED  BY <2>1, <2>2, <2>6, <2>7, <2>9
<1>6. CASE /\ m \in live \cap Sources /\ graph' = g
           /\ stack' = Replace([Top EXCEPT !.seen = Append(@, source[m])])
           /\ Quietly /\ Kept
  <2> DEFINE v == source[m]
             a == [Top EXCEPT !.seen = Append(@, v)]
  <2>1. v \in Values
    BY <1>6 DEF Shaped
  <2>2. stack' = Append(Front(stack), a)
    BY <1>6 DEF Replace
  <2>3. Holds(source, g, m, v) /\ CachedIfSlot(g, m)
    BY <1>6, KindsAssumption DEF Holds, CachedIfSlot
  <2>4. /\ GraphOK(g, live) /\ m \in ToSet(g.deps[c])
        /\ \A d \in Slots : SlotFit(height, live, source, g, batched, d)
        /\ StackFit(height, source, g, stack)
    BY <1>5, <1>6
  <2> HIDE DEF g, v
  <2>5. a.op = "body" /\ a.node = c /\ a.seen = Append(Top.seen, v) /\ a \in Frames
    <3>1. Append(Top.seen, v) \in Seq(Values)
      BY <1>2, <2>1
    <3>2. a \in BodyFrames /\ a.op = "body" /\ a.node = c /\ a.seen = Append(Top.seen, v)
      BY <1>2, <3>1 DEF BodyFrames
    <3> QED  BY <3>2 DEF Frames
  <2> HIDE DEF a
  <2>6. c \in Slots => RunFit(height, source, g, Top)
    BY <1>2, <2>4 DEF StackFit, FrameFit
  <2>7. c \in Slots => RunFit(height, source, g, a)
    BY <1>1, <1>2, <2>1, <2>3, <2>4, <2>5, <2>6, SeenFit
  <2>8. FrameFit(height, source, g, a)
    BY <2>5, <2>7 DEF FrameFit
  <2>9. StackFit(height, source, g, Append(Front(stack), a))
    BY <1>2, <2>4, <2>5, <2>8, SwapFit DEF StackFit
  <2> QED  BY <1>6, <2>2, <2>4, <2>9 DEF Fit, Kept
<1>7. CASE m \in live \cap Slots /\ CallRefresh(g, m)
  <2>1. /\ GraphOK(g, live) /\ StackOK(g, live, stack) /\ m \in ToSet(g.deps[c])
        /\ \A d \in Slots : SlotFit(height, live, source, g, batched, d)
        /\ StackFit(height, source, g, stack)
    BY <1>5, <1>7
  <2> HIDE DEF g
  <2>2. Calls(g, Top, m)
    BY <1>1, <1>2, <2>1 DEF Calls
  <2> QED  BY <1>2, <1>7, <2>1, <2>2, CallFit
<1> QED  BY <1>4, <1>6, <1>7 DEF BodyReads

LEMMA BodyThrowsFit ==
  ASSUME NEW height, Shaped, Fit(height), BodyThrows PROVE Fit(height)'
BY FailFit DEF BodyThrows, Shaped, Fit

(* What a return leaves behind: the slot is cached, no other slot is more  *)
(* or less so, since whatever is made of it was not cached; and of the     *)
(* others only its readers cease to be valid, if it has changed.           *)
LEMMA StoredFit ==
  ASSUME NEW height \in [Slots -> Nat], GraphOK(graph, live), NEW n \in Slots, ~Valid(graph, n),
         \A c \in Slots : /\ \A m \in ToSet(graph.deps[c]) : m \in Slots => height[m] < height[c]
                          /\ Cached(graph, c) => \A m \in ToSet(graph.deps[c]) : CachedIfSlot(graph, m),
         NEW v \in Values, NEW h \in Store(graph, n, v),
         NEW changed, changed <=> graph.slot[n].has /\ graph.slot[n].value # v
  PROVE  /\ GraphOK(h, live) /\ h.deps = graph.deps /\ h.dependents = graph.dependents
         /\ h.slot[n].has /\ h.slot[n].value = v
         /\ \A c \in Slots : c # n => h.slot[c].has = graph.slot[c].has /\ h.slot[c].value = graph.slot[c].value
                                      /\ h.slot[c].busy = graph.slot[c].busy
         /\ \A c \in Slots : Cached(h, c) <=> Cached(graph, c) \/ c = n
         /\ \A c \in Slots : c # n =>
              (Valid(h, c) <=> Valid(graph, c) /\ ~(changed /\ c \in graph.dependents[n]))
<1> DEFINE k == Put(graph, n, Held(v))
           roots == graph.dependents[n]
<1>1. /\ GraphOK(h, live) /\ GraphOK(k, live)
      /\ k.deps = graph.deps /\ k.dependents = graph.dependents /\ k.slot[n] = Held(v)
      /\ \A m \in Slots : m # n => k.slot[m] = graph.slot[m]
      /\ IF graph.slot[n].has /\ graph.slot[n].value # v THEN MarkedFrom(k, h, roots) ELSE h = k
  BY StoreParts
<1> HIDE DEF k
<1>2. /\ k.slot[n].has /\ k.slot[n].value = v /\ Cached(k, n)
      /\ \A c \in Slots : Cached(k, c) <=> Cached(graph, c) \/ c = n
      /\ \A c \in Slots : c # n => (Valid(k, c) <=> Valid(graph, c))
  BY <1>1 DEF Held, Cached, Valid
<1>3. CASE ~changed
  <2>1. h = k
    BY <1>1, <1>3
  <2> QED  BY <1>1, <1>2, <1>3, <2>1
<1>4. CASE changed
  <2>1. MarkedFrom(k, h, roots) /\ h \in Graphs
    BY <1>1, <1>4 DEF GraphOK
  <2>2. ~Cached(graph, n)
    BY DEF Cached, Valid
  <2>3. \A c, m \in Slots : c \in graph.dependents[m] => m \in ToSet(graph.deps[c])
    BY DEF GraphOK, Mirror, Readers
  <2> DEFINE X == {c \in Slots : ~Cached(graph, c) /\ height[n] < height[c]}
  <2>4. Below(k, roots, X) \cap Slots \subseteq X
    <3> SUFFICES ASSUME NEW c \in Slots, c \in Below(k, roots, X) PROVE c \in X
      OBVIOUS
    <3>1. CASE c \in roots
      <4>1. n \in ToSet(graph.deps[c])
        BY <2>3, <3>1
      <4> QED  BY <2>2, <4>1 DEF CachedIfSlot
    <3>2. ASSUME NEW m \in X, c \in k.dependents[m]
          PROVE  c \in X
      <4>1. m \in Slots /\ m \in ToSet(graph.deps[c]) /\ ~Cached(graph, m)
        BY <1>1, <2>3, <3>2
      <4>2. height[n] < height[m] /\ height[m] < height[c]
        BY <4>1
      <4>3. height[n] \in Nat /\ height[m] \in Nat /\ height[c] \in Nat
        BY <4>1
      <4>4. height[n] < height[c]
        BY <4>2, <4>3
      <4> QED  BY <4>1, <4>4 DEF CachedIfSlot
    <3> QED  BY <3>1, <3>2 DEF Below
  <2>5. Reached(k, roots) \cap Slots \subseteq X
    <3>1. X \in SUBSET Slots
      OBVIOUS
    <3> HIDE DEF X, roots
    <3> QED  BY <2>4, <3>1, ReachedParts
  <2>6. n \notin X /\ \A c \in X : ~Cached(graph, c)
    <3>1. height[n] \in Nat
      OBVIOUS
    <3> QED  BY <3>1
  <2> HIDE DEF X
  <2>7. ASSUME NEW c \in Slots
        PROVE  /\ Cached(h, c) => Cached(k, c)
               /\ Cached(k, c) /\ c \notin Reached(k, roots) => Cached(h, c)
               /\ Valid(h, c) <=> Valid(k, c) /\ c \notin roots
               /\ h.slot[c].has = k.slot[c].has /\ h.slot[c].value = k.slot[c].value
               /\ h.slot[c].busy = k.slot[c].busy
    <3>1. h.slot[c].busy = k.slot[c].busy
      BY <2>1 DEF MarkedFrom
    <3>2. Worsened(k, h, roots, c)
      BY <1>1, <2>1, MarksClosed
    <3> QED  BY <3>1, <3>2 DEF Worsened
  <2>8. \A c \in Slots : Cached(h, c) <=> Cached(graph, c) \/ c = n
    BY <1>2, <2>5, <2>6, <2>7
  <2>9. h.deps = graph.deps /\ h.dependents = graph.dependents
    BY <1>1, <2>1 DEF MarkedFrom
  <2> QED  BY <1>1, <1>2, <1>4, <2>7, <2>8, <2>9
<1> QED  BY <1>3, <1>4

(* A refresh further down that is still right to keep its value does not   *)
(* depend on what runs on top: it would have come to it before what it     *)
(* waits for, and found it cached, or will find it above.                  *)
LEMMA LowerRefresh ==
  ASSUME NEW height \in [Slots -> Nat], StackOK(graph, live, stack), GraphOK(graph, live), stack # <<>>,
         OfSlot(Top), ~Cached(graph, Top.node), StackFit(height, source, graph, stack),
         NEW i \in DOMAIN stack, i < Len(stack) - 1, stack[i].op = "refresh", NEW p, p = stack[i].node,
         Valid(graph, p), SlotFit(height, live, source, graph, batched, p)
  PROVE  Top.node \notin ToSet(graph.deps[p])
<1> DEFINE n == Top.node
           f == stack[i]
           q == stack[i + 1]
<1>1. /\ stack \in Seq(Frames) /\ Top = stack[Len(stack)] /\ Len(stack) \in Nat \ {0}
      /\ DOMAIN stack = 1 .. Len(stack)
  BY TopOK
<1>2. i + 1 \in DOMAIN stack /\ i + 1 < Len(stack) /\ i + 1 > 1 /\ i + 1 - 1 = i /\ Len(stack) \in DOMAIN stack
  BY <1>1
<1>3. f \in Frames /\ q \in Frames /\ FrameOK(graph, live, f) /\ PairOK(graph, f, q)
  BY <1>1, <1>2 DEF StackOK
<1>4. p \in Slots /\ p \in live /\ f.i \in Nat \ {0}
  BY <1>3, FrameKinds DEF FrameOK
<1>5. OfSlot(q)
  <2>1. q.op # "flush"
    BY <1>1, <1>2 DEF StackFit, Ladder
  <2>2. ~OfEffect(q)
    BY <1>3 DEF PairOK
  <2> QED  BY <1>3, <2>1, <2>2, FrameKinds DEF OfSlot, OfEffect, Readers
<1>6. f.i \in DOMAIN graph.deps[p] /\ graph.deps[p][f.i] = q.node /\ q.node \in Slots
  BY <1>3, <1>5 DEF PairOK, Calls, OfSlot
<1>7. height[n] < height[q.node] /\ n \in Slots /\ height[n] \in Nat /\ height[q.node] \in Nat
  BY <1>1, <1>2, <1>5, <1>6 DEF StackFit, Ladder, OfSlot
<1>8. Upwards(graph.deps[p], height)
  BY <1>4 DEF SlotFit
<1>9. \A j \in DOMAIN graph.deps[p] : j < f.i => CachedIfSlot(graph, graph.deps[p][j])
  BY DEF StackFit, FrameFit, RefreshFit
<1>10. DOMAIN graph.deps[p] \subseteq Nat
  BY <1>4 DEF GraphOK, Graphs, Readers
<1> SUFFICES ASSUME NEW k \in DOMAIN graph.deps[p], graph.deps[p][k] = n PROVE FALSE
  BY DEF ToSet
<1> HIDE DEF n, f, q
<1>11. CASE k < f.i
  BY <1>7, <1>9, <1>11 DEF CachedIfSlot, n
<1>12. CASE k = f.i
  BY <1>6, <1>7, <1>12
<1>13. CASE f.i < k
  <2>1. height[q.node] <= height[n]
    BY <1>6, <1>7, <1>8, <1>13 DEF Upwards
  <2> QED  BY <1>7, <2>1
<1> QED  BY <1>4, <1>10, <1>11, <1>12, <1>13

LEMMA SlotReturnsFit ==
  ASSUME NEW height \in [Slots -> Nat], Shaped, Fit(height), SlotReturns PROVE Fit(height)'
<1> DEFINE n == Top.node
           v == Instruction.value
           changed == graph.slot[n].has /\ graph.slot[n].value # v
           k == Len(stack)
           roots == graph.dependents[n]
<1>1. /\ InBody /\ n \in Slots /\ Instruction = Body(n, Top.seen) /\ Instruction.do = "return"
      /\ changed \in BOOLEAN
  BY DEF SlotReturns, Instruction
<1>2. /\ stack # <<>> /\ StackOK(graph, live, stack) /\ GraphOK(graph, live)
      /\ stack \in Seq(Frames) /\ Top.op = "body" /\ Top.op # "flush" /\ v \in Values
      /\ Top = stack[k] /\ k \in DOMAIN stack /\ k \in Nat \ {0} /\ DOMAIN stack = 1 .. k
      /\ OfSlot(Top) /\ Top.seen \in Seq(Values) /\ Len(Top.seen) <= MaxReads
  BY <1>1, BodyOK, TopOK DEF OfSlot
<1>3. PICK h \in Store(graph, n, v) : graph' = h /\ stack' = Return(h, n, changed)
  BY DEF SlotReturns
<1>4. UNCHANGED <<source, live, batched>>
  BY DEF SlotReturns, Kept
<1>5. /\ \A c \in Slots : SlotFit(height, live, source, graph, batched, c)
      /\ StackFit(height, source, graph, stack) /\ RunFit(height, source, graph, Top)
  BY <1>1, <1>2 DEF Fit, StackFit, FrameFit
<1>6. ~Valid(graph, n) /\ ~Cached(graph, n)
  BY <1>5 DEF RunFit, Valid, Cached
<1>7. /\ GraphOK(h, live) /\ h.deps = graph.deps /\ h.dependents = graph.dependents
      /\ h.slot[n].has /\ h.slot[n].value = v
      /\ \A c \in Slots : c # n => h.slot[c].has = graph.slot[c].has /\ h.slot[c].value = graph.slot[c].value
                                   /\ h.slot[c].busy = graph.slot[c].busy
      /\ \A c \in Slots : Cached(h, c) <=> Cached(graph, c) \/ c = n
      /\ \A c \in Slots : c # n => (Valid(h, c) <=> Valid(graph, c) /\ ~(changed /\ c \in roots))
  <2>1. \A c \in Slots : /\ \A m \in ToSet(graph.deps[c]) : m \in Slots => height[m] < height[c]
                         /\ Cached(graph, c) => \A m \in ToSet(graph.deps[c]) : CachedIfSlot(graph, m)
    BY <1>5 DEF SlotFit
  <2>2. changed <=> graph.slot[n].has /\ graph.slot[n].value # v
    OBVIOUS
  <2> HIDE DEF changed, v, n
  <2> QED  BY <1>1, <1>2, <1>3, <1>6, <2>1, <2>2, StoredFit
<1>8. \A c \in Slots, m \in Sources \cup Slots :
        /\ m \in ToSet(graph.deps[c]) <=> c \in graph.dependents[m]
        /\ m \in ToSet(graph.deps[c]) => m \in Sources \cup Slots
  BY <1>2 DEF GraphOK, Mirror, Readers
<1>9. \A c \in Slots : \A m \in ToSet(graph.deps[c]) : m \in Sources \cup Slots
  BY <1>2 DEF GraphOK, Graphs, ToSet, Readers
<1>10. \A m : CachedIfSlot(graph, m) => CachedIfSlot(h, m)
  BY <1>7 DEF CachedIfSlot
<1>11. \A m \in Sources \cup Slots : m # n => \A x : Holds(source, graph, m, x) => Holds(source, h, m, x)
  BY <1>7 DEF Holds
<1>12. ~changed => \A x : Holds(source, graph, n, x) => Holds(source, h, n, x)
  BY <1>1, <1>7, KindsAssumption DEF Holds
<1>13. changed \in BOOLEAN
  OBVIOUS
<1> HIDE DEF n, v, changed, k, roots
<1>14. ASSUME NEW c \in Slots, c # n
       PROVE  SlotFit(height, live, source, h, batched, c)
  <2>1. Cached(h, c) => \A m \in ToSet(graph.deps[c]) : CachedIfSlot(h, m)
    BY <1>5, <1>7, <1>10, <1>14 DEF SlotFit
  <2>2. Untouched(h, batched, c) => Untouched(graph, batched, c)
    BY <1>7 DEF Untouched
  <2>3. ASSUME Valid(h, c), NEW m \in ToSet(graph.deps[c]), NEW x, Holds(source, graph, m, x)
        PROVE  Holds(source, h, m, x)
    <3>1. m \in Sources \cup Slots
      BY <1>9
    <3>2. CASE m # n
      BY <1>11, <2>3, <3>1, <3>2
    <3>3. CASE m = n
      <4>1. c \in roots
        BY <1>8, <3>1, <3>3 DEF roots
      <4>2. ~changed
        BY <1>7, <1>14, <2>3, <4>1
      <4> QED  BY <1>12, <2>3, <3>3, <4>2
    <3> QED  BY <3>2, <3>3
  <2> QED  BY <1>5, <1>7, <1>14, <2>1, <2>2, <2>3, SlotKept
<1>15. /\ \A m \in Readings(n, Top.seen) : CachedIfSlot(graph, m) /\ m \in Sources \cup Slots /\ m # n
       /\ ToSet(graph.deps[n]) = Readings(n, Top.seen)
  <2>1. ToSet(graph.deps[n]) = Readings(n, Top.seen)
    BY <1>1, <1>5 DEF RunFit, n
  <2>2. \A m \in Readings(n, Top.seen) : CachedIfSlot(graph, m)
    BY <1>5 DEF RunFit, n
  <2>3. \A m \in Readings(n, Top.seen) : m \in Sources \cup Slots
    BY <1>1, <1>9, <2>1
  <2> QED  BY <1>1, <1>6, <2>1, <2>2, <2>3 DEF CachedIfSlot
<1>16. SlotFit(height, live, source, h, batched, n)
  <2>1. \A m \in ToSet(h.deps[n]) : (m \in Slots => height[m] < height[n]) /\ CachedIfSlot(h, m)
    BY <1>1, <1>5, <1>7, <1>10, <1>15 DEF SlotFit
  <2>2. Upwards(h.deps[n], height)
    BY <1>5, <1>7 DEF RunFit, n
  <2>3. Trace(n, Top.seen) /\ Agrees(source, graph, n, Top.seen)
    BY <1>5 DEF RunFit, n
  <2>4. Agrees(source, h, n, Top.seen)
    BY <1>11, <1>15, <2>3 DEF Agrees, Readings
  <2>5. Top.seen \in Histories
    <3>1. Len(Top.seen) \in 0 .. MaxReads /\ Top.seen \in [1 .. Len(Top.seen) -> Values]
      BY <1>2, BoundsAssumption
    <3> QED  BY <3>1 DEF Histories
  <2>6. Body(n, Top.seen).do = "return" /\ Body(n, Top.seen).value = h.slot[n].value
    BY <1>1, <1>7 DEF v
  <2>7. Current(source, h, n)
    BY <1>7, <1>15, <2>3, <2>4, <2>5, <2>6 DEF Current
  <2> QED  BY <2>1, <2>2, <2>7 DEF SlotFit
<1>17. ASSUME NEW i \in DOMAIN stack, i # k
       PROVE  /\ stack[i] \in Frames /\ FrameFit(height, source, graph, stack[i])
              /\ OfSlot(stack[i]) =>
                   /\ stack[i].node \in Slots /\ stack[i].node # n /\ stack[i].node \in live
                   /\ Valid(h, stack[i].node) => Valid(graph, stack[i].node)
                   /\ Cached(h, stack[i].node) <=> Cached(graph, stack[i].node)
  <2>1. stack[i] \in Frames /\ (OfSlot(stack[i]) => stack[i].node # n /\ stack[i].node \in Slots)
    BY <1>2, <1>17, BelowOthers DEF OfSlot, n, k
  <2>2. OfSlot(stack[i]) => stack[i].node \in live
    BY <1>2 DEF StackOK, FrameOK, OfSlot
  <2> QED  BY <1>5, <1>7, <2>1, <2>2 DEF StackFit
<1>18. \A m \in Slots : Cached(graph, m) => Cached(h, m) /\ \A x : Holds(source, graph, m, x) => Holds(source, h, m, x)
  BY <1>6, <1>7, <1>11
<1>19. ASSUME NEW i \in DOMAIN stack, i # k,
              stack[i].op = "refresh" => (Valid(graph, stack[i].node) => Valid(h, stack[i].node))
       PROVE  FrameFit(height, source, h, stack[i])
  BY <1>2, <1>7, <1>17, <1>18, <1>19, FrameKept
<1>20. ASSUME NEW i \in DOMAIN stack, i < k - 1
       PROVE  FrameFit(height, source, h, stack[i])
  <2>1. i # k
    BY <1>2, <1>20
  <2>2. ASSUME stack[i].op = "refresh", NEW p, p = stack[i].node, Valid(graph, p)
        PROVE  Valid(h, p)
    <3>1. p \in Slots /\ p # n
      BY <1>17, <2>1, <2>2, FrameKinds DEF OfSlot
    <3>2. n \notin ToSet(graph.deps[p])
      BY <1>2, <1>5, <1>6, <1>20, <2>2, <3>1, LowerRefresh DEF n, k
    <3> QED  BY <1>1, <1>7, <1>8, <2>2, <3>1, <3>2 DEF roots
  <2> QED  BY <1>19, <2>1, <2>2
<1>21. Front(stack) # <<>> => Calls(graph, Last(Front(stack)), n)
  BY <1>2, BelowCalls DEF n
<1>22. ASSUME k > 1, NEW f, f = stack[k - 1]
       PROVE  /\ f.op = "refresh" =>
                   /\ f.changed \/ changed <=> ~Valid(h, f.node)
                   /\ ~Cached(h, f.node)
                   /\ \A j \in DOMAIN h.deps[f.node] : j < f.i => CachedIfSlot(h, h.deps[f.node][j])
              /\ f.op = "body" /\ f.node \in Slots => RunFit(height, source, h, f)
  <2>1. k - 1 \in DOMAIN stack /\ k - 1 # k
    BY <1>2, <1>22
  <2>2. CASE f.op = "refresh"
    <3>1. /\ f.node \in Slots /\ f.node # n /\ (Cached(h, f.node) <=> Cached(graph, f.node))
          /\ RefreshFit(graph, f)
      BY <1>17, <1>22, <2>1, <2>2, FrameKinds DEF OfSlot, FrameFit
    <3>2. Calls(graph, f, n)
      <4> DEFINE b == Front(stack)
      <4>1. b \in Seq(Frames) /\ Len(b) = k - 1 /\ \A i \in 1 .. k - 1 : b[i] = stack[i]
        BY <1>2, FrontLast DEF k
      <4>2. b # <<>> => Calls(graph, Last(b), n)
        BY <1>21
      <4> HIDE DEF b
      <4>3. b # <<>> /\ Last(b) = b[k - 1] /\ k - 1 \in 1 .. k - 1
        BY <1>2, <1>22, <4>1 DEF Last
      <4>4. Last(b) = f
        BY <1>22, <4>1, <4>3
      <4> QED  BY <4>2, <4>3, <4>4
    <3>3. f.node \in roots
      <4>1. n \in ToSet(graph.deps[f.node])
        BY <2>2, <3>2 DEF Calls, ToSet
      <4> QED  BY <1>1, <1>8, <3>1, <4>1 DEF roots
    <3>4. Valid(h, f.node) <=> Valid(graph, f.node) /\ ~changed
      BY <1>7, <3>1, <3>3
    <3>5. f.changed <=> ~Valid(graph, f.node)
      BY <3>1 DEF RefreshFit
    <3> QED  BY <1>7, <1>10, <2>2, <3>1, <3>4, <3>5 DEF RefreshFit
  <2>3. CASE f.op # "refresh"
    <3>1. FrameFit(height, source, h, f)
      BY <1>19, <1>22, <2>1, <2>3
    <3> QED  BY <2>3, <3>1 DEF FrameFit
  <2> QED  BY <2>2, <2>3
<1>23. StackOK(h, live, Front(stack))
  <2>1. \A m \in Slots : m # Top.node => h.slot[m].busy = graph.slot[m].busy /\ h.slot[m].has = graph.slot[m].has
    BY <1>7 DEF n
  <2> QED  BY <1>2, <1>7, <2>1, BelowUndisturbed
<1>24. StackFit(height, source, h, Return(h, n, changed))
  <2>1. Front(stack) # <<>> => Calls(h, Last(Front(stack)), n)
    BY <1>7, <1>21 DEF Calls
  <2>2. Cached(h, n) /\ Ladder(height, stack)
    BY <1>1, <1>5, <1>7 DEF StackFit
  <2> QED  BY <1>1, <1>2, <1>7, <1>13, <1>20, <1>22, <1>23, <2>1, <2>2, ReturnFit DEF k
<1> QED  BY <1>3, <1>4, <1>14, <1>16, <1>24 DEF Fit

LEMMA EffectReturnsFit == ASSUME NEW height, Shaped, Fit(height), EffectReturns PROVE Fit(height)'
<1>1. stack # <<>> /\ stack \in Seq(Frames) /\ stack' = Front(stack) /\ UNCHANGED <<source, live, graph, batched>>
  BY BodyOK DEF EffectReturns
<1>2. StackFit(height, source, graph, stack')
  BY <1>1, PopFit DEF Fit
<1> QED  BY <1>1, <1>2 DEF Fit

LEMMA FlushOnlyFit ==
  ASSUME NEW height, NEW src, NEW g
  PROVE  StackFit(height, src, g, <<FlushFrame>>)
<1>1. FlushFrame \in Frames /\ FlushFrame.op = "flush" /\ ~OfSlot(FlushFrame)
  BY DEF FlushFrame, Frames, FlushFrames, OfSlot
<1>2. FrameFit(height, src, g, FlushFrame) /\ StackFit(height, src, g, <<>>)
  BY <1>1, FrameFree, EmptyFit
<1>3. <<>> \in Seq(Frames) /\ Append(<<>>, FlushFrame) = <<FlushFrame>>
  OBVIOUS
<1>4. StackFit(height, src, g, Append(<<>>, FlushFrame))
  BY <1>1, <1>2, <1>3, PushFit
<1> QED  BY <1>3, <1>4

(* What a source or a batch of them invalidates, and what it leaves.       *)
LEMMA InvalidateFit ==
  ASSUME NEW height, NEW w, \A c \in Slots : SlotFit(height, live, source, graph, w, c), GraphOK(graph, live),
         NEW roots \in SUBSET Readers, NEW h \in Invalidated(graph, roots), NEW y, NEW x,
         \A c \in Slots : c \notin roots =>
           /\ Untouched(graph, w, c)
           /\ \A m \in Sources : c \notin graph.dependents[m] \/ y[m] = source[m]
  PROVE  \A c \in Slots : SlotFit(height, live, y, h, x, c)
<1>1. h \in Graphs /\ MarkedFrom(graph, h, roots)
  BY InvalidatedParts DEF GraphOK
<1> SUFFICES ASSUME NEW c \in Slots PROVE SlotFit(height, live, y, h, x, c)
  OBVIOUS
<1>2. \A d \in Slots :
        /\ Cached(h, d) => Cached(graph, d) /\ \A m \in ToSet(graph.deps[d]) : CachedIfSlot(graph, m) => CachedIfSlot(h, m)
        /\ Valid(h, d) <=> Valid(graph, d) /\ d \notin roots
        /\ h.deps[d] = graph.deps[d] /\ h.slot[d].value = graph.slot[d].value
        /\ h.slot[d].has = graph.slot[d].has
  <2>1. \A d \in Slots : Worsened(graph, h, roots, d)
    BY <1>1, MarksClosed
  <2> QED  BY <2>1 DEF Worsened
<1>3. Cached(h, c) => \A m \in ToSet(graph.deps[c]) : CachedIfSlot(h, m)
  BY <1>2 DEF SlotFit
<1>4. ASSUME Valid(h, c), NEW m \in ToSet(graph.deps[c]), NEW v, Holds(source, graph, m, v)
      PROVE  Holds(y, h, m, v)
  <2>1. m \in Sources \cup Slots /\ c \in graph.dependents[m]
    BY DEF GraphOK, Mirror, Graphs, ToSet, Readers
  <2>2. m \in Sources => y[m] = source[m]
    BY <1>2, <1>4, <2>1
  <2> QED  BY <1>2, <1>4, <2>1, <2>2 DEF Holds
<1> QED  BY <1>2, <1>3, <1>4, SlotKept

(* A write, over frames that are no slot's. *)
LEMMA WriteFit ==
  ASSUME NEW height, Shaped, Fit(height), NEW s \in Sources, NEW v \in Values, NEW above \in Seq(Frames),
         Write(s, v, above), \A i \in DOMAIN above : ~OfSlot(above[i]), Ladder(height, above),
         ~Flushing => above = <<>>
  PROVE  Fit(height)'
<1>1. /\ source' = [source EXCEPT ![s] = v] /\ source \in [Sources -> Values] /\ UNCHANGED <<live, batching>>
      /\ GraphOK(graph, live) /\ \A c \in Slots : SlotFit(height, live, source, graph, batched, c)
  BY DEF Write, Shaped, Fit
<1>2. \A src, g : StackFit(height, src, g, above)
  BY NoSlots
<1>3. \A m \in Sources : m # s => source'[m] = source[m]
  BY <1>1
<1>4. CASE source[s] = v /\ stack' = above /\ UNCHANGED <<graph, batched>>
  <2>1. source' = source
    BY <1>1, <1>4
  <2> QED  BY <1>1, <1>2, <1>4, <2>1 DEF Fit
<1>5. CASE batched' = batched \cup {s} /\ stack' = above /\ UNCHANGED graph
  <2>1. ASSUME NEW c \in Slots
        PROVE  SlotFit(height, live, source', graph, batched', c)
    <3>1. Cached(graph, c) => \A m \in ToSet(graph.deps[c]) : CachedIfSlot(graph, m)
      BY <1>1 DEF SlotFit
    <3>2. ASSUME Untouched(graph, batched', c), NEW m \in ToSet(graph.deps[c]), NEW x, Holds(source, graph, m, x)
          PROVE  Holds(source', graph, m, x)
      <4>1. m # s
        BY <1>1, <1>5, <3>2 DEF GraphOK, Mirror, Untouched, Readers
      <4> QED  BY <1>3, <3>2, <4>1 DEF Holds
    <3>3. Untouched(graph, batched', c) => Untouched(graph, batched, c)
      BY <1>5 DEF Untouched
    <3> QED  BY <1>1, <3>1, <3>2, <3>3, SlotKept
  <2> QED  BY <1>1, <1>2, <1>5, <2>1 DEF Fit
<1>6. CASE /\ ~batching /\ UNCHANGED batched
           /\ graph' \in Invalidated(graph, graph.dependents[s])
           /\ stack' = IF Flushing \/ Reached(graph, graph.dependents[s]) \cap Effects = {}
                       THEN above ELSE Append(above, FlushFrame)
  <2>1. \A c \in Slots : Untouched(graph, batched, c)
    BY <1>6 DEF Shaped, Untouched
  <2>2. graph.dependents[s] \in SUBSET Readers
    BY <1>1 DEF GraphOK, Graphs
  <2>3. \A c \in Slots : SlotFit(height, live, source', graph', batched, c)
    BY <1>1, <1>3, <1>6, <2>1, <2>2, InvalidateFit
  <2>4. StackFit(height, source', graph', stack')
    <3>1. CASE stack' = above
      BY <1>2, <3>1
    <3>2. CASE ~Flushing /\ stack' = Append(above, FlushFrame)
      <4>1. Append(<<>>, FlushFrame) = <<FlushFrame>>
        OBVIOUS
      <4> QED  BY <3>2, <4>1, FlushOnlyFit
    <3> QED  BY <1>6, <3>1, <3>2
  <2> QED  BY <1>1, <1>6, <2>3, <2>4 DEF Fit
<1> QED  BY <1>4, <1>5, <1>6 DEF Write

LEMMA SetFit ==
  ASSUME NEW height, Shaped, Fit(height), NEW s \in Sources, NEW v \in Values, Set(s, v) PROVE Fit(height)'
<1>1. Write(s, v, <<>>) /\ DOMAIN <<>> = {} /\ <<>> \in Seq(Frames)
  BY DEF Set
<1>2. Ladder(height, <<>>)
  BY <1>1 DEF Ladder
<1> QED  BY <1>1, <1>2, WriteFit

LEMMA BodyWritesFit ==
  ASSUME NEW height \in [Slots -> Nat], ReadsUpwards(height), Shaped, Fit(height), BodyWrites PROVE Fit(height)'
<1> DEFINE s == Instruction.node
           v == Instruction.value
           a == [Top EXCEPT !.seen = Append(@, v)]
<1>1. InBody /\ Instruction.do = "set" /\ Instruction = Body(Top.node, Top.seen)
  BY DEF BodyWrites, Instruction
<1>2. /\ stack # <<>> /\ StackOK(graph, live, stack) /\ stack \in Seq(Frames) /\ GraphOK(graph, live)
      /\ Top.op = "body" /\ Top = Last(stack) /\ s \in Sources /\ v \in Values /\ Len(Top.seen) <= MaxReads
      /\ Top \in BodyFrames /\ Top.seen \in Seq(Values) /\ Top.node \in Readers
  BY <1>1, BodyOK
<1>3. CASE Fail(graph, "disposed")
  BY <1>2, <1>3, FailFit DEF Fit
<1>4. CASE Write(s, v, Append(Front(stack), a))
  <2>1. OfEffect(Top)
    <3> SUFFICES ASSUME Top.node \in Slots PROVE FALSE
      BY <1>2 DEF OfEffect, Readers
    <3>1. Len(Top.seen) \in 0 .. MaxReads /\ Top.seen \in [1 .. Len(Top.seen) -> Values]
      BY <1>2, BoundsAssumption
    <3>2. Body(Top.node, Top.seen).do # "set"
      BY <3>1 DEF ReadsUpwards
    <3> QED  BY <1>1, <3>2
  <2>2. Flushing /\ \A i \in DOMAIN stack : ~OfSlot(stack[i])
    BY <1>2, <2>1, EffectAbove DEF Fit, StackFit
  <2>3. a \in Frames /\ a.op = "body" /\ a.node = Top.node
    <3>1. Append(Top.seen, v) \in Seq(Values)
      BY <1>2
    <3>2. a \in BodyFrames /\ a.op = "body" /\ a.node = Top.node
      BY <1>2, <3>1 DEF BodyFrames
    <3> QED  BY <3>2 DEF Frames
  <2> HIDE DEF a
  <2>4. ~OfSlot(a)
    BY <2>1, <2>3, KindsAssumption DEF OfSlot, OfEffect
  <2> DEFINE b == Front(stack)
             t == Append(b, a)
             n == Len(stack)
  <2>5. /\ b \in Seq(Frames) /\ Len(b) = n - 1 /\ n \in Nat \ {0}
        /\ \A i \in 1 .. n - 1 : b[i] = stack[i] /\ i \in DOMAIN stack
    <3>1. b \in Seq(Frames) /\ Len(b) = n - 1 /\ n \in Nat \ {0}
      BY <1>2, FrontLast
    <3>2. \A i \in 1 .. n - 1 : b[i] = stack[i]
      BY <1>2, FrontLast
    <3>3. \A i \in 1 .. n - 1 : i \in DOMAIN stack
      BY <1>2, <3>1
    <3> QED  BY <3>1, <3>2, <3>3
  <2> HIDE DEF b, n
  <2>6. t \in Seq(Frames) /\ DOMAIN t = 1 .. n /\ t[n] = a /\ \A i \in 1 .. n - 1 : t[i] = b[i]
    BY <2>3, <2>5
  <2> HIDE DEF t
  <2>7. \A i \in DOMAIN t : ~OfSlot(t[i])
    <3> SUFFICES ASSUME NEW i \in DOMAIN t PROVE ~OfSlot(t[i])
      OBVIOUS
    <3>1. i = n \/ i \in 1 .. n - 1
      BY <2>5, <2>6
    <3> QED  BY <2>2, <2>4, <2>5, <2>6, <3>1
  <2>8. \A i \in DOMAIN t : t[i].op = "flush" => i = 1
    <3> SUFFICES ASSUME NEW i \in DOMAIN t, t[i].op = "flush" PROVE i = 1
      OBVIOUS
    <3>1. i \in 1 .. n - 1
      BY <2>3, <2>5, <2>6
    <3> QED  BY <2>5, <2>6, <3>1 DEF Fit, StackFit, Ladder
  <2>9. Ladder(height, t)
    BY <2>7, <2>8 DEF Ladder
  <2>10. Write(s, v, t)
    BY <1>4 DEF t, b
  <2> HIDE DEF s, v
  <2> QED  BY <1>2, <2>2, <2>6, <2>7, <2>9, <2>10, WriteFit
<1> QED  BY <1>3, <1>4 DEF BodyWrites, Replace

LEMMA FlushNextFit == ASSUME NEW height, Shaped, Fit(height), FlushNext PROVE Fit(height)'
<1>1. /\ stack # <<>> /\ stack \in Seq(Frames) /\ GraphOK(graph, live) /\ graph \in Graphs
      /\ UNCHANGED <<source, live, batched>>
  BY TopOK DEF FlushNext, Idle, Kept, Shaped, GraphOK
<1>2. CASE graph.pending = <<>>
  <2>1. graph' = graph /\ stack' = Front(stack)
    BY <1>2 DEF FlushNext
  <2>2. StackFit(height, source, graph, stack')
    BY <1>1, <2>1, PopFit DEF Fit
  <2> QED  BY <1>1, <2>1, <2>2 DEF Fit
<1>3. CASE graph.pending # <<>>
  <2> DEFINE e == Head(graph.pending)
             f == ScanFrame("should", e, e \in graph.forceRun)
  <2>1. /\ graph' = [graph EXCEPT !.pending = Tail(@)]
        /\ stack' = IF e \notin live THEN stack ELSE Append(stack, f)
    BY <1>3 DEF FlushNext
  <2>2. /\ graph'.slot = graph.slot /\ graph'.deps = graph.deps /\ graph'.dependents = graph.dependents
        /\ e \in Effects
    BY <1>1, <1>3, <2>1 DEF Graphs
  <2>3. SameSlots(graph, graph')
    BY <2>2, SameFlags
  <2>4. \A c \in Slots : SlotFit(height, live, source, graph', batched, c)
    BY <1>1, <2>2, <2>3, SlotSame DEF Fit
  <2>5. StackFit(height, source, graph', stack)
    BY <1>1, <2>3, StackSame DEF Fit
  <2>6. f \in Frames /\ f.op # "flush" /\ ~OfSlot(f)
    <3>1. f \in ShouldFrames /\ f.op = "should" /\ f.node \in Effects
      BY <2>2 DEF ScanFrame, ShouldFrames
    <3> QED  BY <3>1, KindsAssumption DEF OfSlot, Frames
  <2> HIDE DEF f, e
  <2>7. FrameFit(height, source, graph', f)
    BY <2>6, FrameFree
  <2>8. StackFit(height, source, graph', Append(stack, f))
    BY <1>1, <2>5, <2>6, <2>7, PushFit
  <2> QED  BY <1>1, <2>1, <2>4, <2>5, <2>8 DEF Fit
<1> QED  BY <1>2, <1>3

LEMMA GetFit == ASSUME NEW height, Shaped, Fit(height), NEW n \in Slots, Get(n) PROVE Fit(height)'
<1>1. PICK h : h = Busied(graph, n)
  OBVIOUS
<1>2. PICK forced \in BOOLEAN : forced <=> (~graph.slot[n].has \/ graph.slot[n].force)
  <2>1. \E b \in BOOLEAN : b <=> (~graph.slot[n].has \/ graph.slot[n].force)
    BY Zenon
  <2> QED  BY <2>1
<1>3. GraphOK(graph, live) /\ graph.slot[n] \in SlotRecords
  BY DEF Shaped, GraphOK, Graphs
<1>4. forced = (~graph.slot[n].has \/ graph.slot[n].force) /\ (forced <=> ~Valid(graph, n))
  BY <1>2, <1>3 DEF SlotRecords, Valid
<1>5. PICK f : f = ScanFrame("refresh", n, forced)
  OBVIOUS
<1>6. graph' = h /\ stack' = <<f>> /\ UNCHANGED <<source, live, batched>> /\ ~Cached(graph, n)
  BY <1>1, <1>4, <1>5 DEF Get, Kept, Busied
<1>7. SameSlots(graph, h) /\ GraphOK(h, live)
  BY <1>1, <1>3, <1>4, <1>5, <1>6, BeginFit
<1>8. f \in Frames
  BY <1>1, <1>3, <1>4, <1>5, <1>6, BeginFit
<1>9. FrameFit(height, source, h, f)
  BY <1>1, <1>3, <1>4, <1>5, <1>6, BeginFit
<1>10. f.op # "flush" /\ h.dependents = graph.dependents
  BY <1>1, <1>5 DEF ScanFrame, Busied
<1>11. \A c \in Slots : SlotFit(height, live, source, h, batched, c)
  BY <1>3, <1>7, <1>10, SlotSame DEF Fit
<1>12. <<>> \in Seq(Frames) /\ Append(<<>>, f) = <<f>> /\ DOMAIN <<>> = {}
  OBVIOUS
<1>13. StackFit(height, source, h, Append(<<>>, f))
  BY <1>8, <1>9, <1>10, <1>12, EmptyFit, PushFit
<1> QED  BY <1>6, <1>11, <1>12, <1>13 DEF Fit

LEMMA BatchEndFit == ASSUME NEW height, Shaped, Fit(height), BatchEnd PROVE Fit(height)'
<1>1. /\ graph' \in IF batched = {} THEN {graph} ELSE Invalidated(graph, BatchRoots)
      /\ stack' = <<FlushFrame>> /\ batched' = {} /\ UNCHANGED <<source, live>>
  BY DEF BatchEnd
<1>2. GraphOK(graph, live) /\ batched \subseteq Sources /\ BatchRoots \in SUBSET Readers
  BY DEF Shaped, GraphOK, Graphs, BatchRoots
<1>3. StackFit(height, source', graph', stack')
  BY <1>1, FlushOnlyFit
<1>4. CASE batched = {}
  BY <1>1, <1>3, <1>4 DEF Fit
<1>5. CASE batched # {}
  <2>1. \A c \in Slots : c \notin BatchRoots => Untouched(graph, batched, c)
    BY <1>2 DEF BatchRoots, Untouched, GraphOK, Mirror, Readers
  <2>2. \A c \in Slots : SlotFit(height, live, source, graph', {}, c)
    BY <1>1, <1>2, <1>5, <2>1, InvalidateFit DEF Fit
  <2> QED  BY <1>1, <1>3, <2>2 DEF Fit
<1> QED  BY <1>4, <1>5

LEMMA CreateEffectFit ==
  ASSUME NEW height, Shaped, Fit(height), NEW e \in Effects, CreateEffect(e) PROVE Fit(height)'
<1>1. /\ live' = live \cup {e} /\ UNCHANGED <<source, batched>>
      /\ graph' = [graph EXCEPT !.pending = Append(@, e), !.forceRun = @ \cup {e}]
      /\ stack' = <<FlushFrame>> /\ GraphOK(graph, live)
  BY DEF CreateEffect, Shaped
<1>2. graph'.slot = graph.slot /\ graph'.deps = graph.deps /\ graph'.dependents = graph.dependents
  BY <1>1 DEF GraphOK, Graphs
<1>3. SameSlots(graph, graph')
  BY <1>2, SameFlags
<1>4. \A c \in Slots : c \in live' => c \in live
  BY <1>1, KindsAssumption
<1>5. \A c \in Slots : SlotFit(height, live', source, graph', batched, c)
  BY <1>1, <1>2, <1>3, <1>4, SlotSame DEF Fit
<1> QED  BY <1>1, <1>5, FlushOnlyFit DEF Fit

LEMMA DisposeFit == ASSUME NEW height, Shaped, Fit(height), NEW n \in Nodes, Dispose(n) PROVE Fit(height)'
<1> DEFINE mid == MarkedReaders(graph, n)
           fin == Detached(mid, n)
<1>1. /\ live' = live \ {n} /\ graph' = fin /\ stack' = <<>> /\ UNCHANGED <<source, batched>>
      /\ GraphOK(graph, live) /\ batched \subseteq Sources
  BY DEF Dispose, Idle, Shaped
<1>2. /\ GraphOK(mid, live)
      /\ n \in Effects => mid = graph
      /\ n \notin Effects => MarkedFrom(graph, mid, graph.dependents[n])
  BY <1>1, MarkedReadersParts
<1> HIDE DEF mid
<1>3. /\ fin.slot = mid.slot
      /\ \A d \in Readers :
           /\ d = n => fin.deps[d] = <<>>
           /\ ToSet(fin.deps[d]) \subseteq ToSet(mid.deps[d])
           /\ d # n /\ n \notin ToSet(mid.deps[d]) => fin.deps[d] = mid.deps[d]
      /\ \A x \in Sources \cup Slots : fin.dependents[x] = IF x = n THEN {} ELSE mid.dependents[x] \ {n}
  <2>1. fin.slot = mid.slot
    BY <1>2, DetachedOK
  <2>2. \A d \in Readers : d = n => fin.deps[d] = <<>>
    BY DEF Detached
  <2>3. \A d \in Readers : ToSet(fin.deps[d]) \subseteq ToSet(mid.deps[d])
    BY <1>2, DetachedOK
  <2>4. \A d \in Readers : d # n /\ n \notin ToSet(mid.deps[d]) => fin.deps[d] = mid.deps[d]
    BY <1>2, DetachedOK
  <2>5. \A x \in Sources \cup Slots : fin.dependents[x] = IF x = n THEN {} ELSE mid.dependents[x] \ {n}
    <3>1. mid.dependents \in [Sources \cup Slots -> SUBSET Readers]
      BY <1>2 DEF GraphOK, Graphs
    <3> QED  BY <3>1 DEF Detached
  <2> HIDE DEF fin
  <2> QED  BY <2>1, <2>2, <2>3, <2>4, <2>5
<1> HIDE DEF fin
<1>4. \A c \in Slots : /\ c \in Readers /\ c \notin Effects
                       /\ SlotFit(height, live, source, graph, batched, c)
                       /\ ToSet(graph.deps[c]) \subseteq Sources \cup Slots
  BY <1>1, KindsAssumption DEF Fit, Readers, GraphOK, Graphs, ToSet
<1>5. CASE n \in Effects
  <2>1. mid = graph /\ n \notin Sources \cup Slots
    BY <1>2, <1>5, KindsAssumption
  <2>2. \A c \in Slots : c # n /\ fin.deps[c] = graph.deps[c]
    BY <1>3, <1>4, <2>1
  <2>3. SameSlots(graph, fin)
    BY <1>3, <2>1, <2>2 DEF SameSlots, Cached, Valid
  <2>4. \A c \in Slots : \A m \in batched : c \in graph.dependents[m] => c \in fin.dependents[m]
    BY <1>1, <1>3, <2>1, <2>2
  <2>5. \A c \in Slots : SlotFit(height, live', source, fin, batched, c)
    BY <1>1, <1>4, <2>3, <2>4, SlotSame
  <2> QED  BY <1>1, <2>5, EmptyFit DEF Fit
<1>6. CASE n \notin Effects
  <2> SUFFICES ASSUME NEW c \in Slots PROVE SlotFit(height, live', source, fin, batched, c)
    BY <1>1, EmptyFit DEF Fit
  <2> DEFINE roots == graph.dependents[n]
  <2>1. /\ n \in Sources \cup Slots /\ mid \in Graphs /\ MarkedFrom(graph, mid, roots)
        /\ mid.dependents = graph.dependents
    BY <1>2, <1>6 DEF Nodes, GraphOK, MarkedFrom
  <2>2. \A d \in Slots :
          /\ Cached(mid, d) => Cached(graph, d) /\ \A m \in ToSet(graph.deps[d]) : CachedIfSlot(graph, m) => CachedIfSlot(mid, m)
          /\ Valid(mid, d) <=> Valid(graph, d) /\ d \notin roots
          /\ mid.deps[d] = graph.deps[d] /\ mid.slot[d].value = graph.slot[d].value
          /\ mid.slot[d].has = graph.slot[d].has
    <3> HIDE DEF roots
    <3>1. \A d \in Slots : Worsened(graph, mid, roots, d)
      BY <1>1, <2>1, MarksClosed
    <3> QED  BY <3>1 DEF Worsened
  <2> HIDE DEF roots
  <2>3. \A d \in Slots : /\ Cached(fin, d) <=> Cached(mid, d)
                         /\ Valid(fin, d) <=> Valid(mid, d)
                         /\ Cached(fin, d) => Valid(fin, d)
                         /\ fin.slot[d] = mid.slot[d]
    BY <1>3 DEF Cached, Valid
  <2>4. n \in ToSet(graph.deps[c]) <=> c \in roots
    BY <1>1, <1>4, <2>1 DEF GraphOK, Mirror, roots
  <2>5. CASE c = n
    <3>1. fin.deps[c] = <<>> /\ ToSet(<<>>) = {} /\ c \notin live'
      BY <1>1, <1>3, <1>4, <2>5 DEF ToSet
    <3> QED  BY <3>1 DEF SlotFit
  <2>6. CASE c # n /\ c \in roots
    <3>1. ~Valid(fin, c) /\ ~Cached(fin, c)
      BY <2>2, <2>3, <2>6
    <3>2. ToSet(fin.deps[c]) \subseteq ToSet(graph.deps[c])
      BY <1>3, <1>4, <2>2
    <3> QED  BY <1>4, <3>1, <3>2 DEF SlotFit
  <2>7. CASE c # n /\ c \notin roots
    <3>1. fin.deps[c] = graph.deps[c] /\ fin.slot[c].value = graph.slot[c].value
      BY <1>3, <1>4, <2>2, <2>3, <2>4, <2>7
    <3>2. c \in live' => c \in live
      BY <1>1
    <3>3. Cached(fin, c) => \A m \in ToSet(graph.deps[c]) : CachedIfSlot(fin, m)
      BY <1>4, <2>2, <2>3 DEF SlotFit, CachedIfSlot
    <3>4. Valid(fin, c) => Valid(graph, c)
      BY <2>2, <2>3
    <3>5. ASSUME Untouched(fin, batched, c)
          PROVE  Untouched(graph, batched, c)
      <4> SUFFICES ASSUME NEW m \in batched, c \in graph.dependents[m] PROVE FALSE
        BY DEF Untouched
      <4>1. m # n /\ m \in Sources \cup Slots
        BY <1>1, <2>7 DEF roots
      <4>2. c \in fin.dependents[m]
        BY <1>3, <2>1, <2>7, <4>1
      <4> QED  BY <3>5, <4>2 DEF Untouched
    <3>6. \A m \in ToSet(graph.deps[c]) : \A v : Holds(source, graph, m, v) => Holds(source, fin, m, v)
      <4> SUFFICES ASSUME NEW m \in ToSet(graph.deps[c]), NEW v, Holds(source, graph, m, v)
                   PROVE  Holds(source, fin, m, v)
        OBVIOUS
      <4>1. m \in Sources \cup Slots
        BY <1>4
      <4> QED  BY <2>2, <2>3, <4>1 DEF Holds
    <3> QED  BY <1>4, <3>1, <3>2, <3>3, <3>4, <3>5, <3>6, SlotKept
  <2> QED  BY <2>5, <2>6, <2>7
<1> QED  BY <1>5, <1>6

LEMMA FitInit == ASSUME NEW height, Init PROVE Fit(height)
<1>1. \A c \in Slots : graph.slot[c].has = FALSE /\ graph.deps[c] = <<>>
  BY DEF Init, Readers
<1>2. ToSet(<<>>) = {}
  BY DEF ToSet
<1>3. \A c \in Slots : SlotFit(height, live, source, graph, batched, c)
  BY <1>1, <1>2 DEF SlotFit, Cached, Valid
<1> QED  BY <1>3, EmptyFit DEF Init, Fit

LEMMA FitStep ==
  ASSUME NEW height \in [Slots -> Nat], ReadsUpwards(height), Shaped, Fit(height), [Next]_vars
  PROVE  Fit(height)'
<1>1. CASE UNCHANGED vars
  BY <1>1 DEF vars, Fit
<1>2. CASE BatchStart
  BY <1>2 DEF BatchStart, Fit
<1> QED  BY <1>1, <1>2, ScanDependencyFit, ScanDoneFit, BodyReadsFit, BodyThrowsFit, SlotReturnsFit,
            EffectReturnsFit, BodyWritesFit, FlushNextFit, SetFit, GetFit, BatchEndFit,
            CreateEffectFit, DisposeFit DEF Next

(* For bodies that read upwards: at every step of a call a cached slot has *)
(* cached dependencies, a slot not forced was right for the values they    *)
(* hold, and every activation's view of what it has passed is still true.  *)
THEOREM AlwaysFit ==
  ASSUME NEW height \in [Slots -> Nat], ReadsUpwards(height)
  PROVE  Spec => []Fit(height)
<1>1. Init => Fit(height)
  BY FitInit
<1>2. Shaped /\ Fit(height) /\ [Next]_vars => Fit(height)'
  BY FitStep
<1> QED  BY <1>1, <1>2, AlwaysShaped, PTL DEF Spec

(* A computation from scratch: what a read yields, one move of a body, all *)
(* of its moves, and the rounds of all slots.                              *)
ValueOf(m, env) == IF m \notin live THEN Broken ELSE IF m \in Sources THEN source[m] ELSE env[m]

MoveOf(c, env, seen) ==
  LET i == Body(c, seen) IN
  IF Broken \in ToSet(seen) \/ Unknown \in ToSet(seen) THEN seen
  ELSE IF i.do = "read" THEN Append(seen, ValueOf(i.node, env))
  ELSE IF i.do = "set" THEN Append(seen, i.value)
  ELSE IF i.do = "throw" THEN Append(seen, Broken)
  ELSE seen

IsRun(f, c, env) ==
  f = [k \in 0 .. MaxReads |-> IF k = 0 THEN <<>> ELSE MoveOf(c, env, f[k - 1])]

IsRounds(f) ==
  f = [k \in 0 .. Cardinality(Slots) |->
         [n \in Slots |-> IF k = 0 THEN Unknown ELSE Outcome(n, f[k - 1])]]

LEMMA LeastNatural ==
  ASSUME NEW S \in SUBSET Nat, S # {}
  PROVE  \E n \in S : \A m \in S : n <= m
<1> DEFINE R == {ss \in Nat \X Nat : ss[1] < ss[2]}
<1>1. R = OpToRel(<, Nat)
  BY Zenon DEF OpToRel
<1>2. IsWellFoundedOn(R, Nat)
  BY <1>1, NatLessThanWellFounded
<1> HIDE DEF R
<1>3. PICK n \in S : \A m \in S : <<m, n>> \notin R
  BY <1>2, WFMin, Zenon
<1>4. ASSUME NEW m \in S
      PROVE  n <= m
  <2>1. <<m, n>> \notin {ss \in Nat \X Nat : ss[1] < ss[2]}
    BY <1>3 DEF R
  <2>2. <<m, n>> \in Nat \X Nat
    OBVIOUS
  <2>3. ~(<<m, n>>[1] < <<m, n>>[2])
    BY <2>1, <2>2, Zenon
  <2> QED  BY <2>3
<1> QED  BY <1>4

LEMMA Induction ==
  ASSUME NEW S, 0 \in S, \A n \in Nat : n \in S => n + 1 \in S
  PROVE  Nat \subseteq S
<1>1. SUFFICES ASSUME ~(Nat \subseteq S)
               PROVE  FALSE
  OBVIOUS
<1>2. PICK n \in Nat \ S : \A m \in Nat \ S : n <= m
  BY <1>1, LeastNatural
<1>3. n # 0 /\ n - 1 \in Nat /\ n - 1 \in S
  BY <1>2
<1> QED  BY <1>2, <1>3

(* The moves of a body are a sequence: each follows from the one before.   *)
LEMMA RunExists == ASSUME NEW c, NEW env PROVE \E f : IsRun(f, c, env)
<1> DEFINE IsUpTo(f, n) == f = [k \in 0 .. n |-> IF k = 0 THEN <<>> ELSE MoveOf(c, env, f[k - 1])]
           Good == {n \in Nat : \E f : IsUpTo(f, n)}
<1>1. 0 \in Good
  <2> DEFINE f == [k \in 0 .. 0 |-> <<>>]
  <2>1. IsUpTo(f, 0)
    <3>1. \A k \in 0 .. 0 : k = 0
      OBVIOUS
    <3> QED  BY <3>1
  <2> QED  BY <2>1
<1>2. ASSUME NEW n \in Nat, n \in Good
      PROVE  n + 1 \in Good
  <2>1. PICK f : IsUpTo(f, n)
    BY <1>2
  <2> DEFINE g == [k \in 0 .. n + 1 |-> IF k \in 0 .. n THEN f[k] ELSE MoveOf(c, env, f[n])]
  <2>2. ASSUME NEW k \in 0 .. n + 1
        PROVE  g[k] = IF k = 0 THEN <<>> ELSE MoveOf(c, env, g[k - 1])
    <3>1. CASE k = 0
      <4>1. k \in 0 .. n
        BY <3>1
      <4> QED  BY <2>1, <3>1, <4>1
    <3>2. CASE k \in 0 .. n /\ k # 0
      <4>1. k - 1 \in 0 .. n /\ k - 1 \in 0 .. n + 1
        BY <3>2
      <4>2. g[k] = f[k] /\ g[k - 1] = f[k - 1]
        BY <3>2, <4>1
      <4>3. f[k] = MoveOf(c, env, f[k - 1])
        BY <2>1, <3>2
      <4> QED  BY <3>2, <4>2, <4>3
    <3>3. CASE k = n + 1
      <4>1. k \notin 0 .. n /\ k # 0 /\ k - 1 = n /\ n \in 0 .. n /\ n \in 0 .. n + 1
        BY <3>3
      <4>2. g[k] = MoveOf(c, env, f[n]) /\ g[n] = f[n]
        BY <4>1
      <4> QED  BY <4>1, <4>2
    <3>4. k \in 0 .. n \/ k = n + 1
      OBVIOUS
    <3> QED  BY <3>1, <3>2, <3>3, <3>4
  <2>3. IsUpTo(g, n + 1)
    BY <2>2
  <2>4. n + 1 \in Nat
    OBVIOUS
  <2> HIDE DEF g, IsUpTo
  <2> QED  BY <2>3, <2>4
<1> HIDE DEF Good
<1>3. MaxReads \in Good
  BY <1>1, <1>2, Induction, BoundsAssumption
<1> QED  BY <1>3 DEF Good, IsRun

LEMMA RoundsExist == \E f : IsRounds(f)
<1> DEFINE zero == [n \in Slots |-> Unknown]
           next(e) == [n \in Slots |-> Outcome(n, e)]
           IsUpTo(f, n) == f = [k \in 0 .. n |-> IF k = 0 THEN zero ELSE next(f[k - 1])]
           Good == {n \in Nat : \E f : IsUpTo(f, n)}
<1>1. 0 \in Good
  <2> DEFINE f == [k \in 0 .. 0 |-> zero]
  <2>1. IsUpTo(f, 0)
    <3> HIDE DEF zero, next
    <3>1. \A k \in 0 .. 0 : k = 0
      OBVIOUS
    <3> QED  BY <3>1
  <2> QED  BY <2>1
<1>2. ASSUME NEW n \in Nat, n \in Good
      PROVE  n + 1 \in Good
  <2>1. PICK f : IsUpTo(f, n)
    BY <1>2
  <2> HIDE DEF zero, next
  <2> DEFINE g == [k \in 0 .. n + 1 |-> IF k \in 0 .. n THEN f[k] ELSE next(f[n])]
  <2>2. ASSUME NEW k \in 0 .. n + 1
        PROVE  g[k] = IF k = 0 THEN zero ELSE next(g[k - 1])
    <3>1. CASE k = 0
      <4>1. k \in 0 .. n
        BY <3>1
      <4> QED  BY <2>1, <3>1, <4>1
    <3>2. CASE k \in 0 .. n /\ k # 0
      <4>1. k - 1 \in 0 .. n /\ k - 1 \in 0 .. n + 1
        BY <3>2
      <4>2. g[k] = f[k] /\ g[k - 1] = f[k - 1]
        BY <3>2, <4>1
      <4>3. f[k] = next(f[k - 1])
        BY <2>1, <3>2
      <4> QED  BY <3>2, <4>2, <4>3
    <3>3. CASE k = n + 1
      <4>1. k \notin 0 .. n /\ k # 0 /\ k - 1 = n /\ n \in 0 .. n /\ n \in 0 .. n + 1
        BY <3>3
      <4>2. g[k] = next(f[n]) /\ g[n] = f[n]
        BY <4>1
      <4> QED  BY <4>1, <4>2
    <3>4. k \in 0 .. n \/ k = n + 1
      OBVIOUS
    <3> QED  BY <3>1, <3>2, <3>3, <3>4
  <2>3. IsUpTo(g, n + 1)
    BY <2>2
  <2>4. n + 1 \in Nat
    OBVIOUS
  <2> HIDE DEF g, IsUpTo
  <2> QED  BY <2>3, <2>4
<1> HIDE DEF Good
<1>3. Cardinality(Slots) \in Good
  BY <1>1, <1>2, Induction, KindsAssumption, FS_CardinalityType
<1>4. PICK f : IsUpTo(f, Cardinality(Slots))
  BY <1>3 DEF Good
<1> DEFINE N == Cardinality(Slots)
<1>5. \A k \in 0 .. N : (IF k = 0 THEN zero ELSE next(f[k - 1]))
                        = [n \in Slots |-> IF k = 0 THEN Unknown ELSE Outcome(n, f[k - 1])]
  OBVIOUS
<1> HIDE DEF zero, next, N
<1>6. f = [k \in 0 .. N |-> [n \in Slots |-> IF k = 0 THEN Unknown ELSE Outcome(n, f[k - 1])]]
  BY <1>4, <1>5 DEF N
<1> QED  BY <1>6 DEF IsRounds, N

LEMMA UptoNext ==
  ASSUME NEW n \in Nat, NEW seen \in [1 .. n -> Values], NEW k \in Nat, k + 1 <= n
  PROVE  Append(Upto(seen, k), seen[k + 1]) = Upto(seen, k + 1)
<1> DEFINE a == Upto(seen, k)
           b == Upto(seen, k + 1)
           v == seen[k + 1]
<1>1. k + 1 \in 1 .. n /\ k + 1 \in Nat /\ (\A i \in 1 .. k : i \in 1 .. n) /\ \A i \in 1 .. k + 1 : i \in 1 .. n
  OBVIOUS
<1>2. v \in Values
  BY <1>1
<1>3. a \in [1 .. k -> Values] /\ \A i \in 1 .. k : a[i] = seen[i]
  BY <1>1 DEF Upto
<1>4. b \in [1 .. k + 1 -> Values] /\ \A i \in 1 .. k + 1 : b[i] = seen[i]
  BY <1>1 DEF Upto
<1> HIDE DEF a, b
<1>5. a \in Seq(Values) /\ Len(a) = k /\ b \in Seq(Values) /\ Len(b) = k + 1
  BY <1>1, <1>3, <1>4
<1>6. k + 1 \in 1 .. k + 1 /\ b[k + 1] = v /\ \A i \in 1 .. k : b[i] = a[i]
  BY <1>3, <1>4
<1> HIDE DEF v
<1>7. Append(a, v) \in Seq(Values) /\ Len(Append(a, v)) = k + 1
  BY <1>2, <1>5
<1>8. \A i \in 1 .. k + 1 : Append(a, v)[i] = b[i]
  BY <1>2, <1>5, <1>6
<1>9. Append(a, v) = b
  BY <1>5, <1>7, <1>8
<1> QED  BY <1>9 DEF a, b, v

(* Computed afresh, a body reads what it has read as long as it gets the   *)
(* same answers.                                                           *)
LEMMA ReplayFollows ==
  ASSUME NEW c, NEW env, NEW seen \in Histories, Body(c, seen).do = "return",
         \A p \in 1 .. Len(seen) :
           LET i == Body(c, Upto(seen, p - 1)) IN
           \/ i.do = "read" /\ ValueOf(i.node, env) = seen[p]
           \/ i.do = "set" /\ i.value = seen[p]
  PROVE  Replay(c, env) = seen
<1> DEFINE run == CHOOSE f : IsRun(f, c, env)
<1>1. IsRun(run, c, env)
  BY RunExists
<1>2. Replay(c, env) = run[MaxReads]
  BY Zenon DEF Replay, IsRun, MoveOf, ValueOf
<1> HIDE DEF run
<1>3. \A k \in 0 .. MaxReads : run[k] = IF k = 0 THEN <<>> ELSE MoveOf(c, env, run[k - 1])
  BY <1>1 DEF IsRun
<1> DEFINE n == Len(seen)
<1>4. n \in 0 .. MaxReads /\ seen \in [1 .. n -> Values] /\ MaxReads \in Nat /\ n \in Nat
      /\ Upto(seen, n) = seen /\ Upto(seen, 0) = <<>>
  <2>1. PICK k \in 0 .. MaxReads : seen \in [1 .. k -> Values]
    BY DEF Histories
  <2>2. k \in Nat /\ Len(seen) = k
    BY <2>1, BoundsAssumption
  <2>3. Upto(seen, k) = seen
    BY <2>1 DEF Upto
  <2>4. Upto(seen, 0) = <<>>
    BY DEF Upto
  <2> QED  BY <2>1, <2>2, <2>3, <2>4, BoundsAssumption
<1> HIDE DEF n
<1>5. \A k \in 0 .. n : Upto(seen, k) \in [1 .. k -> Values] /\ Upto(seen, k) \in Seq(Values)
                        /\ Broken \notin ToSet(Upto(seen, k)) /\ Unknown \notin ToSet(Upto(seen, k))
  <2> SUFFICES ASSUME NEW k \in 0 .. n
               PROVE  Upto(seen, k) \in [1 .. k -> Values] /\ Upto(seen, k) \in Seq(Values)
                      /\ Broken \notin ToSet(Upto(seen, k)) /\ Unknown \notin ToSet(Upto(seen, k))
    OBVIOUS
  <2>1. \A i \in 1 .. k : i \in 1 .. n
    BY <1>4
  <2>2. Upto(seen, k) \in [1 .. k -> Values]
    BY <1>4, <2>1 DEF Upto
  <2>3. k \in Nat
    BY <1>4
  <2>4. Upto(seen, k) \in Seq(Values)
    BY <2>2, <2>3
  <2>5. Broken \notin Values /\ Unknown \notin Values
    BY BoundsAssumption DEF Broken, Unknown
  <2> QED  BY <2>2, <2>4, <2>5 DEF ToSet
<1> DEFINE Good == {k \in Nat : k <= MaxReads => run[k] = IF k <= n THEN Upto(seen, k) ELSE seen}
<1>6. 0 \in Good
  BY <1>3, <1>4
<1>7. ASSUME NEW k \in Nat, k \in Good
      PROVE  k + 1 \in Good
  <2> SUFFICES ASSUME k + 1 <= MaxReads
               PROVE  run[k + 1] = IF k + 1 <= n THEN Upto(seen, k + 1) ELSE seen
    OBVIOUS
  <2>1. /\ k + 1 \in 0 .. MaxReads /\ k + 1 # 0 /\ k + 1 - 1 = k /\ k <= MaxReads
    BY <1>4
  <2>2. run[k + 1] = MoveOf(c, env, run[k])
    BY <1>3, <2>1
  <2>3. run[k] = IF k <= n THEN Upto(seen, k) ELSE seen
    BY <1>7, <2>1
  <2>4. CASE k < n
    <3>1. k \in 0 .. n /\ k <= n /\ k + 1 <= n /\ k + 1 \in 1 .. n
      BY <1>4, <2>4
    <3>2. run[k] = Upto(seen, k)
      BY <2>3, <3>1
    <3>3. \/ Body(c, Upto(seen, k)).do = "read" /\ ValueOf(Body(c, Upto(seen, k)).node, env) = seen[k + 1]
          \/ Body(c, Upto(seen, k)).do = "set" /\ Body(c, Upto(seen, k)).value = seen[k + 1]
      BY <2>1, <3>1 DEF n
    <3>4. run[k + 1] = Append(Upto(seen, k), seen[k + 1])
      BY <1>5, <2>2, <3>1, <3>2, <3>3 DEF MoveOf
    <3>5. Append(Upto(seen, k), seen[k + 1]) = Upto(seen, k + 1)
      BY <1>4, <3>1, UptoNext
    <3> QED  BY <3>1, <3>4, <3>5
  <2>5. CASE ~(k < n)
    <3>1. ~(k + 1 <= n) /\ n \in 0 .. n /\ (k <= n => k = n)
      BY <1>4, <2>5
    <3>2. run[k] = seen
      BY <1>4, <2>3, <3>1
    <3>3. Broken \notin ToSet(seen) /\ Unknown \notin ToSet(seen)
      BY <1>4, <1>5, <3>1
    <3>4. run[k + 1] = seen
      BY <2>2, <3>2, <3>3 DEF MoveOf
    <3> QED  BY <3>1, <3>4
  <2> QED  BY <2>4, <2>5
<1>8. MaxReads \in Good
  <2> HIDE DEF Good
  <2> QED  BY <1>4, <1>6, <1>7, Induction
<1>9. run[MaxReads] = IF MaxReads <= n THEN Upto(seen, MaxReads) ELSE seen
  BY <1>4, <1>8
<1>10. MaxReads <= n => MaxReads = n
  BY <1>4
<1> QED  BY <1>2, <1>4, <1>9, <1>10

(* By height: what a cached slot holds is what its round comes to. *)
LEMMA FitIsFresh ==
  ASSUME NEW height \in [Slots -> 0 .. Cardinality(Slots) - 1], Shaped, Fit(height)
  PROVE  CacheIsFresh
<1> DEFINE N == Cardinality(Slots)
           env == CHOOSE f : IsRounds(f)
<1>1. IsRounds(env)
  BY RoundsExist
<1>2. Fresh = env[N]
  BY Zenon DEF Fresh, IsRounds
<1> HIDE DEF env
<1>3. N \in Nat /\ height \in [Slots -> 0 .. N - 1]
  BY KindsAssumption, FS_CardinalityType
<1>4. \A k \in 0 .. N : env[k] = [n \in Slots |-> IF k = 0 THEN Unknown ELSE Outcome(n, env[k - 1])]
  BY <1>1 DEF IsRounds
<1> HIDE DEF N
<1> SUFFICES ASSUME ~batching
             PROVE  \A n \in Slots \cap live : Cached(graph, n) => graph.slot[n].value = env[N][n]
  BY <1>2 DEF CacheIsFresh
<1> DEFINE Good == {k \in Nat : k <= N =>
                      \A n \in Slots \cap live :
                        Cached(graph, n) /\ height[n] < k => graph.slot[n].value = env[k][n]}
<1>5. 0 \in Good
  <2>1. \A n \in Slots : ~(height[n] < 0)
    BY <1>3
  <2> QED  BY <2>1
<1>6. ASSUME NEW k \in Nat, k \in Good
      PROVE  k + 1 \in Good
  <2> SUFFICES ASSUME k + 1 <= N, NEW n \in Slots \cap live, Cached(graph, n), height[n] < k + 1
               PROVE  graph.slot[n].value = env[k + 1][n]
    OBVIOUS
  <2>1. /\ k + 1 \in 0 .. N /\ k + 1 # 0 /\ k + 1 - 1 = k /\ k <= N
    BY <1>3
  <2>2. env[k + 1][n] = Outcome(n, env[k])
    <3>1. PICK q : q = k + 1
      OBVIOUS
    <3>2. q \in 0 .. N /\ q # 0 /\ q - 1 = k
      BY <2>1, <3>1
    <3>3. env[q] = [x \in Slots |-> IF q = 0 THEN Unknown ELSE Outcome(x, env[q - 1])]
      BY <1>4, <3>2
    <3>4. env[q][n] = Outcome(n, env[k])
      BY <3>2, <3>3
    <3> QED  BY <3>1, <3>4
  <2>3. \A m \in Slots \cap live : Cached(graph, m) /\ height[m] < k => graph.slot[m].value = env[k][m]
    BY <1>6, <2>1
  <2> HIDE DEF Good
  <2>4. Current(source, graph, n)
    <3>1. Untouched(graph, batched, n)
      BY DEF Shaped, Untouched
    <3> QED  BY <3>1 DEF Fit, SlotFit, Cached, Valid
  <2>5. PICK seen \in Histories :
          /\ Trace(n, seen) /\ Agrees(source, graph, n, seen)
          /\ Body(n, seen).do = "return" /\ Body(n, seen).value = graph.slot[n].value
          /\ ToSet(graph.deps[n]) = Readings(n, seen)
    BY <2>4 DEF Current
  <2>6. ASSUME NEW p \in 1 .. Len(seen)
        PROVE  ValueOf(Of(n, seen, p), env[k]) = seen[p]
    <3> DEFINE m == Of(n, seen, p)
    <3>1. m \in ToSet(graph.deps[n]) /\ Holds(source, graph, m, seen[p])
      BY <2>5 DEF Readings, Agrees
    <3> HIDE DEF m
    <3>2. m \in Sources \cup Slots /\ m \in live
      BY <3>1 DEF Shaped, GraphOK, Graphs, Mirror, ToSet, Readers
    <3>3. CASE m \in Sources
      BY <3>1, <3>2, <3>3 DEF Holds, ValueOf, m
    <3>4. CASE m \notin Sources
      <4>1. m \in Slots /\ Cached(graph, m) /\ height[m] < height[n]
        BY <3>1, <3>2, <3>4 DEF Fit, SlotFit, CachedIfSlot
      <4>2. height[m] < k
        BY <1>3, <4>1
      <4> QED  BY <2>3, <3>1, <3>2, <3>4, <4>1, <4>2 DEF Holds, ValueOf, m
    <3> QED  BY <3>3, <3>4
  <2>7. Replay(n, env[k]) = seen
    <3>1. \A p \in 1 .. Len(seen) :
            LET i == Body(n, Upto(seen, p - 1)) IN
            \/ i.do = "read" /\ ValueOf(i.node, env[k]) = seen[p]
            \/ i.do = "set" /\ i.value = seen[p]
      BY <2>5, <2>6 DEF Trace, Of
    <3> QED  BY <2>5, <3>1, ReplayFollows
  <2>8. Broken \notin ToSet(seen) /\ Unknown \notin ToSet(seen)
    BY <2>5, BoundsAssumption DEF Histories, ToSet, Broken, Unknown
  <2>9. Outcome(n, env[k]) = Body(n, seen).value
    BY <2>7, <2>8 DEF Outcome
  <2> QED  BY <2>2, <2>5, <2>9
<1> HIDE DEF Good
<1>7. N \in Good
  BY <1>3, <1>5, <1>6, Induction
<1>8. \A n \in Slots : height[n] < N
  BY <1>3
<1> QED  BY <1>3, <1>7, <1>8 DEF Good

(* For bodies that read upwards, outside batches and at every step of a    *)
(* call, errors included: a cached slot holds what its body comes to when  *)
(* everything is computed from scratch.  Heights up to the number of slots *)
(* are no restriction: any others can be renumbered.                       *)
THEOREM CacheAlwaysFresh ==
  ASSUME NEW height \in [Slots -> 0 .. Cardinality(Slots) - 1], ReadsUpwards(height)
  PROVE  Spec => []CacheIsFresh
<1>1. height \in [Slots -> Nat]
  BY KindsAssumption, FS_CardinalityType
<1>2. Spec => []Fit(height)
  BY <1>1, AlwaysFit
<1>3. Shaped /\ Fit(height) => CacheIsFresh
  BY FitIsFresh
<1> QED  BY <1>2, <1>3, AlwaysShaped, PTL

-----------------------------------------------------------------------------
(* The activations of an effect: one at most. *)
ActivationsOf(s, e) == {s[k] : k \in {j \in DOMAIN s : OfEffect(s[j]) /\ s[j].node = e}}

Queued(g, e) == e \in ToSet(g.pending)

(* What a body has read, or wrote, of nodes it has its edge to: it still is *)
(* so, unless a batch holds the news back.                                  *)
Told(src, g, w, e, seen) ==
  \A p \in 1 .. Len(seen) :
    LET i == Body(e, Upto(seen, p - 1)) IN
    \/ i.do = "set" /\ i.value = seen[p]
    \/ /\ i.do = "read" /\ i.node \in ToSet(g.deps[e])
       /\ i.node \in w \/ Holds(src, g, i.node, seen[p])

(* The activation has yet to look at m. *)
Ahead(g, f, m) ==
  \/ f.op = "should" /\ \E j \in DOMAIN g.deps[f.node] : j >= f.i /\ g.deps[f.node][j] = m
  \/ f.op = "body" /\ Body(f.node, f.seen).do = "read" /\ Body(f.node, f.seen).node = m

(* An effect with the activations F: who is forced has to run; who is not   *)
(* has been told what is so; who still has to look at a slot that is not    *)
(* cached is queued or on its way to it.                                   *)
EffectFit(src, g, w, F, seen, e) ==
  /\ e \in g.forceRun => Queued(g, e) \/ \E f \in F : f.op = "should" /\ f.changed
  /\ e \notin g.forceRun =>
       /\ (\A f \in F : f.op # "body") => Told(src, g, w, e, seen) /\ Body(e, seen).do = "return"
       /\ \A f \in F : f.op = "body" => Told(src, g, w, e, f.seen)
  /\ \A m \in ToSet(g.deps[e]) \cap Slots :
       Cached(g, m) \/ Queued(g, e) \/ \E f \in F : Ahead(g, f, m)

EffectsFit(L, src, g, w, s, seen) ==
  \A e \in Effects \cap L : EffectFit(src, g, w, ActivationsOf(s, e), seen[e], e)

(* A flush is under way. *)
HasFlush(s) == \E i \in DOMAIN s : s[i].op = "flush"

(* Every effect is heard, until a call threw or a node that is read went;   *)
(* a queue that is not empty has its flush, or a batch that will flush it. *)
Heard ==
  /\ observed \in [Effects -> Histories]
  /\ ~troubled =>
       /\ Sources \cup Slots \subseteq live
       /\ graph.pending # <<>> => HasFlush(stack) \/ batching
       /\ EffectsFit(live, source, graph, batched, stack, observed)

(* An order of a finite set has all of it. *)
LEMMA OrderOfAll ==
  ASSUME NEW S, IsFiniteSet(S), NEW order \in SetToSeqs(S)
  PROVE  ToSet(order) = S /\ (S = {} => order = <<>>)
<1> DEFINE n == Cardinality(S)
<1>1. n \in Nat
  BY FS_CardinalityType
<1>2. order \in [1 .. n -> S] /\ \A i, j \in 1 .. n : i # j => order[i] # order[j]
  BY DEF SetToSeqs
<1>3. IsFiniteSet(1 .. n) /\ Cardinality(1 .. n) = n
  <2>1. Cardinality(1 .. n) = IF 1 > n THEN 0 ELSE n - 1 + 1
    BY <1>1, FS_Interval
  <2>2. IsFiniteSet(1 .. n)
    BY <1>1, FS_Interval
  <2> QED  BY <1>1, <2>1, <2>2
<1>4. order \in Injection(1 .. n, S)
  BY <1>2 DEF Injection, IsInjective
<1>5. order \in Surjection(1 .. n, S)
  BY <1>3, <1>4, FS_Injection
<1>6. \A x \in S : \E i \in 1 .. n : order[i] = x
  BY <1>5 DEF Surjection
<1>7. S = {} => n = 0
  BY FS_EmptySet
<1> HIDE DEF n
<1>8. ToSet(order) = S
  BY <1>2, <1>6 DEF ToSet
<1>9. S = {} => order = <<>>
  <2> SUFFICES ASSUME n = 0 PROVE order = <<>>
    BY <1>7
  <2>1. order \in [1 .. 0 -> S]
    BY <1>2
  <2>2. order \in Seq(S) /\ Len(order) = 0
    BY <2>1
  <2> QED  BY <2>2
<1> QED  BY <1>8, <1>9

LEMMA ToSetConcat ==
  ASSUME NEW S, NEW s \in Seq(S), NEW t \in Seq(S)
  PROVE  ToSet(s \o t) = ToSet(s) \cup ToSet(t)
<1>1. /\ Len(s \o t) = Len(s) + Len(t) /\ Len(s) \in Nat /\ Len(t) \in Nat
      /\ \A i \in 1 .. Len(s) + Len(t) : (s \o t)[i] = IF i <= Len(s) THEN s[i] ELSE t[i - Len(s)]
      /\ DOMAIN (s \o t) = 1 .. Len(s) + Len(t) /\ DOMAIN s = 1 .. Len(s) /\ DOMAIN t = 1 .. Len(t)
  OBVIOUS
<1> DEFINE u == s \o t
           a == Len(s)
           b == Len(t)
<1>2. /\ a \in Nat /\ b \in Nat /\ DOMAIN u = 1 .. a + b /\ DOMAIN s = 1 .. a /\ DOMAIN t = 1 .. b
      /\ \A i \in 1 .. a + b : u[i] = IF i <= a THEN s[i] ELSE t[i - a]
  BY <1>1
<1> HIDE DEF u, a, b
<1>3. ASSUME NEW y \in ToSet(u) PROVE y \in ToSet(s) \cup ToSet(t)
  <2>1. PICK i \in 1 .. a + b : u[i] = y
    BY <1>2 DEF ToSet
  <2>2. i <= a => i \in 1 .. a
    BY <1>2
  <2>3. ~(i <= a) => i - a \in 1 .. b
    BY <1>2
  <2> QED  BY <1>2, <2>1, <2>2, <2>3 DEF ToSet
<1>4. ASSUME NEW y \in ToSet(s) PROVE y \in ToSet(u)
  <2>1. PICK i \in 1 .. a : s[i] = y
    BY <1>2 DEF ToSet
  <2>2. i \in 1 .. a + b /\ u[i] = s[i]
    BY <1>2
  <2> QED  BY <1>2, <2>1, <2>2 DEF ToSet
<1>5. ASSUME NEW y \in ToSet(t) PROVE y \in ToSet(u)
  <2>1. PICK i \in 1 .. b : t[i] = y
    BY <1>2 DEF ToSet
  <2>2. i + a \in 1 .. a + b /\ ~(i + a <= a) /\ i + a - a = i
    BY <1>2
  <2>3. u[i + a] = t[i]
    BY <1>2, <2>2
  <2> QED  BY <1>2, <2>1, <2>2, <2>3 DEF ToSet
<1> QED  BY <1>3, <1>4, <1>5 DEF u

(* What an invalidation queues and forces. *)
LEMMA InvalidatedQueue ==
  ASSUME NEW g \in Graphs, NEW roots \in SUBSET Readers, NEW h \in Invalidated(g, roots)
  PROVE  /\ \A e \in Effects : Queued(h, e) <=> Queued(g, e) \/ e \in Reached(g, roots)
         /\ h.forceRun = g.forceRun \cup (roots \cap Effects)
         /\ Reached(g, roots) \cap Effects = {} => h.pending = g.pending
<1> DEFINE m == Marked(g, roots)
           es == (Reached(g, roots) \cap Effects) \ ToSet(m.pending)
<1>1. m \in Graphs /\ m.pending = g.pending /\ m.forceRun = g.forceRun
  BY MarkedParts
<1>2. PICK order \in SetToSeqs(es) :
        h = [m EXCEPT !.pending = @ \o order, !.forceRun = @ \cup (roots \cap Effects)]
  BY DEF Invalidated, Scheduled
<1>3. IsFiniteSet(es)
  BY KindsAssumption, FS_Subset
<1>4. ToSet(order) = es /\ (es = {} => order = <<>>)
  BY <1>2, <1>3, OrderOfAll
<1>5. order \in Seq(Effects)
  <2>1. order \in [1 .. Cardinality(es) -> es] /\ Cardinality(es) \in Nat
    BY <1>2, <1>3, FS_CardinalityType DEF SetToSeqs
  <2> HIDE DEF m
  <2>2. order \in [1 .. Cardinality(es) -> Effects]
    BY <2>1
  <2>3. \A k \in Nat : \A f \in [1 .. k -> Effects] : f \in Seq(Effects)
    OBVIOUS
  <2> QED  BY <2>1, <2>2, <2>3
<1>6. Reached(g, roots) \cap Effects = {} => es = {}
  OBVIOUS
<1>7. \A e \in Effects : e \in es <=> e \in Reached(g, roots) /\ ~Queued(g, e)
  BY <1>1 DEF Queued
<1> HIDE DEF es, m
<1>8. h.pending = g.pending \o order /\ h.forceRun = g.forceRun \cup (roots \cap Effects)
      /\ g.pending \in Seq(Effects)
  BY <1>1, <1>2 DEF Graphs
<1>9. ToSet(h.pending) = ToSet(g.pending) \cup es
  BY <1>4, <1>5, <1>8, ToSetConcat
<1>10. es = {} => h.pending = g.pending
  BY <1>4, <1>8
<1> QED  BY <1>6, <1>7, <1>8, <1>9, <1>10 DEF Queued

(* A walk goes no further than a set of slots that it does not leave. *)
LEMMA ReachedWithin ==
  ASSUME NEW g, NEW roots, NEW R \in SUBSET Slots, Below(g, roots, R) \cap Slots \subseteq R
  PROVE  Reached(g, roots) \subseteq Below(g, roots, R)
<1> DEFINE closed == {Q \in SUBSET Slots : Below(g, roots, Q) \cap Slots \subseteq Q}
           least == {n \in Slots : \A Q \in closed : n \in Q}
<1>1. Reached(g, roots) = Below(g, roots, least)
  BY DEF Reached
<1>2. least \subseteq R
  OBVIOUS
<1> HIDE DEF least
<1> QED  BY <1>1, <1>2 DEF Below

(* What is marked has its effects queued. *)
LEMMA MarkedHeard ==
  ASSUME NEW g, NEW L, GraphOK(g, L), NEW roots \in SUBSET Readers, NEW h \in Invalidated(g, roots)
  PROVE  \A e \in Effects : \A m \in ToSet(g.deps[e]) \cap Slots :
           Cached(g, m) => Cached(h, m) \/ Queued(h, e)
<1>1. h \in Graphs /\ MarkedFrom(g, h, roots) /\ g \in Graphs
  BY InvalidatedParts DEF GraphOK
<1>2. \A e \in Effects : Queued(h, e) <=> Queued(g, e) \/ e \in Reached(g, roots)
  BY <1>1, InvalidatedQueue
<1> SUFFICES ASSUME NEW e \in Effects, NEW m \in ToSet(g.deps[e]) \cap Slots, Cached(g, m), ~Cached(h, m)
             PROVE  e \in Reached(g, roots)
  BY <1>2
<1>3. roots \subseteq Reached(g, roots)
  BY ReachedParts
<1>4. m \in Reached(g, roots) /\ ~g.slot[m].dirty
  BY <1>1, <1>3 DEF MarkedFrom, Cached
<1>5. e \in g.dependents[m]
  BY DEF GraphOK, Mirror, Readers
<1> QED  BY <1>4, <1>5, ReachedParts

(* Which activations of effects a stack has, as it grows and shrinks. *)
Alone(s, e, f) == ActivationsOf(s, e) = {f}
Absent(s, e)   == ActivationsOf(s, e) = {}
IsOf(f, e)     == OfEffect(f) /\ f.node = e

LEMMA ActivationsPush ==
  ASSUME NEW s \in Seq(Frames), NEW f \in Frames, NEW t, t = Append(s, f)
  PROVE  /\ \A e \in Effects : IsOf(f, e) /\ Absent(s, e) => Alone(t, e, f)
         /\ \A e \in Effects : ~IsOf(f, e) => ActivationsOf(t, e) = ActivationsOf(s, e)
         /\ HasFlush(t) <=> HasFlush(s) \/ f.op = "flush"
<1> DEFINE n == Len(s)
<1>1. /\ n \in Nat /\ DOMAIN s = 1 .. n /\ DOMAIN t = 1 .. n + 1 /\ t[n + 1] = f
      /\ \A i \in 1 .. n : t[i] = s[i]
  OBVIOUS
<1> HIDE DEF n
<1>2. (DOMAIN t) = (DOMAIN s) \cup {n + 1} /\ \A i \in DOMAIN s : t[i] = s[i]
  BY <1>1
<1>3. HasFlush(t) <=> HasFlush(s) \/ f.op = "flush"
  BY <1>1, <1>2 DEF HasFlush
<1>4. ASSUME NEW e \in Effects
      PROVE  /\ IsOf(f, e) /\ Absent(s, e) => Alone(t, e, f)
             /\ ~IsOf(f, e) => ActivationsOf(t, e) = ActivationsOf(s, e)
  <2>1. ASSUME NEW x \in ActivationsOf(t, e)
        PROVE  x \in ActivationsOf(s, e) \/ (IsOf(f, e) /\ x = f)
    <3>1. PICK k \in DOMAIN t : OfEffect(t[k]) /\ t[k].node = e /\ x = t[k]
      BY DEF ActivationsOf
    <3>2. k \in DOMAIN s \/ k = n + 1
      BY <1>2
    <3> QED  BY <1>1, <1>2, <3>1, <3>2 DEF ActivationsOf, IsOf
  <2>2. ASSUME NEW x \in ActivationsOf(s, e)
        PROVE  x \in ActivationsOf(t, e)
    BY <1>2 DEF ActivationsOf
  <2>3. IsOf(f, e) => f \in ActivationsOf(t, e)
    BY <1>1, <1>2 DEF ActivationsOf, IsOf
  <2> QED  BY <2>1, <2>2, <2>3 DEF Absent, Alone
<1> QED  BY <1>3, <1>4

LEMMA ActivationsPop ==
  ASSUME NEW g, NEW L, NEW s, StackOK(g, L, s), s # <<>>, NEW b, b = Front(s), NEW l, l = Last(s)
  PROVE  /\ b \in Seq(Frames) /\ l \in Frames
         /\ \A e \in Effects : IsOf(l, e) => Alone(s, e, l) /\ Absent(b, e)
         /\ \A e \in Effects : ~IsOf(l, e) => ActivationsOf(b, e) = ActivationsOf(s, e)
         /\ HasFlush(s) <=> HasFlush(b) \/ l.op = "flush"
<1> DEFINE n == Len(s)
<1>1. s \in Seq(Frames)
  BY DEF StackOK
<1>2. /\ b \in Seq(Frames) /\ Len(b) = n - 1 /\ n \in Nat \ {0} /\ l \in Frames
      /\ l = s[n] /\ DOMAIN s = 1 .. n
      /\ \A i \in 1 .. n - 1 : b[i] = s[i]
  BY <1>1, FrontLast
<1>3. DOMAIN b = 1 .. n - 1
  BY <1>2
<1>4. s = Append(b, l)
  <2> HIDE DEF n
  <2> DEFINE t == Append(b, l)
  <2>1. t \in Seq(Frames) /\ Len(t) = n /\ DOMAIN t = 1 .. n /\ t[n] = l /\ \A i \in 1 .. n - 1 : t[i] = b[i]
    BY <1>2
  <2> HIDE DEF t
  <2>2. \A i \in 1 .. n : t[i] = s[i]
    <3> SUFFICES ASSUME NEW i \in 1 .. n PROVE t[i] = s[i]
      OBVIOUS
    <3>1. i = n \/ i \in 1 .. n - 1
      BY <1>2
    <3> QED  BY <1>2, <2>1, <3>1
  <2>3. Len(s) = n /\ Len(t) = n
    BY <2>1 DEF n
  <2>4. t = s
    BY <1>1, <2>1, <2>2, <2>3, SeqEqual
  <2> QED  BY <2>4 DEF t
<1>5. ASSUME NEW e \in Effects, IsOf(l, e) PROVE Absent(b, e)
  <2> SUFFICES ASSUME NEW k \in DOMAIN b, OfEffect(b[k]), b[k].node = e PROVE FALSE
    BY DEF ActivationsOf, Absent
  <2> HIDE DEF n
  <2>1. k \in DOMAIN s /\ n \in DOMAIN s /\ k # n /\ s[k] = b[k]
    BY <1>2, <1>3
  <2> QED  BY <1>2, <1>5, <2>1 DEF StackOK, OfEffect, IsOf
<1> HIDE DEF n
<1>6. /\ \A e \in Effects : IsOf(l, e) /\ Absent(b, e) => Alone(s, e, l)
      /\ \A e \in Effects : ~IsOf(l, e) => ActivationsOf(s, e) = ActivationsOf(b, e)
      /\ HasFlush(s) <=> HasFlush(b) \/ l.op = "flush"
  <2>1. b \in Seq(Frames) /\ l \in Frames /\ s = Append(b, l)
    BY <1>2, <1>4
  <2> QED  BY ONLY <2>1, ActivationsPush
<1> QED  BY <1>2, <1>5, <1>6

(* In t the frame f stands where l was on top of s, with the same node. *)
Swaps(g, L, s, l, f, t) ==
  /\ StackOK(g, L, s) /\ s # <<>> /\ l = Last(s)
  /\ f \in Frames /\ t = Append(Front(s), f)
  /\ f.op # "flush" /\ l.op # "flush" /\ f.node = l.node

LEMMA ActivationsSwap ==
  ASSUME NEW g, NEW L, NEW s, NEW l, NEW f, NEW t, Swaps(g, L, s, l, f, t)
  PROVE  /\ \A e \in Effects : IsOf(f, e) => Alone(s, e, l) /\ Alone(t, e, f)
         /\ \A e \in Effects : ~IsOf(f, e) => ActivationsOf(t, e) = ActivationsOf(s, e)
         /\ HasFlush(t) <=> HasFlush(s)
<1> DEFINE b == Front(s)
<1>0. /\ b = Front(s) /\ t = Append(b, f) /\ f \in Frames
      /\ StackOK(g, L, s) /\ s # <<>> /\ l = Last(s)
      /\ f.op # "flush" /\ l.op # "flush" /\ f.node = l.node
  BY DEF Swaps
<1> HIDE DEF b
<1>1. /\ b \in Seq(Frames)
      /\ \A e \in Effects : IsOf(l, e) => Alone(s, e, l) /\ Absent(b, e)
      /\ \A e \in Effects : ~IsOf(l, e) => ActivationsOf(b, e) = ActivationsOf(s, e)
      /\ HasFlush(s) <=> HasFlush(b) \/ l.op = "flush"
  BY <1>0, ActivationsPop
<1>2. \A e : IsOf(f, e) <=> IsOf(l, e)
  BY <1>0 DEF IsOf, OfEffect
<1>3. /\ \A e \in Effects : IsOf(f, e) /\ Absent(b, e) => Alone(t, e, f)
      /\ \A e \in Effects : ~IsOf(f, e) => ActivationsOf(t, e) = ActivationsOf(b, e)
      /\ HasFlush(t) <=> HasFlush(b) \/ f.op = "flush"
  BY <1>0, <1>1, ActivationsPush
<1> QED  BY <1>0, <1>1, <1>2, <1>3

LEMMA NoActivations ==
  ASSUME NEW e PROVE ActivationsOf(<<>>, e) = {} /\ ~HasFlush(<<>>)
BY DEF ActivationsOf, HasFlush

LEMMA ActivationsAre ==
  ASSUME NEW s, NEW e, NEW f \in ActivationsOf(s, e)
  PROVE  f.op # "flush" /\ f.node = e
BY DEF ActivationsOf, OfEffect

(* An effect with the same edges: what it was told stays true or it is     *)
(* forced, what it reads stays cached or it is queued.                     *)
LEMMA EffectKept ==
  ASSUME NEW src, NEW g, NEW w, NEW F, NEW seen, NEW e \in Effects, EffectFit(src, g, w, F, seen, e),
         NEW y, NEW h, NEW x,
         \A f \in F : f.op # "flush" /\ f.node = e,
         h.deps[e] = g.deps[e],
         Queued(g, e) => Queued(h, e),
         e \in g.forceRun => e \in h.forceRun,
         e \in h.forceRun => e \in g.forceRun \/ Queued(h, e),
         e \notin h.forceRun => \A m \in ToSet(g.deps[e]) : \A v :
            m \in w \/ Holds(src, g, m, v) => m \in x \/ Holds(y, h, m, v),
         \A m \in ToSet(g.deps[e]) \cap Slots : Cached(g, m) => Cached(h, m) \/ Queued(h, e)
  PROVE  EffectFit(y, h, x, F, seen, e)
<1>1. e \in h.forceRun => Queued(h, e) \/ \E f \in F : f.op = "should" /\ f.changed
  BY DEF EffectFit
<1>2. ASSUME e \notin h.forceRun, NEW sn, Told(src, g, w, e, sn) PROVE Told(y, h, x, e, sn)
  <2> SUFFICES ASSUME NEW p \in 1 .. Len(sn), NEW i, i = Body(e, Upto(sn, p - 1))
               PROVE  \/ i.do = "set" /\ i.value = sn[p]
                      \/ /\ i.do = "read" /\ i.node \in ToSet(h.deps[e])
                         /\ i.node \in x \/ Holds(y, h, i.node, sn[p])
    BY DEF Told
  <2>1. \/ i.do = "set" /\ i.value = sn[p]
        \/ /\ i.do = "read" /\ i.node \in ToSet(g.deps[e])
           /\ i.node \in w \/ Holds(src, g, i.node, sn[p])
    BY <1>2 DEF Told
  <2> QED  BY <1>2, <2>1
<1>3. e \notin h.forceRun =>
       /\ (\A f \in F : f.op # "body") => Told(y, h, x, e, seen) /\ Body(e, seen).do = "return"
       /\ \A f \in F : f.op = "body" => Told(y, h, x, e, f.seen)
  BY <1>2 DEF EffectFit
<1>4. ASSUME NEW m \in ToSet(h.deps[e]) \cap Slots
      PROVE  Cached(h, m) \/ Queued(h, e) \/ \E f \in F : Ahead(h, f, m)
  <2>1. m \in ToSet(g.deps[e]) \cap Slots
    OBVIOUS
  <2>2. Cached(g, m) \/ Queued(g, e) \/ \E f \in F : Ahead(g, f, m)
    BY <2>1 DEF EffectFit
  <2>3. \A f \in F : Ahead(g, f, m) => Ahead(h, f, m)
    BY DEF Ahead
  <2> QED  BY <2>1, <2>2, <2>3
<1> QED  BY <1>1, <1>3, <1>4 DEF EffectFit

(* The edges and flags are the same, the queue has not shrunk. *)
LEMMA EffectSame ==
  ASSUME NEW L, NEW src, NEW g, NEW w, NEW s, NEW seen, EffectsFit(L, src, g, w, s, seen),
         NEW h, SameSlots(g, h), \A e \in Effects : h.deps[e] = g.deps[e],
         h.pending = g.pending, h.forceRun = g.forceRun, 
         \A e \in Effects : ToSet(g.deps[e]) \subseteq Sources \cup Slots
  PROVE  EffectsFit(L, src, h, w, s, seen)
<1> SUFFICES ASSUME NEW e \in Effects \cap L
             PROVE  EffectFit(src, h, w, ActivationsOf(s, e), seen[e], e)
  BY DEF EffectsFit
<1>1. EffectFit(src, g, w, ActivationsOf(s, e), seen[e], e)
  BY DEF EffectsFit
<1>2. Queued(g, e) <=> Queued(h, e)
  BY DEF Queued
<1>3. \A m \in Sources \cup Slots : \A v : Holds(src, g, m, v) => Holds(src, h, m, v)
  BY DEF Holds, SameSlots
<1>4. \A m \in Slots : Cached(g, m) => Cached(h, m)
  BY DEF SameSlots
<1>5. \A f \in ActivationsOf(s, e) : f.op # "flush" /\ f.node = e
  BY ActivationsAre
<1> QED  BY <1>1, <1>2, <1>3, <1>4, <1>5, EffectKept

(* The body of an effect has read or written one more value. *)
LEMMA SeenHeard ==
  ASSUME NEW src, NEW g, NEW w, NEW seen, NEW e \in Effects, NEW f, f.op = "body", f.node = e,
         f.seen \in Seq(Values), EffectFit(src, g, w, {f}, seen, e), NEW v \in Values,
         NEW i, i = Body(e, f.seen),
         \/ i.do = "set" /\ i.value = v
         \/ /\ i.do = "read" /\ i.node \in ToSet(g.deps[e]) /\ Holds(src, g, i.node, v)
            /\ i.node \in Slots => Cached(g, i.node) \/ Queued(g, e),
         NEW a, a.op = "body", a.node = e, a.seen = Append(f.seen, v)
  PROVE  EffectFit(src, g, w, {a}, seen, e)
<1>1. /\ Len(a.seen) = Len(f.seen) + 1 /\ Len(f.seen) \in Nat /\ a.seen[Len(f.seen) + 1] = v
      /\ \A q \in 0 .. Len(f.seen) : Upto(a.seen, q) = Upto(f.seen, q)
      /\ Upto(f.seen, Len(f.seen)) = f.seen
      /\ \A p \in 1 .. Len(f.seen) : a.seen[p] = f.seen[p]
  BY UptoAppend
<1>2. ASSUME e \notin g.forceRun PROVE Told(src, g, w, e, a.seen)
  <2>1. Told(src, g, w, e, f.seen)
    BY <1>2 DEF EffectFit
  <2> SUFFICES ASSUME NEW p \in 1 .. Len(a.seen), NEW j, j = Body(e, Upto(a.seen, p - 1))
               PROVE  \/ j.do = "set" /\ j.value = a.seen[p]
                      \/ /\ j.do = "read" /\ j.node \in ToSet(g.deps[e])
                         /\ j.node \in w \/ Holds(src, g, j.node, a.seen[p])
    BY DEF Told
  <2>2. CASE p \in 1 .. Len(f.seen)
    <3>1. p - 1 \in 0 .. Len(f.seen)
      BY <1>1, <2>2
    <3>2. j = Body(e, Upto(f.seen, p - 1)) /\ a.seen[p] = f.seen[p]
      BY <1>1, <2>2, <3>1
    <3> QED  BY <2>1, <2>2, <3>2 DEF Told
  <2>3. CASE p = Len(f.seen) + 1
    <3>1. j = i
      BY <1>1, <2>3
    <3> QED  BY <1>1, <2>3, <3>1
  <2> QED  BY <1>1, <2>2, <2>3
<1>3. ASSUME NEW m \in Slots, Ahead(g, f, m) PROVE Cached(g, m) \/ Queued(g, e)
  BY <1>3 DEF Ahead
<1>4. e \in g.forceRun => Queued(g, e)
  BY DEF EffectFit
<1>5. \A m \in ToSet(g.deps[e]) \cap Slots : Cached(g, m) \/ Queued(g, e)
  BY <1>3 DEF EffectFit
<1> QED  BY <1>2, <1>4, <1>5 DEF EffectFit

(* The activation of an effect has the answer to what it asked for. *)
LEMMA AbsorbHeard ==
  ASSUME NEW src, NEW g, NEW L, NEW w, NEW seen, NEW e \in Effects, g.deps[e] \in Seq(Sources \cup Slots),
         NEW f, FrameOK(g, L, f), OfEffect(f), f.node = e,
         EffectFit(src, g, w, {f}, seen, e),
         NEW n \in Slots, Calls(g, f, n), g.slot[n].has, g.slot[n].value \in Values,
         Cached(g, n) \/ Queued(g, e), NEW ch \in BOOLEAN
  PROVE  EffectFit(src, g, w, {Absorb(g, f, n, ch)}, seen, e)
<1> DEFINE a == Absorb(g, f, n, ch)
<1>0. f \in Frames /\ n \notin Sources
  BY KindsAssumption DEF FrameOK
<1>1. CASE f.op = "body"
  <2> DEFINE v == g.slot[n].value
  <2>1. f \in BodyFrames /\ f.seen \in Seq(Values)
    BY <1>0, <1>1, FrameKinds
  <2>2. a.op = "body" /\ a.node = e /\ a.seen = Append(f.seen, v)
    BY <1>1, <2>1 DEF Absorb, BodyFrames
  <2>3. Body(e, f.seen).do = "read" /\ Body(e, f.seen).node = n /\ n \in ToSet(g.deps[e])
    BY <1>1 DEF Calls
  <2>4. Holds(src, g, n, v)
    BY <1>0 DEF Holds
  <2> HIDE DEF a
  <2>5. EffectFit(src, g, w, {a}, seen, e)
    BY <1>1, <2>1, <2>2, <2>3, <2>4, SeenHeard
  <2> QED  BY <2>5 DEF a
<1>2. CASE f.op # "body"
  <2>1. f \in ShouldFrames /\ f.op = "should" /\ f.i \in Nat \ {0} /\ f.changed \in BOOLEAN
    BY <1>0, <1>2, FrameKinds, KindsAssumption DEF OfEffect
  <2>2. a.op = "should" /\ a.node = e /\ a.i = f.i + 1 /\ (f.changed => a.changed)
    <3>1. a = [f EXCEPT !.i = @ + 1, !.changed = @ \/ ch]
      BY <2>1 DEF Absorb
    <3> HIDE DEF a
    <3>2. f.i + 1 \in Nat \ {0} /\ (f.changed \/ ch) \in BOOLEAN
      BY <2>1
    <3> QED  BY <2>1, <3>1 DEF ShouldFrames
  <2>3. g.deps[e][f.i] = n
    BY <2>1 DEF Calls
  <2> HIDE DEF a
  <2>4. ASSUME NEW m, Ahead(g, f, m) PROVE m = n \/ Ahead(g, a, m)
    <3>1. PICK j \in DOMAIN g.deps[e] : j >= f.i /\ g.deps[e][j] = m
      BY <2>1, <2>4 DEF Ahead
    <3>2. CASE j = f.i
      BY <2>3, <3>1, <3>2
    <3>3. CASE j # f.i
      <4>1. j \in Nat
        BY <3>1
      <4>2. j >= f.i + 1
        BY <2>1, <3>1, <3>3, <4>1
      <4> QED  BY <2>2, <3>1, <4>2 DEF Ahead
    <3> QED  BY <3>2, <3>3
  <2>5. EffectFit(src, g, w, {a}, seen, e)
    <3>1. e \in g.forceRun => Queued(g, e) \/ a.changed
      BY <2>2 DEF EffectFit
    <3>2. \A m \in ToSet(g.deps[e]) \cap Slots : Cached(g, m) \/ Queued(g, e) \/ Ahead(g, a, m)
      BY <2>4 DEF EffectFit
    <3>3. e \notin g.forceRun => Told(src, g, w, e, seen) /\ Body(e, seen).do = "return"
      BY <2>1 DEF EffectFit
    <3> QED  BY <2>2, <3>1, <3>2, <3>3 DEF EffectFit
  <2> QED  BY <2>5 DEF a
<1> QED  BY <1>1, <1>2

LEMMA EffectEdges ==
  ASSUME NEW g, NEW L, GraphOK(g, L)
  PROVE  \A e \in Effects : /\ e \in Readers /\ g.deps[e] \in Seq(Sources \cup Slots)
                            /\ ToSet(g.deps[e]) \subseteq Sources \cup Slots
<1> SUFFICES ASSUME NEW e \in Effects PROVE /\ e \in Readers /\ g.deps[e] \in Seq(Sources \cup Slots)
                                            /\ ToSet(g.deps[e]) \subseteq Sources \cup Slots
  OBVIOUS
<1>1. e \in Readers /\ g.deps[e] \in Seq(Sources \cup Slots)
  BY DEF GraphOK, Graphs, Readers
<1> QED  BY <1>1 DEF ToSet

(* The frame on top, of an effect or not, goes on with its answer. *)
LEMMA SwapHeard ==
  ASSUME NEW L, NEW src, NEW h, NEW w, NEW seen, NEW s, StackOK(h, L, s), GraphOK(h, L), s # <<>>,
         EffectsFit(L, src, h, w, s, seen), NEW n \in Slots, h.slot[n].has, Calls(h, Last(s), n),
         OfEffect(Last(s)) => Cached(h, n) \/ Queued(h, Last(s).node),
         NEW ch \in BOOLEAN, NEW t, t = Append(Front(s), Absorb(h, Last(s), n, ch))
  PROVE  EffectsFit(L, src, h, w, t, seen) /\ (HasFlush(t) <=> HasFlush(s))
<1> DEFINE f == Last(s)
           a == Absorb(h, f, n, ch)
<1>1. f \in Frames /\ FrameOK(h, L, f)
  <2>1. s \in Seq(Frames)
    BY DEF StackOK
  <2>2. f \in Frames /\ f = s[Len(s)] /\ Len(s) \in Nat \ {0}
    BY <2>1, FrontLast
  <2>3. Len(s) \in DOMAIN s
    BY <2>1, <2>2
  <2> QED  BY <2>2, <2>3 DEF StackOK
<1>2. h.slot[n].value \in Values
  BY DEF GraphOK
<1>3. FrameOK(h, L, a) /\ a.op = f.op /\ f.op # "flush" /\ a.node = f.node
  BY <1>1, <1>2, AbsorbOK
<1>4. a \in Frames
  BY <1>3 DEF FrameOK
<1>7. t = Append(Front(s), a) /\ f = Last(s)
  OBVIOUS
<1> HIDE DEF a, f
<1>8. Swaps(h, L, s, f, a, t)
  BY <1>3, <1>4, <1>7 DEF Swaps
<1>5. /\ \A e \in Effects : IsOf(a, e) => Alone(s, e, f) /\ Alone(t, e, a)
      /\ \A e \in Effects : ~IsOf(a, e) => ActivationsOf(t, e) = ActivationsOf(s, e)
      /\ HasFlush(t) <=> HasFlush(s)
  BY ONLY <1>8, ActivationsSwap
<1>6. ASSUME NEW e \in Effects \cap L
      PROVE  EffectFit(src, h, w, ActivationsOf(t, e), seen[e], e)
  <2>1. EffectFit(src, h, w, ActivationsOf(s, e), seen[e], e)
    BY DEF EffectsFit
  <2>2. CASE IsOf(a, e)
    <3>1. OfEffect(f) /\ f.node = e
      BY <1>3, <2>2 DEF OfEffect, IsOf
    <3>2. EffectFit(src, h, w, {f}, seen[e], e) /\ (Cached(h, n) \/ Queued(h, e)) /\ Calls(h, f, n)
      BY <1>5, <1>7, <2>1, <2>2, <3>1 DEF Alone
    <3>3. h.deps[e] \in Seq(Sources \cup Slots)
      BY EffectEdges
    <3>4. EffectFit(src, h, w, {a}, seen[e], e)
      BY <1>1, <1>2, <3>1, <3>2, <3>3, AbsorbHeard DEF a
    <3> QED  BY <1>5, <2>2, <3>4 DEF Alone
  <2>3. CASE ~IsOf(a, e)
    BY <1>5, <2>1, <2>3
  <2> QED  BY <2>2, <2>3
<1> QED  BY <1>5, <1>6 DEF EffectsFit

LEMMA SlotPopped ==
  ASSUME NEW g, NEW L, StackOK(g, L, stack), stack # <<>>, ~OfEffect(Top), Top.op # "flush"
  PROVE  (\A e \in Effects : ActivationsOf(Front(stack), e) = ActivationsOf(stack, e))
         /\ (HasFlush(Front(stack)) <=> HasFlush(stack))
<1> DEFINE b == Front(stack)
<1>1. b = Front(stack) /\ Top = Last(stack) /\ \A e : ~IsOf(Top, e)
  BY DEF Top, IsOf
<1> HIDE DEF b
<1>2. /\ \A e \in Effects : ~IsOf(Top, e) => ActivationsOf(b, e) = ActivationsOf(stack, e)
      /\ HasFlush(stack) <=> HasFlush(b) \/ Top.op = "flush"
  BY <1>1, ActivationsPop
<1> QED  BY <1>1, <1>2 DEF b

LEMMA SlotPushed ==
  ASSUME NEW s \in Seq(Frames), NEW f \in Frames, ~OfEffect(f), NEW t, t = Append(s, f)
  PROVE  (\A e \in Effects : ActivationsOf(t, e) = ActivationsOf(s, e))
         /\ (HasFlush(t) <=> HasFlush(s) \/ f.op = "flush")
<1>1. /\ \A e \in Effects : ~IsOf(f, e) => ActivationsOf(t, e) = ActivationsOf(s, e)
      /\ HasFlush(t) <=> HasFlush(s) \/ f.op = "flush"
  BY ActivationsPush
<1>2. \A e : ~IsOf(f, e)
  BY DEF IsOf
<1> QED  BY <1>1, <1>2

LEMMA ReturnHeard ==
  ASSUME NEW L, NEW src, NEW g, NEW h, NEW w, NEW seen, StackOK(g, L, stack), stack # <<>>, OfSlot(Top),
         StackOK(h, L, Front(stack)), GraphOK(h, L),
         EffectsFit(L, src, h, w, stack, seen), NEW n \in Slots, Cached(h, n),
         Front(stack) # <<>> => Calls(h, Last(Front(stack)), n), NEW ch \in BOOLEAN
  PROVE  EffectsFit(L, src, h, w, Return(h, n, ch), seen) /\ (HasFlush(Return(h, n, ch)) <=> HasFlush(stack))
<1> DEFINE b == Front(stack)
<1>1. ~OfEffect(Top) /\ Top.op # "flush" /\ Top = Last(stack)
  BY KindsAssumption DEF OfSlot, OfEffect, Top
<1>2. (\A e \in Effects : ActivationsOf(b, e) = ActivationsOf(stack, e)) /\ (HasFlush(b) <=> HasFlush(stack))
  BY <1>1, SlotPopped
<1>3. EffectsFit(L, src, h, w, b, seen)
  BY <1>2 DEF EffectsFit
<1>4. CASE b = <<>>
  BY <1>2, <1>3, <1>4 DEF Return
<1>5. CASE b # <<>>
  <2>1. Return(h, n, ch) = Append(Front(b), Absorb(h, Last(b), n, ch))
    BY <1>5 DEF Return
  <2>2. h.slot[n].has
    BY DEF Cached
  <2> HIDE DEF b
  <2>3. StackOK(h, L, b) /\ Calls(h, Last(b), n)
    BY <1>5 DEF b
  <2> QED  BY <1>2, <1>3, <1>5, <2>1, <2>2, <2>3, SwapHeard
<1> QED  BY <1>4, <1>5

(* refreshSlot is called. *)
LEMMA CallHeard ==
  ASSUME NEW g, GraphOK(g, live), StackOK(g, live, stack), stack # <<>>,
         EffectsFit(live, source, g, batched, stack, observed),
         NEW n \in Slots, Calls(g, Top, n), CallRefresh(g, n), ~troubled'
  PROVE  /\ EffectsFit(live', source', graph', batched', stack', observed')
         /\ UNCHANGED <<live, batching, observed, troubled>>
         /\ graph'.pending = g.pending
         /\ HasFlush(stack') <=> HasFlush(stack)
<1>1. CASE Cached(g, n) /\ graph' = g /\ stack' = Replace(Absorb(g, Top, n, FALSE)) /\ Quietly /\ Kept
  <2>1. g.slot[n].has /\ stack' = Append(Front(stack), Absorb(g, Last(stack), n, FALSE)) /\ Calls(g, Last(stack), n)
    BY <1>1 DEF Cached, Replace, Top
  <2>2. EffectsFit(live, source, g, batched, stack', observed) /\ (HasFlush(stack') <=> HasFlush(stack))
    <3> DEFINE no == FALSE
               t == Append(Front(stack), Absorb(g, Last(stack), n, no))
    <3>0. no \in BOOLEAN
      OBVIOUS
    <3>1. t = stack'
      BY <2>1
    <3> HIDE DEF no
    <3> QED  BY <1>1, <2>1, <3>0, <3>1, SwapHeard
  <2> QED  BY <1>1, <2>2 DEF Kept, Quietly
<1>2. CASE Fail(g, "cycle")
  BY <1>2 DEF Fail
<1>3. CASE /\ graph' = Busied(g, n)
           /\ stack' = Append(stack, ScanFrame("refresh", n, ~g.slot[n].has \/ g.slot[n].force))
           /\ Quietly /\ Kept
  <2> DEFINE forced == ~g.slot[n].has \/ g.slot[n].force
             f == ScanFrame("refresh", n, forced)
             h == Busied(g, n)
  <2>1. /\ GraphOK(h, live) /\ h.deps = g.deps
        /\ h.slot[n] = [g.slot[n] EXCEPT !.busy = TRUE]
        /\ \A m \in Slots : m # n => h.slot[m] = g.slot[m]
    BY BusiedOK
  <2>2. h.slot[n].value = g.slot[n].value /\ h.slot[n].has = g.slot[n].has
        /\ h.slot[n].dirty = g.slot[n].dirty /\ h.slot[n].force = g.slot[n].force
        /\ g.slot[n].has \in BOOLEAN /\ g.slot[n].force \in BOOLEAN
    <3>1. g.slot[n] \in SlotRecords
      BY DEF GraphOK, Graphs
    <3> QED  BY <2>1, <3>1 DEF SlotRecords
  <2>3. h.pending = g.pending /\ h.forceRun = g.forceRun
    BY DEF GraphOK, Graphs, Busied
  <2> HIDE DEF h
  <2>4. SameSlots(g, h)
    <3>1. \A c \in Slots : /\ h.slot[c].value = g.slot[c].value /\ h.slot[c].has = g.slot[c].has
                          /\ h.slot[c].dirty = g.slot[c].dirty /\ h.slot[c].force = g.slot[c].force
      BY <2>1, <2>2
    <3> QED  BY <2>1, <3>1, SameFlags
  <2>5. EffectsFit(live, source, h, batched, stack, observed)
    BY <2>1, <2>3, <2>4, EffectSame, EffectEdges
  <2>6. f \in RefreshFrames /\ f.op = "refresh" /\ f.node = n
    <3>1. forced \in BOOLEAN
      BY <2>2
    <3> HIDE DEF forced
    <3> QED  BY <3>1 DEF RefreshFrames, ScanFrame
  <2> HIDE DEF f
  <2>7. f \in Frames /\ ~OfEffect(f)
    BY <2>6, KindsAssumption DEF OfEffect, Frames
  <2>8. /\ \A e \in Effects : ActivationsOf(stack', e) = ActivationsOf(stack, e)
        /\ HasFlush(stack') <=> HasFlush(stack)
    <3>1. stack \in Seq(Frames) /\ stack' = Append(stack, f)
      BY <1>3 DEF StackOK, f
    <3> QED  BY <2>6, <2>7, <3>1, SlotPushed
  <2>9. EffectsFit(live, source, h, batched, stack', observed)
    BY <2>5, <2>8 DEF EffectsFit
  <2> QED  BY <1>3, <2>3, <2>8, <2>9 DEF Kept, Quietly, h
<1> QED  BY <1>1, <1>2, <1>3 DEF CallRefresh, Busied

(* The frame on top goes on. *)
LEMMA GoOnHeard ==
  ASSUME NEW L, NEW src, NEW g, NEW w, NEW seen, NEW k, NEW K, StackOK(k, K, stack), stack # <<>>,
         EffectsFit(L, src, g, w, stack, seen), Top.op # "flush",
         NEW a \in Frames, a.op # "flush", a.node = Top.node, NEW t, t = Append(Front(stack), a),
         \A e \in Effects \cap L : IsOf(Top, e) /\ EffectFit(src, g, w, {Top}, seen[e], e) =>
            EffectFit(src, g, w, {a}, seen[e], e)
  PROVE  EffectsFit(L, src, g, w, t, seen) /\ (HasFlush(t) <=> HasFlush(stack))
<1>1. Top = Last(stack) /\ \A e : IsOf(Top, e) <=> IsOf(a, e)
  BY DEF Top, IsOf, OfEffect
<1>2. /\ \A e \in Effects : IsOf(a, e) => Alone(stack, e, Top) /\ Alone(t, e, a)
      /\ \A e \in Effects : ~IsOf(a, e) => ActivationsOf(t, e) = ActivationsOf(stack, e)
      /\ HasFlush(t) <=> HasFlush(stack)
  <2>1. Swaps(k, K, stack, Top, a, t)
    BY <1>1 DEF Swaps
  <2> QED  BY ONLY <2>1, ActivationsSwap
<1>3. ASSUME NEW e \in Effects \cap L
      PROVE  EffectFit(src, g, w, ActivationsOf(t, e), seen[e], e)
  <2>1. EffectFit(src, g, w, ActivationsOf(stack, e), seen[e], e)
    BY DEF EffectsFit
  <2>2. CASE IsOf(a, e)
    <3>1. EffectFit(src, g, w, {Top}, seen[e], e)
      BY <1>2, <2>1, <2>2 DEF Alone
    <3>2. EffectFit(src, g, w, {a}, seen[e], e)
      BY <1>1, <2>2, <3>1
    <3> QED  BY <1>2, <2>2, <3>2 DEF Alone
  <2>3. CASE ~IsOf(a, e)
    BY <1>2, <2>1, <2>3
  <2> QED  BY <2>2, <2>3
<1> QED  BY <1>2, <1>3 DEF EffectsFit

LEMMA CallUntroubled ==
  ASSUME NEW g, NEW n, CallRefresh(g, n), ~troubled'
  PROVE  ~troubled
BY DEF CallRefresh, Fail, Quietly

LEMMA ScanDependencyHeard == ASSUME Shaped, Heard, ScanDependency PROVE Heard'
<1> DEFINE m == graph.deps[Top.node][Top.i]
<1>1. stack # <<>> /\ Scanning
  BY DEF ScanDependency, Scanning, Idle
<1>2. /\ StackOK(graph, live, stack) /\ GraphOK(graph, live)
      /\ Top \in Frames /\ FrameOK(graph, live, Top) /\ Top = Last(stack)
  BY <1>1, TopOK DEF Shaped, Top
<1>3. /\ Top.op \in {"refresh", "should"} /\ Top.node \in Readers
      /\ Top.i \in Nat \ {0} /\ Top.changed \in BOOLEAN
      /\ Top \in RefreshFrames \cup ShouldFrames
  BY <1>1, <1>2, FrameKinds DEF Scanning, Readers
<1>4. Calls(graph, Top, m) /\ m \in live /\ m \in Sources \cup Slots
  BY <1>1, <1>2, <1>3, ScanCalls
<1>5. CASE m \in Slots \cap live /\ CallRefresh(graph, m)
  <2>1. observed' = observed
    BY <1>5 DEF CallRefresh, Fail, Kept
  <2>2. ASSUME ~troubled' 
        PROVE  /\ Sources \cup Slots \subseteq live'
               /\ graph'.pending # <<>> => HasFlush(stack') \/ batching'
               /\ EffectsFit(live', source', graph', batched', stack', observed')
    <3>1. ~troubled
      BY <1>5, <2>2, CallUntroubled
    <3>2. EffectsFit(live, source, graph, batched, stack, observed)
      BY <3>1 DEF Heard
    <3>3. /\ EffectsFit(live', source', graph', batched', stack', observed')
          /\ UNCHANGED <<live, batching, observed, troubled>>
          /\ graph'.pending = graph.pending
          /\ HasFlush(stack') <=> HasFlush(stack)
      BY <1>1, <1>2, <1>4, <1>5, <2>2, <3>2, CallHeard
    <3> QED  BY <3>1, <3>3 DEF Heard
  <2> QED  BY <2>1, <2>2 DEF Heard
<1>6. CASE m \notin Slots \cap live /\ stack' = Replace([Top EXCEPT !.i = @ + 1]) /\ UNCHANGED graph /\ Quietly /\ Kept
  <2> DEFINE a == [Top EXCEPT !.i = @ + 1]
  <2>1. a \in Frames /\ a.op = Top.op /\ a.node = Top.node /\ a.changed = Top.changed /\ a.i = Top.i + 1
    <3>1. CASE Top \in RefreshFrames
      BY <1>3, <3>1 DEF RefreshFrames, Frames
    <3>2. CASE Top \in ShouldFrames
      BY <1>3, <3>2 DEF ShouldFrames, Frames
    <3> QED  BY <1>3, <3>1, <3>2
  <2>2. stack' = Append(Front(stack), a)
    BY <1>6 DEF Replace
  <2> HIDE DEF a
  <2>3. Top.op # "flush"
    BY <1>3
  <2> SUFFICES ASSUME ~troubled
               PROVE  EffectsFit(live, source, graph, batched, stack', observed) /\ (HasFlush(stack') <=> HasFlush(stack))
    BY <1>6 DEF Heard, Kept, Quietly
  <2>4. EffectsFit(live, source, graph, batched, stack, observed)
    BY DEF Heard
  <2>5. ASSUME NEW e \in Effects \cap live, IsOf(Top, e), EffectFit(source, graph, batched, {Top}, observed[e], e)
        PROVE  EffectFit(source, graph, batched, {a}, observed[e], e)
    <3>1. Top.op = "should" /\ Top.node = e
      BY <1>2, <1>3, <2>5, FrameKinds, KindsAssumption DEF IsOf, OfEffect
    <3>2. ASSUME NEW x \in Slots, Ahead(graph, Top, x) PROVE Ahead(graph, a, x)
      <4>1. PICK j \in DOMAIN graph.deps[e] : j >= Top.i /\ graph.deps[e][j] = x
        BY <3>1, <3>2 DEF Ahead
      <4>2. m \notin Slots
        BY <1>4, <1>6
      <4>3. j # Top.i
        BY <3>1, <4>1, <4>2
      <4>4. j \in Nat
        <5>1. graph.deps[e] \in Seq(Sources \cup Slots)
          BY <1>2, EffectEdges
        <5> QED  BY <4>1, <5>1
      <4>5. j >= a.i
        BY <1>3, <2>1, <4>1, <4>3, <4>4
      <4> QED  BY <2>1, <3>1, <4>1, <4>5 DEF Ahead
    <3> HIDE DEF m
    <3>3. e \in graph.forceRun => Queued(graph, e) \/ a.changed
      BY <2>1, <2>5 DEF EffectFit
    <3>4. \A x \in ToSet(graph.deps[e]) \cap Slots : Cached(graph, x) \/ Queued(graph, e) \/ Ahead(graph, a, x)
      BY <2>5, <3>2 DEF EffectFit
    <3>5. e \notin graph.forceRun => Told(source, graph, batched, e, observed[e]) /\ Body(e, observed[e]).do = "return"
      BY <2>5, <3>1 DEF EffectFit
    <3> QED  BY <2>1, <3>1, <3>3, <3>4, <3>5 DEF EffectFit
  <2> QED  BY ONLY <1>1, <1>2, <2>1, <2>2, <2>3, <2>4, <2>5, GoOnHeard
<1> QED  BY <1>5, <1>6 DEF ScanDependency

LEMMA ScanDoneHeard == ASSUME Shaped, Heard, ScanDone PROVE Heard'
<1>1. stack # <<>> /\ Top.op \in {"refresh", "should"} /\ ~Scanning /\ Quietly /\ Kept
  BY DEF ScanDone, Idle
<1>2. /\ StackOK(graph, live, stack) /\ GraphOK(graph, live) /\ stack \in Seq(Frames)
      /\ Top \in Frames /\ FrameOK(graph, live, Top) /\ Top = Last(stack)
  BY <1>1, TopOK DEF Shaped, Top
<1>3. /\ Top.node \in Readers \cap live /\ Top.i \in Nat \ {0} /\ Top.changed \in BOOLEAN
      /\ Top \in RefreshFrames \cup ShouldFrames
  BY <1>1, <1>2, FrameKinds DEF Readers, FrameOK
<1> SUFFICES ASSUME ~troubled
             PROVE  /\ EffectsFit(live, source, graph', batched, stack', observed)
                    /\ graph'.pending = graph.pending
                    /\ HasFlush(stack') <=> HasFlush(stack)
  BY <1>1 DEF Heard, Kept, Quietly
<1>4. EffectsFit(live, source, graph, batched, stack, observed)
  BY DEF Heard
<1>5. CASE /\ graph' = [WithoutEdges(graph, Top.node) EXCEPT !.forceRun = @ \ {Top.node}]
           /\ stack' = Replace(BodyFrame(Top.node))
  <2> DEFINE k == WithoutEdges(graph, Top.node)
             b == BodyFrame(Top.node)
             h == graph'
  <2>1. /\ GraphOK(k, live) /\ k.slot = graph.slot /\ k.deps[Top.node] = <<>>
        /\ \A d \in Readers : d # Top.node => k.deps[d] = graph.deps[d]
    BY <1>2, <1>3, WithoutEdgesOK
  <2>2. k.pending = graph.pending /\ k.forceRun = graph.forceRun
    BY <1>2 DEF WithoutEdges, GraphOK, Graphs
  <2>3. graph' = [k EXCEPT !.forceRun = @ \ {Top.node}]
    BY <1>5
  <2> HIDE DEF k
  <2>4. /\ h.slot = graph.slot /\ h.deps = k.deps /\ h.pending = graph.pending
        /\ h.forceRun = graph.forceRun \ {Top.node}
    BY <2>1, <2>2, <2>3 DEF GraphOK, Graphs
  <2>5. b \in Frames /\ b.op = "body" /\ b.op # "flush" /\ b.node = Top.node /\ b.seen = <<>>
    BY <1>3 DEF BodyFrame, BodyFrames, Frames
  <2>6. stack' = Append(Front(stack), b)
    BY <1>5 DEF Replace
  <2> HIDE DEF b, h
  <2>7. /\ \A e \in Effects : IsOf(b, e) => Alone(stack, e, Top) /\ Alone(stack', e, b)
        /\ \A e \in Effects : ~IsOf(b, e) => ActivationsOf(stack', e) = ActivationsOf(stack, e)
        /\ HasFlush(stack') <=> HasFlush(stack)
    <3>1. Swaps(graph, live, stack, Top, b, stack')
      BY <1>1, <1>2, <2>5, <2>6 DEF Swaps
    <3> QED  BY ONLY <3>1, ActivationsSwap
  <2>8. ASSUME NEW e \in Effects \cap live
        PROVE  EffectFit(source, h, batched, ActivationsOf(stack', e), observed[e], e)
    <3>1. EffectFit(source, graph, batched, ActivationsOf(stack, e), observed[e], e)
      BY <1>4 DEF EffectsFit
    <3>2. CASE IsOf(b, e)
      <4>1. e = Top.node /\ ActivationsOf(stack', e) = {b}
        BY <2>5, <2>7, <3>2 DEF IsOf, Alone
      <4>2. e \notin h.forceRun /\ h.deps[e] = <<>>
        BY <2>1, <2>4, <4>1
      <4>3. Told(source, h, batched, e, b.seen)
        BY <2>5 DEF Told
      <4>4. ToSet(h.deps[e]) = {}
        BY <4>2 DEF ToSet
      <4> QED  BY <2>5, <4>1, <4>2, <4>3, <4>4 DEF EffectFit
    <3>3. CASE ~IsOf(b, e)
      <4>1. e # Top.node
        BY <2>5, <3>3 DEF IsOf, OfEffect
      <4>2. /\ h.deps[e] = graph.deps[e] /\ (e \in h.forceRun <=> e \in graph.forceRun)
            /\ Queued(h, e) <=> Queued(graph, e)
        BY <2>1, <2>4, <4>1 DEF Queued, Readers
      <4>3. /\ \A m : \A v : Holds(source, graph, m, v) => Holds(source, h, m, v)
            /\ \A m : Cached(graph, m) => Cached(h, m)
        BY <2>4 DEF Holds, Cached
      <4>4. \A f \in ActivationsOf(stack, e) : f.op # "flush" /\ f.node = e
        BY ActivationsAre
      <4>5. EffectFit(source, h, batched, ActivationsOf(stack, e), observed[e], e)
        BY <3>1, <4>2, <4>3, <4>4, EffectKept
      <4> QED  BY <2>7, <3>3, <4>5
    <3> QED  BY <3>2, <3>3
  <2> QED  BY <2>4, <2>7, <2>8 DEF EffectsFit, h
<1>6. CASE ~Top.changed /\ Top.op = "refresh"
  <2> DEFINE n == Top.node
             s == [graph.slot[n] EXCEPT !.dirty = FALSE, !.force = FALSE, !.busy = FALSE]
             g == Put(graph, n, s)
  <2>1. n \in Slots /\ graph.slot[n].has
    BY <1>2, <1>6, FrameKinds DEF FrameOK
  <2>2. graph.slot[n] \in SlotRecords /\ graph.slot \in [Slots -> SlotRecords]
    BY <1>2, <2>1 DEF GraphOK, Graphs
  <2>3. s \in SlotRecords /\ s.has = graph.slot[n].has /\ s.value = graph.slot[n].value /\ ~s.dirty /\ ~s.force
    BY <2>2, Cleaned
  <2>4. graph' = g /\ stack' = Return(g, n, FALSE)
    BY <1>6 DEF ScanDone, Put
  <2>5. g.pending = graph.pending /\ g.forceRun = graph.forceRun
    BY <1>2 DEF Put, GraphOK, Graphs
  <2> HIDE DEF s, g
  <2>6. s.value \in Values
    BY <1>2, <2>1, <2>3 DEF GraphOK
  <2>7. /\ GraphOK(g, live) /\ g.deps = graph.deps /\ g.slot[n] = s
        /\ \A m \in Slots : m # n => g.slot[m] = graph.slot[m]
    BY <1>2, <2>1, <2>3, <2>6, SlotSetOK DEF g
  <2>8. StackOK(g, live, Front(stack))
    BY <1>1, <1>2, <2>1, <2>3, <2>7, BelowUndisturbed
  <2>9. OfSlot(Top)
    BY <1>6, <2>1 DEF OfSlot
  <2>10. Front(stack) # <<>> => Calls(g, Last(Front(stack)), n)
    <3>1. Front(stack) # <<>> => Calls(graph, Last(Front(stack)), n)
      BY <1>1, <1>2, <2>9, BelowCalls
    <3> QED  BY <2>7, <3>1 DEF Calls
  <2> DEFINE no == FALSE
  <2>11. no \in BOOLEAN /\ stack' = Return(g, n, no)
    BY <2>4
  <2> HIDE DEF no, n
  <2>12. Cached(g, n)
    BY <2>1, <2>3, <2>7 DEF Cached
  <2>13. EffectsFit(live, source, g, batched, stack, observed)
    <3> SUFFICES ASSUME NEW e \in Effects \cap live
                 PROVE  EffectFit(source, g, batched, ActivationsOf(stack, e), observed[e], e)
      BY DEF EffectsFit
    <3>1. EffectFit(source, graph, batched, ActivationsOf(stack, e), observed[e], e)
      BY <1>4 DEF EffectsFit
    <3>2. Queued(g, e) <=> Queued(graph, e)
      BY <2>5 DEF Queued
    <3>3. ToSet(graph.deps[e]) \subseteq Sources \cup Slots
      BY <1>2, EffectEdges
    <3>4. \A m \in Sources \cup Slots : \A v : Holds(source, graph, m, v) => Holds(source, g, m, v)
      BY <2>3, <2>7 DEF Holds
    <3>5. \A m \in Slots : Cached(graph, m) => Cached(g, m)
      BY <2>7, <2>12 DEF Cached
    <3>6. \A f \in ActivationsOf(stack, e) : f.op # "flush" /\ f.node = e
      BY ActivationsAre
    <3> QED  BY <2>5, <2>7, <3>1, <3>2, <3>3, <3>4, <3>5, <3>6, EffectKept
  <2>14. EffectsFit(live, source, g, batched, Return(g, n, no), observed)
         /\ (HasFlush(Return(g, n, no)) <=> HasFlush(stack))
    BY ONLY <1>1, <1>2, <2>1, <2>7, <2>8, <2>9, <2>10, <2>11, <2>12, <2>13, ReturnHeard
  <2> QED  BY <2>4, <2>5, <2>11, <2>14
<1>7. CASE ~Top.changed /\ Top.op = "should" /\ stack' = Front(stack) /\ UNCHANGED graph
  <2>1. /\ \A e \in Effects : IsOf(Top, e) => Alone(stack, e, Top) /\ Absent(stack', e)
        /\ \A e \in Effects : ~IsOf(Top, e) => ActivationsOf(stack', e) = ActivationsOf(stack, e)
        /\ HasFlush(stack) <=> HasFlush(stack') \/ Top.op = "flush"
    BY <1>1, <1>2, <1>7, ActivationsPop
  <2>2. ASSUME NEW e \in Effects \cap live
        PROVE  EffectFit(source, graph, batched, ActivationsOf(stack', e), observed[e], e)
    <3>1. EffectFit(source, graph, batched, ActivationsOf(stack, e), observed[e], e)
      BY <1>4 DEF EffectsFit
    <3>2. CASE IsOf(Top, e)
      <4>1. ActivationsOf(stack, e) = {Top} /\ ActivationsOf(stack', e) = {} /\ Top.node = e
        BY <2>1, <3>2 DEF Alone, Absent, IsOf
      <4>2. ~(Top.i <= Len(graph.deps[e]))
        BY <1>1, <1>7, <4>1 DEF Scanning, Idle
      <4>3. \A x : ~Ahead(graph, Top, x)
        <5>1. graph.deps[e] \in Seq(Sources \cup Slots)
          BY <1>2, EffectEdges
        <5>2. \A j \in DOMAIN graph.deps[e] : ~(j >= Top.i)
          BY <1>3, <4>2, <5>1
        <5> QED  BY <1>7, <4>1, <5>2 DEF Ahead
      <4>4. EffectFit(source, graph, batched, {Top}, observed[e], e)
        BY <3>1, <4>1
      <4>5. EffectFit(source, graph, batched, {}, observed[e], e)
        BY <1>7, <4>3, <4>4 DEF EffectFit
      <4> QED  BY <4>1, <4>5
    <3>3. CASE ~IsOf(Top, e)
      BY <2>1, <3>1, <3>3
    <3> QED  BY <3>2, <3>3
  <2> QED  BY <1>1, <1>7, <2>1, <2>2 DEF EffectsFit
<1> QED  BY <1>5, <1>6, <1>7 DEF ScanDone

LEMMA BodyReadsHeard == ASSUME Shaped, Heard, BodyReads PROVE Heard'
<1> DEFINE c == Top.node
           m == Instruction.node
           g == WithEdge(graph, c, m)
<1>1. InBody /\ Instruction.do = "read" /\ Instruction = Body(Top.node, Top.seen)
  BY DEF BodyReads, Instruction
<1>2. /\ stack # <<>> /\ StackOK(graph, live, stack) /\ GraphOK(graph, live)
      /\ stack \in Seq(Frames) /\ Top = Last(stack) /\ Top.op = "body" /\ Top \in BodyFrames
      /\ c \in Readers \cap live /\ Top.seen \in Seq(Values) /\ Top.op # "flush"
      /\ m \in Sources \cup Slots
  BY <1>1, BodyOK
<1>3. CASE Fail(graph, "disposed")
  BY <1>3 DEF Fail, Heard, Kept
<1>4. ASSUME m \in live, ~troubled
      PROVE  /\ GraphOK(g, live) /\ m \in ToSet(g.deps[c]) /\ StackOK(g, live, stack)
             /\ g.pending = graph.pending
             /\ EffectsFit(live, source, g, batched, stack, observed)
  <2>1. GraphOK(g, live) /\ m \in ToSet(g.deps[c]) /\ StackOK(g, live, stack)
    BY <1>1, <1>4, ReadLeavesEdge
  <2>2. /\ g.slot = graph.slot /\ g.pending = graph.pending
        /\ \A d \in Readers : d # c => g.deps[d] = graph.deps[d]
        /\ g.deps[c] = IF m \in ToSet(graph.deps[c]) THEN graph.deps[c] ELSE Append(graph.deps[c], m)
    BY <1>2, <1>4, WithEdgeOK
  <2>3. g.forceRun = graph.forceRun
    BY <1>2 DEF WithEdge, GraphOK, Graphs
  <2>4. ToSet(g.deps[c]) = ToSet(graph.deps[c]) \cup {m}
    <3>1. graph.deps[c] \in Seq(Sources \cup Slots)
      BY <1>2 DEF GraphOK, Graphs
    <3>2. ToSet(Append(graph.deps[c], m)) = ToSet(graph.deps[c]) \cup {m}
      BY <1>2, <3>1, ToSetAppend
    <3> QED  BY <2>2, <3>2
  <2> HIDE DEF g, c, m
  <2>5. ASSUME NEW e \in Effects \cap live
        PROVE  EffectFit(source, g, batched, ActivationsOf(stack, e), observed[e], e)
    <3>1. EffectFit(source, graph, batched, ActivationsOf(stack, e), observed[e], e)
      BY <1>4 DEF Heard, EffectsFit
    <3>2. Queued(g, e) <=> Queued(graph, e)
      BY <2>2 DEF Queued
    <3>3. /\ \A x : \A v : Holds(source, graph, x, v) => Holds(source, g, x, v)
          /\ \A x : Cached(graph, x) <=> Cached(g, x)
      BY <2>2 DEF Holds, Cached
    <3>4. \A f \in ActivationsOf(stack, e) : f.op # "flush" /\ f.node = e
      BY ActivationsAre
    <3>5. CASE e # c
      <4>1. g.deps[e] = graph.deps[e]
        BY <2>2, <3>5 DEF Readers
      <4> QED  BY <2>3, <3>1, <3>2, <3>3, <3>4, <4>1, EffectKept
    <3>6. CASE e = c
      <4>1. ActivationsOf(stack, e) = {Top}
        <5>1. IsOf(Top, e)
          BY <1>2, <3>6 DEF IsOf, OfEffect, c
        <5>2. \A d \in Effects : IsOf(Top, d) => Alone(stack, d, Top)
          BY <1>2, ActivationsPop
        <5> QED  BY <5>1, <5>2 DEF Alone
      <4>2. EffectFit(source, graph, batched, {Top}, observed[e], e)
        BY <3>1, <4>1
      <4>3. \A seen : Told(source, graph, batched, e, seen) => Told(source, g, batched, e, seen)
        BY <2>4, <3>3, <3>6 DEF Told
      <4>4. Ahead(g, Top, m)
        BY <1>1, <1>2 DEF Ahead, m
      <4>5. \A x \in Slots : Ahead(graph, Top, x) => Ahead(g, Top, x)
        BY <1>2 DEF Ahead
      <4>6. EffectFit(source, g, batched, {Top}, observed[e], e)
        <5>1. e \in g.forceRun => Queued(g, e) \/ \E f \in {Top} : f.op = "should" /\ f.changed
          BY <2>3, <3>2, <4>2 DEF EffectFit
        <5>2. e \notin g.forceRun =>
                /\ (\A f \in {Top} : f.op # "body") => Told(source, g, batched, e, observed[e]) /\ Body(e, observed[e]).do = "return"
                /\ \A f \in {Top} : f.op = "body" => Told(source, g, batched, e, f.seen)
          BY <2>3, <4>2, <4>3 DEF EffectFit
        <5>3. \A x \in ToSet(g.deps[e]) \cap Slots : Cached(g, x) \/ Queued(g, e) \/ \E f \in {Top} : Ahead(g, f, x)
          <6> SUFFICES ASSUME NEW x \in ToSet(g.deps[e]) \cap Slots, ~Cached(g, x), ~Queued(g, e)
                       PROVE  Ahead(g, Top, x)
            OBVIOUS
          <6>1. x = m \/ x \in ToSet(graph.deps[e])
            BY <2>4, <3>6
          <6>2. x \in ToSet(graph.deps[e]) => Ahead(graph, Top, x)
            BY <3>2, <3>3, <4>2 DEF EffectFit
          <6> QED  BY <4>4, <4>5, <6>1, <6>2
        <5> QED  BY <5>1, <5>2, <5>3 DEF EffectFit
      <4> QED  BY <4>1, <4>6
    <3> QED  BY <3>5, <3>6
  <2> QED  BY <2>1, <2>2, <2>5 DEF EffectsFit, g, c, m
<1>5. CASE /\ m \in live \cap Sources /\ graph' = g
           /\ stack' = Replace([Top EXCEPT !.seen = Append(@, source[m])])
           /\ Quietly /\ Kept
  <2> SUFFICES ASSUME ~troubled
               PROVE  /\ EffectsFit(live, source, g, batched, stack', observed)
                      /\ g.pending = graph.pending
                      /\ HasFlush(stack') <=> HasFlush(stack)
    BY <1>5 DEF Heard, Kept, Quietly
  <2> DEFINE v == source[m]
             a == [Top EXCEPT !.seen = Append(@, v)]
  <2>1. v \in Values
    BY <1>5 DEF Shaped
  <2>2. a \in Frames /\ a.op = "body" /\ a.op # "flush" /\ a.node = Top.node /\ a.seen = Append(Top.seen, v)
    <3>1. Append(Top.seen, v) \in Seq(Values)
      BY <1>2, <2>1
    <3>2. a \in BodyFrames /\ a.op = "body" /\ a.node = Top.node /\ a.seen = Append(Top.seen, v)
      BY <1>2, <3>1 DEF BodyFrames
    <3> HIDE DEF a
    <3> QED  BY <3>2 DEF Frames
  <2>3. stack' = Append(Front(stack), a)
    BY <1>5 DEF Replace
  <2>4. /\ GraphOK(g, live) /\ m \in ToSet(g.deps[c]) /\ StackOK(g, live, stack)
        /\ g.pending = graph.pending
        /\ EffectsFit(live, source, g, batched, stack, observed)
    BY <1>4, <1>5
  <2> HIDE DEF a, g
  <2>5. Holds(source, g, m, v) /\ m \notin Slots
    BY <1>5, KindsAssumption DEF Holds
  <2>6. ASSUME NEW e \in Effects \cap live, IsOf(Top, e), EffectFit(source, g, batched, {Top}, observed[e], e)
        PROVE  EffectFit(source, g, batched, {a}, observed[e], e)
    <3>1. e = c
      BY <2>6 DEF IsOf
    <3> HIDE DEF v
    <3>2. Body(e, Top.seen).do = "read" /\ Body(e, Top.seen).node = m
      BY <1>1, <3>1
    <3> HIDE DEF m, c
    <3>3. Top.node = e /\ a.node = e
      BY <2>2, <3>1 DEF c
    <3> QED  BY <1>2, <2>1, <2>2, <2>4, <2>5, <2>6, <3>1, <3>2, <3>3, SeenHeard
  <2>7. EffectsFit(live, source, g, batched, stack', observed) /\ (HasFlush(stack') <=> HasFlush(stack))
    BY ONLY <1>2, <2>2, <2>3, <2>4, <2>6, GoOnHeard
  <2> QED  BY <2>4, <2>7
<1>6. CASE m \in live \cap Slots /\ CallRefresh(g, m)
  <2>1. observed' = observed
    BY <1>6 DEF CallRefresh, Fail, Kept
  <2>2. ASSUME ~troubled' 
        PROVE  /\ Sources \cup Slots \subseteq live'
               /\ graph'.pending # <<>> => HasFlush(stack') \/ batching'
               /\ EffectsFit(live', source', graph', batched', stack', observed')
    <3>1. ~troubled
      BY <1>6, <2>2, CallUntroubled
    <3>2. /\ GraphOK(g, live) /\ m \in ToSet(g.deps[c]) /\ StackOK(g, live, stack)
          /\ g.pending = graph.pending
          /\ EffectsFit(live, source, g, batched, stack, observed)
      BY <1>4, <1>6, <3>1
    <3>3. Calls(g, Top, m)
      BY <1>1, <1>2, <3>2 DEF Calls
    <3> HIDE DEF g
    <3>4. /\ EffectsFit(live', source', graph', batched', stack', observed')
          /\ UNCHANGED <<live, batching, observed, troubled>>
          /\ graph'.pending = g.pending
          /\ HasFlush(stack') <=> HasFlush(stack)
      BY <1>2, <1>6, <2>2, <3>2, <3>3, CallHeard
    <3> QED  BY <3>1, <3>2, <3>4 DEF Heard
  <2> QED  BY <2>1, <2>2 DEF Heard
<1> QED  BY <1>3, <1>5, <1>6 DEF BodyReads

LEMMA BodyThrowsHeard == ASSUME Heard, BodyThrows PROVE Heard'
BY DEF BodyThrows, Fail, Heard, Kept

LEMMA EffectReturnsHeard == ASSUME Shaped, Heard, EffectReturns PROVE Heard'
<1> DEFINE c == Top.node
<1>1. /\ InBody /\ c \in Effects /\ Instruction.do = "return" /\ Instruction = Body(c, Top.seen)
      /\ observed' = [observed EXCEPT ![c] = Top.seen] /\ stack' = Front(stack)
      /\ UNCHANGED <<source, live, graph, batching, batched>> /\ Quietly
  BY DEF EffectReturns, Instruction
<1>2. /\ stack # <<>> /\ StackOK(graph, live, stack) /\ GraphOK(graph, live)
      /\ Top = Last(stack) /\ Top.op = "body" /\ Top.op # "flush"
      /\ Top.seen \in Seq(Values) /\ Len(Top.seen) <= MaxReads
  BY <1>1, BodyOK
<1>3. Top.seen \in Histories
  <2>1. Len(Top.seen) \in 0 .. MaxReads /\ Top.seen \in [1 .. Len(Top.seen) -> Values]
    BY <1>2, BoundsAssumption
  <2> QED  BY <2>1 DEF Histories
<1>4. observed' \in [Effects -> Histories] /\ \A e \in Effects : observed'[e] = IF e = c THEN Top.seen ELSE observed[e]
  BY <1>1, <1>3 DEF Heard
<1> HIDE DEF c
<1>5. /\ \A e \in Effects : IsOf(Top, e) => Alone(stack, e, Top) /\ Absent(stack', e)
      /\ \A e \in Effects : ~IsOf(Top, e) => ActivationsOf(stack', e) = ActivationsOf(stack, e)
      /\ HasFlush(stack) <=> HasFlush(stack') \/ Top.op = "flush"
  BY <1>1, <1>2, ActivationsPop
<1>6. ASSUME ~troubled, NEW e \in Effects \cap live
      PROVE  EffectFit(source, graph, batched, ActivationsOf(stack', e), observed'[e], e)
  <2>1. EffectFit(source, graph, batched, ActivationsOf(stack, e), observed[e], e)
    BY <1>6 DEF Heard, EffectsFit
  <2>2. CASE e = c
    <3>1. IsOf(Top, e)
      BY <1>2, <2>2 DEF IsOf, OfEffect, c
    <3>2. ActivationsOf(stack, e) = {Top} /\ ActivationsOf(stack', e) = {} /\ observed'[e] = Top.seen
      BY <1>4, <1>5, <2>2, <3>1 DEF Alone, Absent
    <3>3. EffectFit(source, graph, batched, {Top}, observed[e], e)
      BY <2>1, <3>2
    <3>4. \A x : ~Ahead(graph, Top, x)
      BY <1>1, <1>2 DEF Ahead, c
    <3>5. EffectFit(source, graph, batched, {}, Top.seen, e)
      BY <1>1, <1>2, <2>2, <3>3, <3>4 DEF EffectFit
    <3> QED  BY <3>2, <3>5
  <2>3. CASE e # c
    <3>1. ~IsOf(Top, e)
      BY <2>3 DEF IsOf, c
    <3> QED  BY <1>4, <1>5, <2>1, <2>3, <3>1
  <2> QED  BY <2>2, <2>3
<1> QED  BY <1>1, <1>2, <1>4, <1>5, <1>6 DEF Heard, EffectsFit, Quietly

(* What is written is announced, or held back by a batch. *)
LEMMA WriteHeard ==
  ASSUME Shaped, Heard, NEW s \in Sources, NEW v \in Values, NEW above \in Seq(Frames), Write(s, v, above),
         ~troubled => EffectsFit(live, source, graph, batched, above, observed),
         HasFlush(above) <=> HasFlush(stack), UNCHANGED troubled
  PROVE  Heard'
<1>1. /\ source' = [source EXCEPT ![s] = v] /\ UNCHANGED <<live, batching, observed>>
      /\ \/ source[s] = v /\ stack' = above /\ UNCHANGED <<graph, batched>>
         \/ source[s] # v /\ batched' = batched \cup {s} /\ stack' = above /\ UNCHANGED graph
         \/ /\ source[s] # v
            /\ graph' \in Invalidated(graph, graph.dependents[s])
            /\ stack' = IF Flushing \/ Reached(graph, graph.dependents[s]) \cap Effects = {}
                        THEN above ELSE Append(above, FlushFrame)
            /\ UNCHANGED batched
  BY DEF Write
<1>2. GraphOK(graph, live) /\ source \in [Sources -> Values]
  BY DEF Shaped
<1>3. Flushing <=> HasFlush(stack)
  BY DEF Flushing, HasFlush
<1> SUFFICES ASSUME ~troubled
             PROVE  /\ EffectsFit(live, source', graph', batched', stack', observed)
                    /\ graph'.pending # <<>> => HasFlush(stack') \/ batching
  BY <1>1 DEF Heard
<1>4. EffectsFit(live, source, graph, batched, above, observed) /\ (graph.pending # <<>> => HasFlush(stack) \/ batching)
  BY DEF Heard
<1>5. CASE source[s] = v /\ stack' = above /\ UNCHANGED <<graph, batched>>
  <2>1. source' = source
    BY <1>1, <1>2, <1>5
  <2> QED  BY <1>4, <1>5, <2>1
<1>6. CASE source[s] # v /\ batched' = batched \cup {s} /\ stack' = above /\ UNCHANGED graph
  <2>1. ASSUME NEW e \in Effects \cap live
        PROVE  EffectFit(source', graph, batched', ActivationsOf(above, e), observed[e], e)
    <3>1. EffectFit(source, graph, batched, ActivationsOf(above, e), observed[e], e)
      BY <1>4 DEF EffectsFit
    <3>2. \A m : \A x : m \in batched \/ Holds(source, graph, m, x) => m \in batched' \/ Holds(source', graph, m, x)
      BY <1>1, <1>2, <1>6 DEF Holds
    <3>3. \A f \in ActivationsOf(above, e) : f.op # "flush" /\ f.node = e
      BY ActivationsAre
    <3> QED  BY <3>1, <3>2, <3>3, EffectKept
  <2> QED  BY <1>4, <1>6, <2>1 DEF EffectsFit
<1>7. CASE /\ source[s] # v
           /\ graph' \in Invalidated(graph, graph.dependents[s])
           /\ stack' = IF Flushing \/ Reached(graph, graph.dependents[s]) \cap Effects = {}
                        THEN above ELSE Append(above, FlushFrame)
           /\ UNCHANGED batched
  <2> DEFINE roots == graph.dependents[s]
             h == graph'
  <2>1. graph \in Graphs /\ roots \in SUBSET Readers /\ h \in Invalidated(graph, roots)
    BY <1>2, <1>7 DEF GraphOK, Graphs
  <2>2. /\ \A e \in Effects : Queued(h, e) <=> Queued(graph, e) \/ e \in Reached(graph, roots)
        /\ h.forceRun = graph.forceRun \cup (roots \cap Effects)
        /\ Reached(graph, roots) \cap Effects = {} => h.pending = graph.pending
    BY <2>1, InvalidatedQueue
  <2>3. h.deps = graph.deps /\ \A n \in Slots : h.slot[n].has = graph.slot[n].has /\ h.slot[n].value = graph.slot[n].value
    BY <2>1, InvalidatedParts DEF MarkedFrom
  <2>4. \A e \in Effects : \A m \in ToSet(graph.deps[e]) \cap Slots : Cached(graph, m) => Cached(h, m) \/ Queued(h, e)
    BY <1>2, <2>1, MarkedHeard
  <2>5. roots \subseteq Reached(graph, roots)
    BY ReachedParts
  <2>6. \A e \in Effects : s \in ToSet(graph.deps[e]) => e \in roots
    BY <1>2, EffectEdges DEF GraphOK, Mirror
  <2> HIDE DEF h, roots
  <2>7. ASSUME NEW e \in Effects \cap live
        PROVE  EffectFit(source', h, batched, ActivationsOf(above, e), observed[e], e)
    <3>1. EffectFit(source, graph, batched, ActivationsOf(above, e), observed[e], e)
      BY <1>4 DEF EffectsFit
    <3>2. e \notin h.forceRun => s \notin ToSet(graph.deps[e])
      BY <2>2, <2>6
    <3>3. \A m \in Sources \cup Slots : \A x : m # s /\ Holds(source, graph, m, x) => Holds(source', h, m, x)
      BY <1>1, <1>2, <2>3 DEF Holds
    <3>4. \A f \in ActivationsOf(above, e) : f.op # "flush" /\ f.node = e
      BY ActivationsAre
    <3>5. ToSet(graph.deps[e]) \subseteq Sources \cup Slots
      BY <1>2, EffectEdges
    <3>6. e \notin h.forceRun => \A m \in ToSet(graph.deps[e]) : \A x :
            m \in batched \/ Holds(source, graph, m, x) => m \in batched \/ Holds(source', h, m, x)
      BY <3>2, <3>3, <3>5
    <3>7. e \in h.forceRun => e \in graph.forceRun \/ Queued(h, e)
      BY <2>2, <2>5
    <3> QED  BY <2>2, <2>3, <2>4, <3>1, <3>4, <3>6, <3>7, EffectKept
  <2>8. EffectsFit(live, source', h, batched, above, observed)
    BY <2>7 DEF EffectsFit
  <2>9. CASE Flushing \/ Reached(graph, roots) \cap Effects = {}
    <3>1. stack' = above
      BY <1>7, <2>9 DEF roots
    <3>2. h.pending # <<>> => HasFlush(above) \/ batching
      BY <1>3, <1>4, <2>2, <2>9
    <3> QED  BY <1>7, <2>8, <3>1, <3>2 DEF h
  <2>10. CASE ~(Flushing \/ Reached(graph, roots) \cap Effects = {})
    <3>1. stack' = Append(above, FlushFrame)
      BY <1>7, <2>10 DEF roots
    <3>2. FlushFrame \in Frames /\ FlushFrame.op = "flush" /\ ~OfEffect(FlushFrame)
      BY DEF FlushFrame, Frames, FlushFrames, OfEffect
    <3>3. (\A e \in Effects : ActivationsOf(stack', e) = ActivationsOf(above, e)) /\ HasFlush(stack')
      BY <3>1, <3>2, SlotPushed
    <3> QED  BY <1>7, <2>8, <3>3 DEF EffectsFit, h
  <2> QED  BY <2>9, <2>10
<1> QED  BY <1>1, <1>5, <1>6, <1>7

LEMMA BodyWritesHeard == ASSUME Shaped, Heard, BodyWrites PROVE Heard'
<1> DEFINE s == Instruction.node
           v == Instruction.value
           a == [Top EXCEPT !.seen = Append(@, v)]
<1>1. InBody /\ Instruction.do = "set" /\ Instruction = Body(Top.node, Top.seen)
  BY DEF BodyWrites, Instruction
<1>2. /\ stack # <<>> /\ StackOK(graph, live, stack) /\ stack \in Seq(Frames)
      /\ Top.op = "body" /\ Top = Last(stack) /\ s \in Sources /\ v \in Values
      /\ Top \in BodyFrames /\ Top.seen \in Seq(Values) /\ Top.op # "flush"
  BY <1>1, BodyOK
<1>3. CASE Fail(graph, "disposed")
  BY <1>3 DEF Fail, Heard, Kept
<1>4. CASE Write(s, v, Replace(a)) /\ Quietly
  <2>1. a \in Frames /\ a.op = "body" /\ a.op # "flush" /\ a.node = Top.node /\ a.seen = Append(Top.seen, v)
    <3>1. Append(Top.seen, v) \in Seq(Values)
      BY <1>2
    <3>2. a \in BodyFrames /\ a.op = "body" /\ a.node = Top.node /\ a.seen = Append(Top.seen, v)
      BY <1>2, <3>1 DEF BodyFrames
    <3> HIDE DEF a
    <3> QED  BY <3>2 DEF Frames
  <2> HIDE DEF a
  <2> DEFINE t == Append(Front(stack), a)
  <2>2. t = Append(Front(stack), a)
    OBVIOUS
  <2>3. t \in Seq(Frames) /\ Write(s, v, t)
    <3>1. Front(stack) \in Seq(Frames)
      BY <1>2, FrontLast
    <3> QED  BY <1>4, <2>1, <3>1 DEF Replace
  <2> HIDE DEF t
  <2>4. ASSUME NEW e \in Effects \cap live, IsOf(Top, e), EffectFit(source, graph, batched, {Top}, observed[e], e)
        PROVE  EffectFit(source, graph, batched, {a}, observed[e], e)
    <3>1. Top.node = e /\ a.node = e
      BY <2>1, <2>4 DEF IsOf
    <3>2. Body(e, Top.seen).do = "set" /\ Body(e, Top.seen).value = v
      BY <1>1, <3>1
    <3> HIDE DEF v, s
    <3> QED  BY <1>2, <2>1, <2>4, <3>1, <3>2, SeenHeard
  <2>5. HasFlush(t) <=> HasFlush(stack)
    <3>1. Swaps(graph, live, stack, Top, a, t)
      BY <1>2, <2>1, <2>2 DEF Swaps
    <3> QED  BY ONLY <3>1, ActivationsSwap
  <2>6. ASSUME ~troubled PROVE EffectsFit(live, source, graph, batched, t, observed)
    <3>1. EffectsFit(live, source, graph, batched, stack, observed)
      BY <2>6 DEF Heard
    <3> QED  BY ONLY <1>2, <2>1, <2>2, <2>4, <3>1, GoOnHeard
  <2> HIDE DEF s, v
  <2> QED  BY <1>2, <1>4, <2>3, <2>5, <2>6, WriteHeard DEF Quietly
<1> QED  BY <1>3, <1>4 DEF BodyWrites

LEMMA SetHeard == ASSUME Shaped, Heard, NEW s \in Sources, NEW v \in Values, Set(s, v) PROVE Heard'
<1>1. stack = <<>> /\ Write(s, v, stack) /\ UNCHANGED troubled
  BY DEF Set, Idle
<1>2. stack \in Seq(Frames)
  BY <1>1
<1>3. ~troubled => EffectsFit(live, source, graph, batched, stack, observed)
  BY DEF Heard
<1> QED  BY <1>1, <1>2, <1>3, WriteHeard

LEMMA FlushNextHeard == ASSUME Shaped, Heard, FlushNext PROVE Heard'
<1>1. /\ stack # <<>> /\ Top.op = "flush" /\ StackOK(graph, live, stack) /\ GraphOK(graph, live)
      /\ Quietly /\ Kept
  BY DEF FlushNext, Idle, Shaped
<1>2. /\ stack \in Seq(Frames) /\ Top = Last(stack) /\ Len(stack) \in DOMAIN stack
      /\ Top = stack[Len(stack)] /\ DOMAIN stack = 1 .. Len(stack) /\ Len(stack) \in Nat \ {0}
  BY <1>1, TopOK DEF Top
<1>3. HasFlush(stack)
  BY <1>1, <1>2 DEF HasFlush
<1> SUFFICES ASSUME ~troubled
             PROVE  /\ EffectsFit(live, source, graph', batched, stack', observed)
                    /\ graph'.pending # <<>> => HasFlush(stack')
  BY <1>1 DEF Heard, Kept, Quietly
<1>4. EffectsFit(live, source, graph, batched, stack, observed)
  BY DEF Heard
<1>5. CASE graph.pending = <<>>
  <2>1. stack' = Front(stack) /\ graph' = graph
    BY <1>5 DEF FlushNext
  <2>2. ~OfEffect(Top)
    BY <1>1 DEF OfEffect
  <2>3. \A e \in Effects : ~IsOf(Top, e) => ActivationsOf(stack', e) = ActivationsOf(stack, e)
    BY <1>1, <1>2, <2>1, ActivationsPop
  <2>4. \A e \in Effects : ActivationsOf(stack', e) = ActivationsOf(stack, e)
    BY <2>2, <2>3 DEF IsOf
  <2> QED  BY <1>4, <1>5, <2>1, <2>4 DEF EffectsFit
<1>6. CASE graph.pending # <<>>
  <2> DEFINE e == Head(graph.pending)
             f == ScanFrame("should", e, e \in graph.forceRun)
             h == graph'
  <2>1. /\ graph' = [graph EXCEPT !.pending = Tail(@)]
        /\ stack' = IF e \notin live THEN stack ELSE Append(stack, f)
    BY <1>6 DEF FlushNext
  <2>2. graph \in Graphs /\ graph.pending \in Seq(Effects) /\ e \in Effects
    BY <1>1, <1>6 DEF GraphOK, Graphs
  <2>3. /\ h.slot = graph.slot /\ h.deps = graph.deps /\ h.forceRun = graph.forceRun
        /\ h.pending = Tail(graph.pending)
    BY <2>1, <2>2 DEF Graphs
  <2>4. ASSUME NEW d \in Effects, Queued(graph, d), d # e PROVE Queued(h, d)
    <3> DEFINE q == graph.pending
               n == Len(q)
    <3>1. /\ n \in Nat \ {0} /\ DOMAIN q = 1 .. n /\ e = q[1] /\ DOMAIN Tail(q) = 1 .. n - 1
          /\ \A i \in 1 .. n - 1 : Tail(q)[i] = q[i + 1]
      BY <1>6, <2>2
    <3> HIDE DEF q, n
    <3>2. PICK i \in 1 .. n : q[i] = d
      BY <2>4, <3>1 DEF Queued, ToSet, q
    <3>3. i # 1 /\ i - 1 \in 1 .. n - 1 /\ i - 1 + 1 = i
      BY <2>4, <3>1, <3>2
    <3>4. Tail(q)[i - 1] = d
      BY <3>1, <3>2, <3>3
    <3> QED  BY <2>3, <3>1, <3>3, <3>4 DEF Queued, ToSet, q
  <2> HIDE DEF e, h
  <2>5. ASSUME NEW d \in Effects \cap live, d # e
        PROVE  EffectFit(source, h, batched, ActivationsOf(stack, d), observed[d], d)
    <3>1. EffectFit(source, graph, batched, ActivationsOf(stack, d), observed[d], d)
      BY <1>4 DEF EffectsFit
    <3>2. /\ \A m : \A v : Holds(source, graph, m, v) => Holds(source, h, m, v)
          /\ \A m : Cached(graph, m) => Cached(h, m)
      BY <2>3 DEF Holds, Cached
    <3>3. \A a \in ActivationsOf(stack, d) : a.op # "flush" /\ a.node = d
      BY ActivationsAre
    <3> QED  BY <2>3, <2>4, <2>5, <3>1, <3>2, <3>3, EffectKept
  <2>6. CASE e \notin live
    <3>1. stack' = stack /\ \A d \in Effects \cap live : d # e
      BY <2>1, <2>6
    <3> QED  BY <1>3, <2>5, <3>1 DEF EffectsFit, h
  <2>7. CASE e \in live
    <3>1. f \in ShouldFrames /\ f.op = "should" /\ f.node = e /\ f.i = 1 /\ (f.changed <=> e \in graph.forceRun)
      <4>1. e \in Effects
        BY <2>2
      <4>2. PICK b \in BOOLEAN : b <=> e \in graph.forceRun
        OBVIOUS
      <4>3. f = [op |-> "should", node |-> e, i |-> 1, changed |-> b]
        BY <4>2 DEF ScanFrame
      <4> HIDE DEF f
      <4>4. f.op = "should" /\ f.node = e /\ f.i = 1 /\ (f.changed <=> e \in graph.forceRun)
        BY ONLY <4>1, <4>2, <4>3
      <4>5. f \in ShouldFrames
        BY ONLY <4>1, <4>2, <4>3 DEF ShouldFrames
      <4> QED  BY <4>4, <4>5
    <3>2. stack' = Append(stack, f)
      BY <2>1, <2>7
    <3> HIDE DEF f
    <3>3. f \in Frames /\ IsOf(f, e) /\ \A d : d # e => ~IsOf(f, d)
      BY <2>2, <3>1 DEF IsOf, OfEffect, Frames
    <3>4. Absent(stack, e)
      <4> SUFFICES ASSUME NEW i \in DOMAIN stack, OfEffect(stack[i]) PROVE FALSE
        BY DEF Absent, ActivationsOf
      <4>1. i # 1
        BY <1>1 DEF StackOK
      <4>2. i - 1 \in DOMAIN stack /\ i > 1
        BY <1>2, <4>1
      <4>3. PairOK(graph, stack[i - 1], stack[i])
        BY <1>1, <4>2 DEF StackOK
      <4>4. stack[i - 1].op = "flush"
        BY <4>3 DEF PairOK
      <4>5. i - 1 = Len(stack)
        BY <1>1, <1>2, <4>2, <4>4 DEF StackOK
      <4> QED  BY <1>2, <4>5
    <3>5. /\ \A d \in Effects : IsOf(f, d) /\ Absent(stack, d) => Alone(stack', d, f)
          /\ \A d \in Effects : ~IsOf(f, d) => ActivationsOf(stack', d) = ActivationsOf(stack, d)
          /\ HasFlush(stack') <=> HasFlush(stack) \/ f.op = "flush"
      BY <1>2, <3>2, <3>3, ActivationsPush
    <3>6. ASSUME NEW d \in Effects \cap live
          PROVE  EffectFit(source, h, batched, ActivationsOf(stack', d), observed[d], d)
      <4>1. CASE d # e
        <5>1. ActivationsOf(stack', d) = ActivationsOf(stack, d)
          BY <3>3, <3>5, <4>1
        <5> QED  BY <2>5, <4>1, <5>1
      <4>2. CASE d = e
        <5>1. ActivationsOf(stack', e) = {f} /\ ActivationsOf(stack, e) = {}
          BY <2>2, <3>3, <3>4, <3>5 DEF Alone, Absent
        <5>2. EffectFit(source, graph, batched, {}, observed[e], e)
          BY <1>4, <4>2, <5>1 DEF EffectsFit
        <5>3. e \notin h.forceRun => Told(source, h, batched, e, observed[e]) /\ Body(e, observed[e]).do = "return"
          <6>1. \A m : \A v : Holds(source, graph, m, v) <=> Holds(source, h, m, v)
            BY <2>3 DEF Holds
          <6>2. e \notin h.forceRun => Told(source, graph, batched, e, observed[e]) /\ Body(e, observed[e]).do = "return"
            BY <2>3, <5>2 DEF EffectFit
          <6> QED  BY <2>3, <6>1, <6>2 DEF Told
        <5>4. \A m \in ToSet(h.deps[e]) : Ahead(h, f, m)
          <6>1. h.deps[e] \in Seq(Sources \cup Slots)
            BY <1>1, <2>2, <2>3, EffectEdges
          <6>2. \A j \in DOMAIN h.deps[e] : j >= 1
            BY <6>1
          <6> QED  BY <3>1, <6>2 DEF Ahead, ToSet
        <5>5. EffectFit(source, h, batched, {f}, observed[e], e)
          BY <2>3, <3>1, <5>3, <5>4 DEF EffectFit
        <5> QED  BY <4>2, <5>1, <5>5
      <4> QED  BY <4>1, <4>2
    <3> QED  BY <1>3, <3>5, <3>6 DEF EffectsFit, h
  <2> QED  BY <2>6, <2>7
<1> QED  BY <1>5, <1>6

LEMMA GetHeard == ASSUME Shaped, Heard, NEW n \in Slots, Get(n) PROVE Heard'
<1> DEFINE forced == ~graph.slot[n].has \/ graph.slot[n].force
           f == ScanFrame("refresh", n, forced)
           h == Busied(graph, n)
<1>1. /\ stack = <<>> /\ graph' = h /\ stack' = <<f>> /\ UNCHANGED troubled /\ Kept
  BY DEF Get, Idle, Busied
<1>2. GraphOK(graph, live) /\ graph.slot[n] \in SlotRecords
  BY DEF Shaped, GraphOK, Graphs
<1>3. /\ h.deps = graph.deps
      /\ h.slot[n] = [graph.slot[n] EXCEPT !.busy = TRUE]
      /\ \A m \in Slots : m # n => h.slot[m] = graph.slot[m]
  BY <1>2, BusiedOK
<1>4. h.slot[n].value = graph.slot[n].value /\ h.slot[n].has = graph.slot[n].has
      /\ h.slot[n].dirty = graph.slot[n].dirty /\ h.slot[n].force = graph.slot[n].force
  BY <1>2, <1>3 DEF SlotRecords
<1>5. h.pending = graph.pending /\ h.forceRun = graph.forceRun
  BY <1>2 DEF GraphOK, Graphs, Busied
<1> HIDE DEF h
<1>6. SameSlots(graph, h)
  <2>1. \A c \in Slots : /\ h.slot[c].value = graph.slot[c].value /\ h.slot[c].has = graph.slot[c].has
                         /\ h.slot[c].dirty = graph.slot[c].dirty /\ h.slot[c].force = graph.slot[c].force
    BY <1>3, <1>4
  <2> QED  BY <1>3, <2>1, SameFlags
<1>7. f \in RefreshFrames /\ f.op = "refresh" /\ f.node = n
  <2>1. forced \in BOOLEAN
    BY <1>2 DEF SlotRecords
  <2> HIDE DEF forced
  <2> QED  BY <2>1 DEF RefreshFrames, ScanFrame
<1> HIDE DEF f
<1>8. f \in Frames /\ ~OfEffect(f) /\ stack' = Append(stack, f) /\ stack \in Seq(Frames)
  BY <1>1, <1>7, KindsAssumption DEF OfEffect, Frames
<1>9. (\A e \in Effects : ActivationsOf(stack', e) = ActivationsOf(stack, e)) /\ (HasFlush(stack') <=> HasFlush(stack) \/ f.op = "flush")
  BY <1>8, SlotPushed
<1>10. ASSUME ~troubled PROVE EffectsFit(live, source, h, batched, stack', observed)
  <2>1. EffectsFit(live, source, graph, batched, stack, observed)
    BY <1>10 DEF Heard
  <2>2. EffectsFit(live, source, h, batched, stack, observed)
    BY <1>2, <1>3, <1>5, <1>6, <2>1, EffectSame, EffectEdges
  <2> QED  BY <1>9, <2>2 DEF EffectsFit
<1> QED  BY <1>1, <1>5, <1>7, <1>9, <1>10 DEF Heard, Kept

(* A stack of one flush frame, where there was none. *)
LEMMA FlushHeard ==
  ASSUME NEW t, t = <<FlushFrame>>
  PROVE  (\A e \in Effects : ActivationsOf(t, e) = ActivationsOf(<<>>, e)) /\ HasFlush(t)
<1> DEFINE z == <<>>
<1>1. z \in Seq(Frames) /\ t = Append(z, FlushFrame) /\ FlushFrame \in Frames /\ FlushFrame.op = "flush" /\ ~OfEffect(FlushFrame)
  BY DEF FlushFrame, Frames, FlushFrames, OfEffect
<1> HIDE DEF z
<1>2. (\A e \in Effects : ActivationsOf(t, e) = ActivationsOf(z, e)) /\ (HasFlush(t) <=> HasFlush(z) \/ FlushFrame.op = "flush")
  BY <1>1, SlotPushed
<1> QED  BY <1>1, <1>2 DEF z

LEMMA BatchEndHeard == ASSUME Shaped, Heard, BatchEnd PROVE Heard'
<1>1. /\ stack = <<>> /\ batched' = {} /\ stack' = <<FlushFrame>>
      /\ graph' \in IF batched = {} THEN {graph} ELSE Invalidated(graph, BatchRoots)
      /\ UNCHANGED <<source, live, observed, troubled>>
  BY DEF BatchEnd, Idle
<1>2. GraphOK(graph, live) /\ graph \in Graphs /\ batched \subseteq Sources
  BY DEF Shaped, GraphOK
<1>3. (\A e \in Effects : ActivationsOf(stack', e) = ActivationsOf(stack, e)) /\ HasFlush(stack')
  BY <1>1, FlushHeard
<1> SUFFICES ASSUME ~troubled
             PROVE  EffectsFit(live, source, graph', {}, stack, observed)
  BY <1>1, <1>3 DEF Heard, EffectsFit
<1>4. EffectsFit(live, source, graph, batched, stack, observed) /\ Sources \subseteq live
  BY DEF Heard
<1>5. CASE batched = {}
  BY <1>1, <1>4, <1>5
<1>6. CASE batched # {}
  <2> DEFINE roots == BatchRoots
             h == graph'
  <2>1. roots \in SUBSET Readers /\ h \in Invalidated(graph, roots)
    BY <1>1, <1>2, <1>6 DEF Graphs, BatchRoots
  <2>2. /\ \A e \in Effects : Queued(h, e) <=> Queued(graph, e) \/ e \in Reached(graph, roots)
        /\ h.forceRun = graph.forceRun \cup (roots \cap Effects)
    BY <1>2, <2>1, InvalidatedQueue
  <2>3. h.deps = graph.deps /\ \A n \in Slots : h.slot[n].has = graph.slot[n].has /\ h.slot[n].value = graph.slot[n].value
    BY <1>2, <2>1, InvalidatedParts DEF MarkedFrom
  <2>4. \A e \in Effects : \A m \in ToSet(graph.deps[e]) \cap Slots : Cached(graph, m) => Cached(h, m) \/ Queued(h, e)
    BY <1>2, <2>1, MarkedHeard
  <2>5. roots \subseteq Reached(graph, roots)
    BY ReachedParts
  <2>6. \A e \in Effects : \A m \in batched : m \in ToSet(graph.deps[e]) => e \in roots
    BY <1>2, <1>4 DEF GraphOK, Mirror, Readers, BatchRoots
  <2> HIDE DEF h, roots
  <2>7. ASSUME NEW e \in Effects \cap live
        PROVE  EffectFit(source, h, {}, ActivationsOf(stack, e), observed[e], e)
    <3>1. EffectFit(source, graph, batched, ActivationsOf(stack, e), observed[e], e)
      BY <1>4 DEF EffectsFit
    <3>2. ToSet(graph.deps[e]) \subseteq Sources \cup Slots
      BY <1>2, EffectEdges
    <3>3. \A m \in Sources \cup Slots : \A x : Holds(source, graph, m, x) => Holds(source, h, m, x)
      BY <2>3 DEF Holds
    <3>4. e \notin h.forceRun => \A m \in ToSet(graph.deps[e]) : \A x :
            m \in batched \/ Holds(source, graph, m, x) => m \in {} \/ Holds(source, h, m, x)
      BY <2>2, <2>6, <3>2, <3>3
    <3>5. \A f \in ActivationsOf(stack, e) : f.op # "flush" /\ f.node = e
      BY ActivationsAre
    <3>6. e \in h.forceRun => e \in graph.forceRun \/ Queued(h, e)
      BY <2>2, <2>5
    <3> DEFINE none == {}
    <3>7. none = {}
      OBVIOUS
    <3> HIDE DEF none
    <3>8. EffectFit(source, h, none, ActivationsOf(stack, e), observed[e], e)
      BY <2>2, <2>3, <2>4, <3>1, <3>4, <3>5, <3>6, <3>7, EffectKept
    <3> QED  BY <3>7, <3>8
  <2> QED  BY <2>7 DEF EffectsFit, h
<1> QED  BY <1>5, <1>6

LEMMA CreateEffectHeard == ASSUME Shaped, Heard, NEW c \in Effects, CreateEffect(c) PROVE Heard'
<1>1. /\ stack = <<>> /\ live' = live \cup {c} /\ stack' = <<FlushFrame>>
      /\ graph' = [graph EXCEPT !.pending = Append(@, c), !.forceRun = @ \cup {c}]
      /\ UNCHANGED <<source, batching, batched, observed, troubled>>
  BY DEF CreateEffect, Idle
<1>2. GraphOK(graph, live) /\ graph \in Graphs /\ graph.pending \in Seq(Effects)
  BY DEF Shaped, GraphOK, Graphs
<1>3. (\A e \in Effects : ActivationsOf(stack', e) = ActivationsOf(stack, e)) /\ HasFlush(stack')
  BY <1>1, FlushHeard
<1>4. \A e \in Effects : ActivationsOf(stack, e) = {}
  BY <1>1, NoActivations
<1> DEFINE h == graph'
<1>5. /\ h.slot = graph.slot /\ h.deps = graph.deps
      /\ h.pending = Append(graph.pending, c) /\ h.forceRun = graph.forceRun \cup {c}
  BY <1>1, <1>2 DEF Graphs
<1>6. \A e \in Effects : Queued(h, e) <=> Queued(graph, e) \/ e = c
  <2>1. ToSet(h.pending) = ToSet(graph.pending) \cup {c}
    BY <1>2, <1>5, ToSetAppend
  <2> QED  BY <2>1 DEF Queued
<1> HIDE DEF h
<1>7. ASSUME ~troubled, NEW e \in Effects \cap (live \cup {c})
      PROVE  EffectFit(source, h, batched, ActivationsOf(stack', e), observed[e], e)
  <2>1. CASE e = c
    <3>1. Queued(h, c) /\ c \in h.forceRun
      BY <1>5, <1>6
    <3> QED  BY <2>1, <3>1 DEF EffectFit
  <2>2. CASE e # c
    <3>1. EffectFit(source, graph, batched, ActivationsOf(stack, e), observed[e], e)
      BY <1>7, <2>2 DEF Heard, EffectsFit
    <3>2. /\ \A m : \A v : Holds(source, graph, m, v) => Holds(source, h, m, v)
          /\ \A m : Cached(graph, m) => Cached(h, m)
      BY <1>5 DEF Holds, Cached
    <3>3. \A f \in ActivationsOf(stack, e) : f.op # "flush" /\ f.node = e
      BY ActivationsAre
    <3>4. EffectFit(source, h, batched, ActivationsOf(stack, e), observed[e], e)
      BY <1>5, <1>6, <2>2, <3>1, <3>2, <3>3, EffectKept
    <3> QED  BY <1>3, <3>4
  <2> QED  BY <2>1, <2>2
<1> QED  BY <1>1, <1>3, <1>7 DEF Heard, EffectsFit, h

LEMMA DisposeHeard == ASSUME Shaped, Heard, NEW n \in Nodes, Dispose(n) PROVE Heard'
<1>1. /\ live' = live \ {n} /\ graph' = Detached(MarkedReaders(graph, n), n)
      /\ observed' = [e \in Effects |-> IF e = n THEN <<>> ELSE observed[e]]
      /\ troubled' = (troubled \/ n \notin Effects)
      /\ UNCHANGED <<source, batching, batched, stack>>
  BY DEF Dispose
<1>2. observed' \in [Effects -> Histories]
  <2>1. <<>> \in Histories
    <3>1. <<>> \in [1 .. 0 -> Values] /\ 0 \in 0 .. MaxReads
      BY BoundsAssumption
    <3> QED  BY <3>1 DEF Histories
  <2>2. observed \in [Effects -> Histories]
    BY DEF Heard
  <2> QED  BY <1>1, <2>1, <2>2
<1> SUFFICES ASSUME ~troubled, n \in Effects
             PROVE  /\ Sources \cup Slots \subseteq live \ {n}
                    /\ graph'.pending # <<>> => HasFlush(stack) \/ batching
                    /\ EffectsFit(live \ {n}, source, graph', batched, stack, observed')
  BY <1>1, <1>2 DEF Heard
<1> DEFINE h == graph'
<1>3. h = Detached(graph, n)
  BY <1>1 DEF MarkedReaders
<1>4. GraphOK(graph, live) /\ graph \in Graphs
  BY DEF Shaped, GraphOK
<1>5. /\ h.slot = graph.slot
      /\ \A d \in Readers : d # n /\ n \notin ToSet(graph.deps[d]) => h.deps[d] = graph.deps[d]
  BY <1>3, <1>4, DetachedOK
<1>6. h.pending = graph.pending /\ h.forceRun = graph.forceRun \ {n}
  BY <1>3, <1>4 DEF Detached, Graphs
<1> HIDE DEF h
<1>7. ASSUME NEW e \in Effects \cap (live \ {n})
      PROVE  EffectFit(source, h, batched, ActivationsOf(stack, e), observed'[e], e)
  <2>1. EffectFit(source, graph, batched, ActivationsOf(stack, e), observed[e], e)
    BY DEF Heard, EffectsFit
  <2>2. h.deps[e] = graph.deps[e]
    <3>1. n \notin ToSet(graph.deps[e]) /\ e # n /\ e \in Readers
      BY <1>4, EffectEdges, KindsAssumption
    <3> QED  BY <1>5, <3>1
  <2>3. /\ \A m : \A v : Holds(source, graph, m, v) => Holds(source, h, m, v)
        /\ \A m : Cached(graph, m) => Cached(h, m)
    BY <1>5 DEF Holds, Cached
  <2>4. \A f \in ActivationsOf(stack, e) : f.op # "flush" /\ f.node = e
    BY ActivationsAre
  <2>5. Queued(graph, e) <=> Queued(h, e)
    BY <1>6 DEF Queued
  <2>6. EffectFit(source, h, batched, ActivationsOf(stack, e), observed[e], e)
    BY <1>6, <2>1, <2>2, <2>3, <2>4, <2>5, EffectKept
  <2> QED  BY <1>1, <2>6
<1>8. Sources \cup Slots \subseteq live \ {n}
  BY KindsAssumption DEF Heard
<1>9. graph'.pending # <<>> => HasFlush(stack) \/ batching
  BY <1>6 DEF Heard, h
<1> QED  BY <1>7, <1>8, <1>9 DEF EffectsFit, h

LEMMA HeardInit == Init => Heard
<1> SUFFICES ASSUME Init PROVE Heard
  OBVIOUS
<1>1. <<>> \in Histories
  <2>1. <<>> \in [1 .. 0 -> Values] /\ 0 \in 0 .. MaxReads
    BY BoundsAssumption
  <2> QED  BY <2>1 DEF Histories
<1>2. live = Sources \cup Slots /\ observed = [e \in Effects |-> <<>>] /\ graph.pending = <<>>
  BY DEF Init
<1>3. Effects \cap live = {} /\ observed \in [Effects -> Histories]
  BY <1>1, <1>2, KindsAssumption
<1> QED  BY <1>2, <1>3 DEF Heard, EffectsFit

(* A value is stored: effects that read it are forced, what they read      *)
(* otherwise is as cached as before.                                       *)
LEMMA StoreHeard ==
  ASSUME GraphOK(graph, live), NEW n \in Slots, NEW v \in Values, NEW h \in Store(graph, n, v),
         \A c \in Slots : Cached(graph, c) => Cached(h, c),
         EffectsFit(live, source, graph, batched, stack, observed)
  PROVE  EffectsFit(live, source, h, batched, stack, observed)
<1> DEFINE k == Put(graph, n, Held(v))
           roots == graph.dependents[n]
           changed == graph.slot[n].has /\ graph.slot[n].value # v
<1>1. /\ GraphOK(k, live) /\ GraphOK(h, live)
      /\ k.deps = graph.deps /\ k.dependents = graph.dependents /\ k.slot[n] = Held(v)
      /\ \A m \in Slots : m # n => k.slot[m] = graph.slot[m]
      /\ IF changed THEN h \in Invalidated(k, roots) /\ MarkedFrom(k, h, roots) ELSE h = k
  BY StoreParts
<1>2. k.pending = graph.pending /\ k.forceRun = graph.forceRun /\ roots \in SUBSET Readers /\ k \in Graphs
  BY <1>1 DEF Put, GraphOK, Graphs
<1> HIDE DEF k, roots, changed
<1>3. /\ \A e \in Effects : Queued(graph, e) => Queued(h, e)
      /\ graph.forceRun \subseteq h.forceRun
      /\ \A e \in Effects : e \in h.forceRun => e \in graph.forceRun \/ Queued(h, e)
      /\ changed => roots \cap Effects \subseteq h.forceRun
  <2>1. CASE ~changed
    BY <1>1, <1>2, <2>1 DEF Queued
  <2>2. CASE changed
    <3>1. /\ \A e \in Effects : Queued(h, e) <=> Queued(k, e) \/ e \in Reached(k, roots)
          /\ h.forceRun = k.forceRun \cup (roots \cap Effects)
      BY <1>1, <1>2, <2>2, InvalidatedQueue
    <3>2. roots \subseteq Reached(k, roots)
      BY ReachedParts
    <3> QED  BY <1>2, <3>1, <3>2 DEF Queued
  <2> QED  BY <2>1, <2>2
<1>4. /\ h.deps = graph.deps /\ k.slot[n].has /\ k.slot[n].value = v
      /\ \A m \in Slots : h.slot[m].has = k.slot[m].has /\ h.slot[m].value = k.slot[m].value
  BY <1>1 DEF MarkedFrom, Held
<1>5. \A m \in Sources \cup Slots : \A x : (m = n => ~changed) /\ Holds(source, graph, m, x) => Holds(source, h, m, x)
  BY <1>1, <1>4 DEF Holds, changed
<1> SUFFICES ASSUME NEW e \in Effects \cap live
             PROVE  EffectFit(source, h, batched, ActivationsOf(stack, e), observed[e], e)
  BY DEF EffectsFit
<1>6. EffectFit(source, graph, batched, ActivationsOf(stack, e), observed[e], e)
  BY DEF EffectsFit
<1>7. \A f \in ActivationsOf(stack, e) : f.op # "flush" /\ f.node = e
  BY ActivationsAre
<1>8. e \notin h.forceRun => \A m \in ToSet(graph.deps[e]) : \A x :
        m \in batched \/ Holds(source, graph, m, x) => m \in batched \/ Holds(source, h, m, x)
  <2> SUFFICES ASSUME e \notin h.forceRun, NEW m \in ToSet(graph.deps[e]), NEW x, Holds(source, graph, m, x)
               PROVE  Holds(source, h, m, x)
    OBVIOUS
  <2>1. m \in Sources \cup Slots /\ e \in graph.dependents[m]
    BY EffectEdges DEF GraphOK, Mirror, Readers
  <2>2. m = n => ~changed
    BY <1>3, <2>1 DEF roots
  <2> QED  BY <1>5, <2>1, <2>2
<1>9. /\ h.deps[e] = graph.deps[e]
      /\ \A m \in ToSet(graph.deps[e]) \cap Slots : Cached(graph, m) => Cached(h, m) \/ Queued(h, e)
  BY <1>4
<1> QED  BY <1>3, <1>6, <1>7, <1>8, <1>9, EffectKept

(* With no flush under way no effect waits for what is stored: it would    *)
(* not have cached dependencies otherwise.                                 *)
LEMMA StoreQuiet ==
  ASSUME NEW height, Fit(height),
         GraphOK(graph, live), NEW n \in Slots, NEW v \in Values, NEW h \in Store(graph, n, v),
         ~Cached(graph, n), StackOK(graph, live, stack), ~HasFlush(stack), graph.pending = <<>>,
         EffectsFit(live, source, graph, batched, stack, observed)
  PROVE  h.pending = <<>>
<1> DEFINE k == Put(graph, n, Held(v))
           roots == graph.dependents[n]
           changed == graph.slot[n].has /\ graph.slot[n].value # v
<1>1. /\ GraphOK(k, live) /\ k.dependents = graph.dependents
      /\ IF changed THEN h \in Invalidated(k, roots) /\ MarkedFrom(k, h, roots) ELSE h = k
  BY StoreParts
<1>2. k.pending = graph.pending /\ roots \in SUBSET Readers /\ k \in Graphs
  BY <1>1 DEF Put, GraphOK, Graphs
<1> HIDE DEF k, changed
<1>3. CASE ~changed
  BY <1>1, <1>2, <1>3
<1>4. CASE changed
  <2>1. ASSUME NEW e \in Effects PROVE ActivationsOf(stack, e) = {}
    <3> SUFFICES ASSUME NEW i \in DOMAIN stack, OfEffect(stack[i]) PROVE FALSE
      BY DEF ActivationsOf
    <3>1. i # 1 /\ stack \in Seq(Frames)
      BY DEF StackOK
    <3>2. i - 1 \in DOMAIN stack /\ i > 1
      BY <3>1
    <3>3. PairOK(graph, stack[i - 1], stack[i])
      BY <3>2 DEF StackOK
    <3> QED  BY <3>2, <3>3 DEF PairOK, HasFlush
  <2>2. \A e \in Effects : ~Queued(graph, e)
    BY DEF Queued, ToSet
  <2>3. ASSUME NEW m \in Slots, ~Cached(graph, m), NEW c \in graph.dependents[m]
        PROVE  c \in Slots /\ ~Cached(graph, c)
    <3>1. c \in Readers /\ c \in live /\ m \in ToSet(graph.deps[c])
      BY DEF GraphOK, Graphs, Mirror
    <3>2. c \notin Effects
      <4> SUFFICES ASSUME c \in Effects PROVE FALSE
        OBVIOUS
      <4>1. EffectFit(source, graph, batched, {}, observed[c], c)
        BY <2>1, <3>1 DEF EffectsFit
      <4> QED  BY <2>2, <2>3, <3>1, <4>1 DEF EffectFit
    <3>3. c \in Slots
      BY <3>1, <3>2 DEF Readers
    <3> QED  BY <2>3, <3>1, <3>3 DEF Fit, SlotFit, CachedIfSlot
  <2> DEFINE R == {c \in Slots : ~Cached(graph, c)}
  <2>4. Below(k, roots, R) \subseteq R
    BY <1>1, <2>3 DEF Below
  <2>5. Reached(k, roots) \subseteq R
    <3>1. R \in SUBSET Slots
      OBVIOUS
    <3> HIDE DEF R, roots
    <3>2. Reached(k, roots) \subseteq Below(k, roots, R)
      BY <2>4, <3>1, ReachedWithin
    <3> QED  BY <2>4, <3>2
  <2>6. Reached(k, roots) \cap Effects = {}
    BY <2>5, KindsAssumption
  <2> HIDE DEF R, roots
  <2>7. h.pending = k.pending
    BY <1>1, <1>2, <1>4, <2>6, InvalidatedQueue
  <2> QED  BY <1>2, <2>7
<1> QED  BY <1>3, <1>4

LEMMA SlotReturnsHeard ==
  ASSUME NEW height \in [Slots -> Nat], Shaped, Fit(height), Heard, SlotReturns PROVE Heard'
<1> DEFINE n == Top.node
           v == Instruction.value
           changed == graph.slot[n].has /\ graph.slot[n].value # v
<1>1. /\ InBody /\ n \in Slots /\ Instruction = Body(n, Top.seen) /\ Instruction.do = "return"
      /\ changed \in BOOLEAN
  BY DEF SlotReturns, Instruction
<1>2. /\ stack # <<>> /\ StackOK(graph, live, stack) /\ GraphOK(graph, live)
      /\ stack \in Seq(Frames) /\ Top.op = "body" /\ Top.op # "flush" /\ v \in Values
      /\ Len(stack) \in DOMAIN stack /\ Top = stack[Len(stack)] /\ OfSlot(Top)
  BY <1>1, BodyOK, TopOK DEF OfSlot
<1>3. PICK h \in Store(graph, n, v) : graph' = h /\ stack' = Return(h, n, changed)
  BY DEF SlotReturns
<1>4. UNCHANGED <<source, live, batching, batched, observed, troubled>>
  BY DEF SlotReturns, Kept, Quietly
<1>5. ~Valid(graph, n) /\ ~Cached(graph, n)
  BY <1>1, <1>2 DEF Fit, StackFit, FrameFit, RunFit, Valid, Cached
<1>6. \A c \in Slots : /\ \A m \in ToSet(graph.deps[c]) : m \in Slots => height[m] < height[c]
                       /\ Cached(graph, c) => \A m \in ToSet(graph.deps[c]) : CachedIfSlot(graph, m)
  BY DEF Fit, SlotFit
<1>7. changed <=> graph.slot[n].has /\ graph.slot[n].value # v
  OBVIOUS
<1> HIDE DEF n, v, changed
<1>8. /\ GraphOK(h, live) /\ h.deps = graph.deps /\ h.slot[n].has
      /\ \A c \in Slots : c # n => h.slot[c].has = graph.slot[c].has /\ h.slot[c].busy = graph.slot[c].busy
      /\ \A c \in Slots : Cached(h, c) <=> Cached(graph, c) \/ c = n
  BY <1>1, <1>2, <1>3, <1>5, <1>6, <1>7, StoredFit
<1>9. StackOK(h, live, Front(stack))
  BY <1>2, <1>8, BelowUndisturbed DEF n
<1>10. Front(stack) # <<>> => Calls(h, Last(Front(stack)), n)
  <2>1. Front(stack) # <<>> => Calls(graph, Last(Front(stack)), n)
    BY <1>2, BelowCalls DEF n
  <2> QED  BY <1>8, <2>1 DEF Calls
<1> SUFFICES ASSUME ~troubled
             PROVE  /\ EffectsFit(live, source, h, batched, stack', observed)
                    /\ h.pending # <<>> => HasFlush(stack') \/ batching
  BY <1>3, <1>4 DEF Heard
<1>11. EffectsFit(live, source, graph, batched, stack, observed)
  BY DEF Heard
<1>12. EffectsFit(live, source, h, batched, stack, observed)
  BY <1>1, <1>2, <1>3, <1>8, <1>11, StoreHeard
<1>13. EffectsFit(live, source, h, batched, Return(h, n, changed), observed)
       /\ (HasFlush(Return(h, n, changed)) <=> HasFlush(stack))
  BY <1>1, <1>2, <1>8, <1>9, <1>10, <1>12, ReturnHeard
<1>14. ASSUME ~HasFlush(stack), ~batching PROVE h.pending = <<>>
  <2>1. graph.pending = <<>>
    BY <1>14 DEF Heard
  <2> QED  BY <1>1, <1>2, <1>3, <1>5, <1>11, <1>14, <2>1, StoreQuiet
<1> QED  BY <1>3, <1>13, <1>14

LEMMA HeardStep ==
  ASSUME NEW height \in [Slots -> Nat], Shaped, Fit(height), Heard, [Next]_vars PROVE Heard'
<1>1. CASE UNCHANGED vars
  BY <1>1 DEF vars, Heard
<1>2. CASE BatchStart
  BY <1>2 DEF BatchStart, Heard
<1> QED  BY <1>1, <1>2, ScanDependencyHeard, ScanDoneHeard, BodyReadsHeard, BodyThrowsHeard, SlotReturnsHeard,
            EffectReturnsHeard, BodyWritesHeard, FlushNextHeard, SetHeard, GetHeard, BatchEndHeard,
            CreateEffectHeard, DisposeHeard DEF Next

(* Until a call throws or a node that is read goes: at every step of a     *)
(* call each effect is queued, or being looked after, or has heard of all  *)
(* there is to hear.                                                       *)
THEOREM EffectsAlwaysHeard ==
  ASSUME NEW height \in [Slots -> Nat], ReadsUpwards(height)
  PROVE  Spec => []Heard
<1>1. Init => Heard
  BY HeardInit
<1>2. Shaped /\ Fit(height) /\ Heard /\ [Next]_vars => Heard'
  BY HeardStep
<1>3. Spec => []Fit(height)
  BY AlwaysFit
<1> QED  BY <1>1, <1>2, <1>3, AlwaysShaped, PTL DEF Spec

(* Between calls: no flush, no activation, nothing queued and nothing      *)
(* forced is left, so what an effect was told is what is the case.         *)
LEMMA HeardIsCurrent ==
  ASSUME Shaped, Heard, CacheIsFresh
  PROVE  EffectsAreCurrent
<1> SUFFICES ASSUME stack = <<>>, ~batching, ~troubled, NEW e \in Effects \cap live
             PROVE  observed[e] = Replay(e, Fresh)
  BY DEF EffectsAreCurrent, Idle
<1> DEFINE seen == observed[e]
<1>1. graph.pending = <<>> /\ batched = {} /\ ActivationsOf(stack, e) = {}
  BY NoActivations DEF Heard, Shaped
<1>2. ~Queued(graph, e)
  BY <1>1 DEF Queued, ToSet
<1>3. EffectFit(source, graph, {}, {}, seen, e)
  BY <1>1 DEF Heard, EffectsFit
<1> HIDE DEF seen
<1>4. Told(source, graph, {}, e, seen) /\ Body(e, seen).do = "return"
  BY <1>2, <1>3 DEF EffectFit
<1>5. ASSUME NEW m \in ToSet(graph.deps[e]), NEW x, Holds(source, graph, m, x)
      PROVE  ValueOf(m, Fresh) = x
  <2>1. m \in Sources \cup Slots /\ m \in live
    BY EffectEdges DEF Shaped, GraphOK, Mirror, Readers
  <2>2. CASE m \in Sources
    BY <1>5, <2>1, <2>2 DEF Holds, ValueOf
  <2>3. CASE m \notin Sources
    <3>1. m \in Slots /\ Cached(graph, m)
      BY <1>2, <1>3, <2>1, <2>3 DEF EffectFit
    <3>2. graph.slot[m].value = Fresh[m]
      BY <2>1, <3>1 DEF CacheIsFresh
    <3> QED  BY <1>5, <2>1, <2>3, <3>2 DEF Holds, ValueOf
  <2> QED  BY <2>2, <2>3
<1>6. \A p \in 1 .. Len(seen) :
        LET i == Body(e, Upto(seen, p - 1)) IN
        \/ i.do = "read" /\ ValueOf(i.node, Fresh) = seen[p]
        \/ i.do = "set" /\ i.value = seen[p]
  BY <1>4, <1>5 DEF Told
<1>7. seen \in Histories
  BY DEF Heard, seen
<1>8. Replay(e, Fresh) = seen
  BY <1>4, <1>6, <1>7, ReplayFollows
<1> QED  BY <1>8 DEF seen

(* For bodies of slots that read upwards: between calls, outside a batch,  *)
(* every effect has last run on what a computation from scratch would give *)
(* it, writes of its own and of other effects included, until some call    *)
(* has thrown or a node that is read was disposed.                         *)
THEOREM EffectsAlwaysCurrent ==
  ASSUME NEW height \in [Slots -> 0 .. Cardinality(Slots) - 1], ReadsUpwards(height)
  PROVE  Spec => []EffectsAreCurrent
<1>1. height \in [Slots -> Nat]
  BY KindsAssumption, FS_CardinalityType
<1>2. Spec => []Heard
  BY <1>1, EffectsAlwaysHeard
<1>3. Spec => []CacheIsFresh
  BY CacheAlwaysFresh
<1>4. Shaped /\ Heard /\ CacheIsFresh => EffectsAreCurrent
  BY HeardIsCurrent
<1> QED  BY <1>2, <1>3, <1>4, AlwaysShaped, PTL
=============================================================================
