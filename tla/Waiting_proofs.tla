--------------------------- MODULE Waiting_proofs ---------------------------
(***************************************************************************)
(* Theorems about those who wait: the bodies and callers that await a      *)
(* compute of AsyncGraph, the realms parked on the word of SharedMutex, and *)
(* the calls that race for a handle of SharedKeyedMap.                     *)
(*                                                                         *)
(* AsyncGraph.  The invariant has two halves.  Waiting: whoever awaits a   *)
(* compute awaits the one its slot names now, and a slot that is computing *)
(* has a compute that runs and may publish.  Fitting: a resolved slot and  *)
(* a body that may publish hold the current versions of exactly the        *)
(* sources behind what they have read, and what they have read has an edge *)
(* to them.  A change empties the cone of its dependents; as the cone is   *)
(* closed under edges, what is outside it read nothing that changed.       *)
(*                                                                         *)
(* SharedMutex.  A realm is inside exactly while it holds a depth, alone,  *)
(* and it is in the queue exactly while it is parked.                      *)
(*                                                                         *)
(* SharedKeyedMap.  Whatever a call was given, or is about to give, since  *)
(* its key was last removed, is what the map has.                          *)
(***************************************************************************)
EXTENDS AsyncGraph, FiniteSetTheorems, SequenceTheorems, WellFoundedInduction, TLAPS

CONSTANTS Realms, Workers, MaxDepth, Keys, MaxNodes, MaxCalls, MaxVersion
VARIABLES word, depth, pc, parked,
          order, entries, nodes, mapVersion, orderVersion, membership, orderSignal, calls, returned, era

Mutex == INSTANCE SharedMutex
Shared == INSTANCE SharedKeyedMap WITH version <- mapVersion

-----------------------------------------------------------------------------
(* Growing sets, and what is reached in them. *)

(* A set of naturals that is not empty has a least one. *)
LEMMA LeastNatural ==
  ASSUME NEW S \in SUBSET Nat, S # {}
  PROVE  \E n \in S : \A m \in S : n <= m
<1> DEFINE R == {ss \in Nat \X Nat : ss[1] < ss[2]}
<1>1. R = OpToRel(<, Nat)
  BY Zenon DEF OpToRel
<1>2. IsWellFoundedOn(R, Nat)
  BY <1>1, NatLessThanWellFounded
<1> HIDE DEF R
<1>3. PICK n \in S : \A m \in S : <<m, n>> \notin R
  BY <1>2, WFMin, Zenon
<1>4. ASSUME NEW m \in S
      PROVE  n <= m
  <2>1. <<m, n>> \notin {ss \in Nat \X Nat : ss[1] < ss[2]}
    BY <1>3 DEF R
  <2>2. <<m, n>> \in Nat \X Nat
    OBVIOUS
  <2>3. ~(<<m, n>>[1] < <<m, n>>[2])
    BY <2>1, <2>2, Zenon
  <2> QED  BY <2>3
<1> QED  BY <1>4

(* Induction over the naturals, with the predicate as a set. *)
LEMMA Induction ==
  ASSUME NEW S, 0 \in S, \A n \in Nat : n \in S => n + 1 \in S
  PROVE  Nat \subseteq S
<1>1. SUFFICES ASSUME ~(Nat \subseteq S)
               PROVE  FALSE
  OBVIOUS
<1>2. PICK n \in Nat \ S : \A m \in Nat \ S : n <= m
  BY <1>1, LeastNatural
<1>3. n # 0 /\ n - 1 \in Nat /\ n - 1 \in S
  BY <1>2
<1> QED  BY <1>2, <1>3

(* What a set grows to when next is applied to it again and again. *)
IsChain(f, root, next, N) ==
  /\ DOMAIN f = 0 .. N /\ f[0] = root
  /\ \A k \in 1 .. N : f[k] = next[f[k - 1]]

(* A function of any natural length can be built step by step. *)
LEMMA ChainExists ==
  ASSUME NEW T, NEW root \in T, NEW next \in [T -> T], NEW N \in Nat
  PROVE  \E f \in [0 .. N -> T] : IsChain(f, root, next, N)
<1> DEFINE Good == {n \in Nat : \E f \in [0 .. n -> T] : IsChain(f, root, next, n)}
<1>1. 0 \in Good
  <2> DEFINE f == [k \in 0 .. 0 |-> root]
  <2>1. f \in [0 .. 0 -> T] /\ IsChain(f, root, next, 0)
    BY DEF IsChain
  <2> QED  BY <2>1
<1>2. ASSUME NEW n \in Nat, n \in Good
      PROVE  n + 1 \in Good
  <2>1. PICK f \in [0 .. n -> T] : IsChain(f, root, next, n)
    BY <1>2
  <2> DEFINE g == [k \in 0 .. n + 1 |-> IF k \in 0 .. n THEN f[k] ELSE next[f[n]]]
  <2>2. f[n] \in T /\ next[f[n]] \in T
    OBVIOUS
  <2>3. g \in [0 .. n + 1 -> T] /\ g[0] = root
    <3>1. \A k \in 0 .. n + 1 : g[k] \in T
      BY <2>2
    <3>2. 0 \in 0 .. n /\ 0 \in 0 .. n + 1
      OBVIOUS
    <3> QED  BY <2>1, <3>1, <3>2 DEF IsChain
  <2>4. ASSUME NEW k \in 1 .. n + 1
        PROVE  g[k] = next[g[k - 1]]
    <3>1. k - 1 \in 0 .. n /\ k - 1 \in 0 .. n + 1 /\ k \in 0 .. n + 1
      OBVIOUS
    <3>2. g[k - 1] = f[k - 1]
      BY <3>1
    <3>3. CASE k \in 1 .. n
      <4>1. k \in 0 .. n
        BY <3>3
      <4>2. g[k] = f[k]
        BY <3>1, <4>1
      <4> QED  BY <2>1, <3>2, <3>3, <4>2 DEF IsChain
    <3>4. CASE k = n + 1
      <4>1. k \notin 0 .. n /\ k - 1 = n
        BY <3>4
      <4> QED  BY <3>1, <3>2, <4>1
    <3>5. k \in 1 .. n \/ k = n + 1
      OBVIOUS
    <3> QED  BY <3>3, <3>4, <3>5
  <2>5. DOMAIN g = 0 .. n + 1 /\ n + 1 \in Nat
    OBVIOUS
  <2> HIDE DEF g
  <2>6. IsChain(g, root, next, n + 1)
    BY <2>3, <2>4, <2>5 DEF IsChain
  <2> QED  BY <2>3, <2>5, <2>6
<1> HIDE DEF Good
<1>3. N \in Good
  BY <1>1, <1>2, Induction
<1> QED  BY <1>3 DEF Good

(* A set that grows along the members of D it has, for as many rounds as D  *)
(* has members: it is closed then, and within any closed set.              *)
IsGrowth(f, root, D, along, N) ==
  /\ f[0] = root
  /\ \A k \in 1 .. N : f[k] = f[k - 1] \cup UNION {along[m] : m \in f[k - 1] \cap D}

(* After as many rounds as D has members the set is closed: each round that  *)
(* is not the last brings in a new member of D.                              *)
LEMMA GrowthCloses ==
  ASSUME NEW D, IsFiniteSet(D), NEW N \in Nat, N >= Cardinality(D),
         NEW root, NEW along, NEW f, IsGrowth(f, root, D, along, N)
  PROVE  /\ root \subseteq f[N]
         /\ \A m \in f[N] \cap D : along[m] \subseteq f[N]
         /\ \A G : root \subseteq G /\ (\A m \in G \cap D : along[m] \subseteq G) => f[N] \subseteq G
<1> DEFINE Closed(S) == \A m \in S \cap D : along[m] \subseteq S
           Good == {k \in Nat : k <= N =>
                      /\ root \subseteq f[k]
                      /\ Closed(f[k]) \/ Cardinality(f[k] \cap D) >= k + 1
                      /\ \A G : root \subseteq G /\ Closed(G) => f[k] \subseteq G}
<1>0. \A S : IsFiniteSet(S \cap D) /\ Cardinality(S \cap D) \in Nat /\ Cardinality(S \cap D) <= Cardinality(D)
  <2> SUFFICES ASSUME NEW S PROVE IsFiniteSet(S \cap D) /\ Cardinality(S \cap D) \in Nat
                                  /\ Cardinality(S \cap D) <= Cardinality(D)
    OBVIOUS
  <2>1. S \cap D \in SUBSET D
    OBVIOUS
  <2>2. IsFiniteSet(S \cap D) /\ Cardinality(S \cap D) <= Cardinality(D)
    BY <2>1, FS_Subset
  <2> QED  BY <2>2, FS_CardinalityType
<1>1. 0 \in Good
  <2>1. f[0] = root
    BY DEF IsGrowth
  <2>2. ASSUME ~Closed(root) PROVE Cardinality(root \cap D) >= 1
    <3>1. root \cap D # {}
      BY <2>2
    <3> QED  BY <1>0, <3>1, FS_EmptySet
  <2> QED  BY <2>1, <2>2
<1>2. ASSUME NEW k \in Nat, k \in Good
      PROVE  k + 1 \in Good
  <2> SUFFICES ASSUME k + 1 <= N
               PROVE  /\ root \subseteq f[k + 1]
                      /\ Closed(f[k + 1]) \/ Cardinality(f[k + 1] \cap D) >= k + 1 + 1
                      /\ \A G : root \subseteq G /\ Closed(G) => f[k + 1] \subseteq G
    OBVIOUS
  <2>1. k <= N /\ k + 1 \in 1 .. N /\ k + 1 - 1 = k
    OBVIOUS
  <2> DEFINE S == f[k]
             T == f[k + 1]
  <2>2. T = S \cup UNION {along[m] : m \in S \cap D}
    BY <2>1 DEF IsGrowth
  <2>3. /\ root \subseteq S
        /\ Closed(S) \/ Cardinality(S \cap D) >= k + 1
        /\ \A G : root \subseteq G /\ Closed(G) => S \subseteq G
    BY <1>2, <2>1
  <2> HIDE DEF S, T, Good
  <2>4. root \subseteq T /\ \A G : root \subseteq G /\ Closed(G) => T \subseteq G
    BY <2>2, <2>3
  <2>5. CASE Closed(S)
    <3>1. T = S
      BY <2>2, <2>5
    <3> QED  BY <2>4, <2>5, <3>1 DEF T
  <2>6. CASE ~Closed(S)
    <3>1. CASE T \cap D = S \cap D
      <4>1. Closed(T)
        BY <2>2, <3>1
      <4> QED  BY <2>4, <4>1 DEF T
    <3>2. CASE T \cap D # S \cap D
      <4>1. S \cap D \subseteq T \cap D
        BY <2>2
      <4>2. IsFiniteSet(T \cap D) /\ Cardinality(T \cap D) \in Nat /\ Cardinality(S \cap D) \in Nat
        BY <1>0
      <4>3. Cardinality(S \cap D) < Cardinality(T \cap D)
        <5>1. Cardinality(S \cap D) <= Cardinality(T \cap D) /\
              (Cardinality(S \cap D) = Cardinality(T \cap D) => S \cap D = T \cap D)
          BY <4>1, <4>2, FS_Subset
        <5> QED  BY <3>2, <4>2, <5>1
      <4>4. Cardinality(T \cap D) >= k + 1 + 1
        BY <2>3, <2>6, <4>2, <4>3
      <4> QED  BY <2>4, <4>4 DEF T
    <3> QED  BY <3>1, <3>2
  <2> QED  BY <2>5, <2>6
<1>3. N \in Good
  <2> HIDE DEF Good
  <2> QED  BY <1>1, <1>2, Induction
<1>4. ~(Cardinality(f[N] \cap D) >= N + 1)
  <2>1. /\ Cardinality(f[N] \cap D) \in Nat /\ Cardinality(D) \in Nat
        /\ Cardinality(f[N] \cap D) <= Cardinality(D)
    BY <1>0, FS_CardinalityType
  <2> QED  BY <2>1
<1> QED  BY <1>3, <1>4

(* Values: of each source, the versions that went into one. *)
NoResults == [Sources -> SUBSET Nat]

(* The types of what the nodes hold. *)
SlotsTyped ==
  /\ version \in [Sources -> Nat]
  /\ slot \in [Slots -> [alive : BOOLEAN, state : {"empty", "computing", "resolved", "error"},
                         value : NoResults, revision : Nat, spawns : 0 .. MaxSpawns]]
  /\ dependents \in [Nodes -> SUBSET (Slots \cup Effects)]
  /\ inflight \in [Slots -> Computes \cup {None}]

(* The cascade reaches whatever hangs from what it has reached. *)
LEMMA ConeCloses ==
  ASSUME SlotsTyped, NEW roots \in SUBSET (Slots \cup Effects)
  PROVE  /\ roots \subseteq Cone(roots)
         /\ Cone(roots) \subseteq Slots \cup Effects
         /\ \A n \in Cone(roots) \cap Slots : dependents[n] \subseteq Cone(roots)
<1> DEFINE N == Cardinality(Slots)
           T == SUBSET (Slots \cup Effects)
           next == [S \in T |-> S \cup UNION {dependents[n] : n \in S \cap Slots}]
           Body(g) == [k \in 0 .. N |->
                         IF k = 0 THEN roots
                         ELSE g[k - 1] \cup UNION {dependents[n] : n \in g[k - 1] \cap Slots}]
           reach == CHOOSE g : g = Body(g)
<1>1. Cone(roots) = reach[N]
  BY Zenon DEF Cone
<1>2. N \in Nat /\ IsFiniteSet(Slots)
  BY GraphAssumption, FS_CardinalityType DEF Nodes
<1>3. \A n \in Slots : dependents[n] \in T
  BY DEF SlotsTyped, Nodes
<1>4. next \in [T -> T]
  BY <1>3
<1>5. PICK f \in [0 .. N -> T] : IsChain(f, roots, next, N)
  <2> HIDE DEF N, T, next
  <2>1. roots \in T
    BY DEF T
  <2> QED  BY <1>2, <1>4, <2>1, ChainExists
<1>6. f = Body(f)
  <2>1. ASSUME NEW k \in 0 .. N
        PROVE  f[k] = Body(f)[k]
    <3>1. CASE k = 0
      BY <1>5, <3>1 DEF IsChain
    <3>2. CASE k # 0
      <4>1. k \in 1 .. N /\ k - 1 \in 0 .. N
        BY <3>2, <1>2
      <4>2. f[k] = next[f[k - 1]] /\ f[k - 1] \in T
        BY <1>5, <4>1 DEF IsChain
      <4> QED  BY <3>2, <4>1, <4>2
    <3> QED  BY <3>1, <3>2
  <2>2. DOMAIN Body(f) = 0 .. N /\ DOMAIN f = 0 .. N
    BY <1>5
  <2> QED  BY <1>5, <2>1, <2>2
<1>7. reach = Body(reach)
  <2> HIDE DEF Body
  <2> QED  BY <1>6, Zenon
<1> HIDE DEF reach
<1>8. IsGrowth(reach, roots, Slots, dependents, N)
  <2>1. ASSUME NEW k \in 0 .. N
        PROVE  reach[k] = IF k = 0 THEN roots
                          ELSE reach[k - 1] \cup UNION {dependents[n] : n \in reach[k - 1] \cap Slots}
    BY <1>7, Zenon
  <2>2. 0 \in 0 .. N /\ \A k \in 1 .. N : k \in 0 .. N /\ k # 0
    BY <1>2
  <2> HIDE DEF N
  <2> QED  BY <2>1, <2>2 DEF IsGrowth
<1> DEFINE C == reach[N]
<1>9. /\ roots \subseteq C
      /\ \A m \in C \cap Slots : dependents[m] \subseteq C
      /\ \A G : roots \subseteq G /\ (\A m \in G \cap Slots : dependents[m] \subseteq G) => C \subseteq G
  <2> HIDE DEF N
  <2>1. N >= Cardinality(Slots)
    BY <1>2 DEF N
  <2> QED  BY <1>2, <1>8, <2>1, GrowthCloses
<1>10. C \subseteq Slots \cup Effects
  <2> HIDE DEF C
  <2> QED BY <1>3, <1>9
<1> QED  BY <1>1, <1>9, <1>10

(* What a slot is computed from: the least set of sources that holds the   *)
(* sources its body reads and those of the slots it reads.                 *)
Below(n, G) == n \in G /\ \A m \in G \cap Slots : \A i \in 1 .. Len(Reads[m]) : Reads[m][i] \in G

(* That is what Origins computes. *)
LEMMA OriginsAre ==
  ASSUME NEW n \in Slots
  PROVE  \E O \in SUBSET Nodes :
           /\ Origins(n) = O \cap Sources /\ Below(n, O)
           /\ \A G : Below(n, G) => O \subseteq G
<1> DEFINE N == Cardinality(Slots) + 1
           T == SUBSET Nodes
           read == [m \in Slots |-> {Reads[m][i] : i \in DOMAIN Reads[m]}]
           next == [S \in T |-> S \cup UNION {{Reads[m][i] : i \in DOMAIN Reads[m]} : m \in S \ Sources}]
           Body(g) == [k \in 0 .. N |->
                         IF k = 0 THEN {n}
                         ELSE g[k - 1] \cup
                              UNION {{Reads[m][i] : i \in DOMAIN Reads[m]} : m \in g[k - 1] \ Sources}]
           origin == CHOOSE g : g = Body(g)
<1>1. Origins(n) = origin[N] \cap Sources
  BY Zenon DEF Origins
<1>2. N \in Nat /\ IsFiniteSet(Slots) /\ N >= Cardinality(Slots)
  BY GraphAssumption, FS_CardinalityType DEF Nodes
<1>3. ASSUME NEW S \in T
      PROVE  S \ Sources = S \cap Slots
  BY GraphAssumption DEF Nodes
<1>4. ASSUME NEW m \in Slots
      PROVE  /\ DOMAIN Reads[m] = 1 .. Len(Reads[m])
             /\ \A i \in DOMAIN Reads[m] : Reads[m][i] \in Nodes
  <2>1. Reads[m] \in Seq(Sources \cup Slots)
    BY GraphAssumption DEF Nodes
  <2> QED  BY <2>1 DEF Nodes
<1>5. next \in [T -> T]
  BY <1>3, <1>4
<1>6. PICK f \in [0 .. N -> T] : IsChain(f, {n}, next, N)
  <2>1. {n} \in T
    BY DEF Nodes
  <2> HIDE DEF N, T, next
  <2> QED  BY <1>2, <1>5, <2>1, ChainExists
<1>7. f = Body(f)
  <2>1. ASSUME NEW k \in 0 .. N
        PROVE  f[k] = Body(f)[k]
    <3>1. CASE k = 0
      BY <1>6, <3>1 DEF IsChain
    <3>2. CASE k # 0
      <4>1. k \in 1 .. N /\ k - 1 \in 0 .. N
        BY <3>2, <1>2
      <4>2. f[k] = next[f[k - 1]] /\ f[k - 1] \in T
        BY <1>6, <4>1 DEF IsChain
      <4> QED  BY <3>2, <4>1, <4>2
    <3> QED  BY <3>1, <3>2
  <2>2. DOMAIN Body(f) = 0 .. N /\ DOMAIN f = 0 .. N
    BY <1>6
  <2> QED  BY <1>6, <2>1, <2>2
<1>8. origin = Body(origin)
  <2> HIDE DEF Body
  <2> QED  BY <1>7, Zenon
<1> HIDE DEF origin
<1>9. ASSUME NEW k \in 0 .. N
      PROVE  origin[k] = IF k = 0 THEN {n}
                         ELSE origin[k - 1] \cup
                              UNION {{Reads[m][i] : i \in DOMAIN Reads[m]} : m \in origin[k - 1] \ Sources}
  BY <1>8, Zenon
<1>10. 0 \in 0 .. N /\ \A k \in 1 .. N : k \in 0 .. N /\ k # 0 /\ k - 1 \in 0 .. N
  BY <1>2
<1>11. \A k \in 0 .. N : origin[k] \in T
  <2>0. ASSUME NEW k \in 1 .. N, origin[k - 1] \in T
        PROVE  origin[k] \in T
    <3>1. origin[k] = origin[k - 1] \cup
             UNION {{Reads[m][i] : i \in DOMAIN Reads[m]} : m \in origin[k - 1] \ Sources}
      BY <1>9, <1>10
    <3> QED  BY <2>0, <3>1, <1>3, <1>4
  <2> DEFINE Good == {k \in Nat : k <= N => origin[k] \in T}
  <2>1. 0 \in Good
    BY <1>9, <1>10 DEF Nodes
  <2>2. ASSUME NEW k \in Nat, k \in Good
        PROVE  k + 1 \in Good
    <3> SUFFICES ASSUME k + 1 <= N
                 PROVE  origin[k + 1] \in T
      OBVIOUS
    <3>1. origin[k] \in T /\ k + 1 \in 1 .. N /\ k + 1 - 1 = k
      BY <1>2, <2>2
    <3> HIDE DEF T, N
    <3> QED  BY <3>1, <2>0
  <2> HIDE DEF Good
  <2>3. Nat \subseteq Good
    BY <2>1, <2>2, Induction
  <2> QED  BY <2>3, <1>2 DEF Good
<1>12. IsGrowth(origin, {n}, Slots, read, N)
  <2>1. ASSUME NEW k \in 1 .. N
        PROVE  origin[k] = origin[k - 1] \cup UNION {read[m] : m \in origin[k - 1] \cap Slots}
    <3>1. origin[k - 1] \ Sources = origin[k - 1] \cap Slots
      BY <1>3, <1>10, <1>11
    <3>2. origin[k] = origin[k - 1] \cup
             UNION {{Reads[m][i] : i \in DOMAIN Reads[m]} : m \in origin[k - 1] \cap Slots}
      BY <1>9, <1>10, <3>1
    <3> QED  BY <3>2
  <2>2. origin[0] = {n}
    BY <1>9, <1>10
  <2> HIDE DEF N, read
  <2> QED  BY <2>1, <2>2 DEF IsGrowth
<1>13. /\ {n} \subseteq origin[N]
       /\ \A m \in origin[N] \cap Slots : read[m] \subseteq origin[N]
       /\ \A G : {n} \subseteq G /\ (\A m \in G \cap Slots : read[m] \subseteq G) => origin[N] \subseteq G
  <2> HIDE DEF N, read
  <2> QED  BY <1>2, <1>12, GrowthCloses
<1>14. \A G : Below(n, G) <=> {n} \subseteq G /\ \A m \in G \cap Slots : read[m] \subseteq G
  BY <1>4 DEF Below
<1>15. Below(n, origin[N]) /\ \A G : Below(n, G) => origin[N] \subseteq G
  <2> HIDE DEF N, read
  <2> QED BY <1>13, <1>14
<1>16. origin[N] \in SUBSET Nodes
  BY <1>2, <1>11
<1> QED  BY <1>1, <1>15, <1>16

-----------------------------------------------------------------------------
(* Who waits for whom. *)

(* Where a body can be. *)
Tasks == [phase : {"off", "loop", "run", "published", "returned"}, rev : Nat, read : Nat,
          value : NoResults, on : Computes \cup {None},
          event : {"none", "superseded", "error"}]

(* The types of what the bodies hold. *)
TasksTyped ==
  /\ task \in [Clients -> Tasks]
  /\ asked \in [Readers -> [Sources -> Nat]]

(* How far a body is: what it awaits is its next read. *)
Placed(c, u) ==
  /\ u.read \in 0 .. Len(Program(c))
  /\ u.event = "error" => u.on = None
  /\ u.on # None =>
       /\ u.phase = "run"
       /\ u.read < Len(Program(c))
       /\ Program(c)[u.read + 1] = u.on[1]
       /\ slot[u.on[1]].state = "computing"
       /\ u.on = Current(u.on[1])

(* The compute that a slot's token names is the one that may publish. *)
ComputeFit(t) ==
  /\ t[2] > slot[t[1]].spawns => task[t].phase = "off"
  /\ task[t].phase = "run" => task[t].rev <= slot[t[1]].revision
  /\ task[t].phase = "run" /\ MayPublish(t) => t = Current(t[1]) /\ slot[t[1]].state = "computing"

(* A slot that is computing has a compute that runs and may publish, so      *)
(* whoever waits for it is served.                                           *)
SlotFit(n) ==
  slot[n].state = "computing" =>
    /\ slot[n].alive /\ slot[n].spawns > 0
    /\ task[Current(n)].phase = "run" /\ task[Current(n)].rev = slot[n].revision

(* Whom a waiter waits for. *)
Waiting ==
  /\ SlotsTyped /\ TasksTyped
  /\ \A c \in Clients : Placed(c, task[c])
  /\ \A t \in Computes : ComputeFit(t)
  /\ \A n \in Slots : SlotFit(n)

(* What the constants give: who owns a body, and what it reads. *)
LEMMA Shapes ==
         /\ \A t \in Computes : /\ t \in Clients /\ t[1] \in Slots /\ t[2] \in 1 .. MaxSpawns
                                /\ t = <<t[1], t[2]>> /\ Owner(t) = t[1]
                                /\ t \notin Effects /\ t \notin Readers /\ t # None
         /\ \A e \in Effects \cup Readers : Owner(e) = e /\ e \notin Computes /\ e \in Clients
         /\ Effects \cap Readers = {} /\ Effects \cap Slots = {} /\ Sources \cap Slots = {}
         /\ Effects \cap Sources = {}
         /\ \A c \in Clients :
              /\ Program(c) \in Seq(Nodes) /\ Len(Program(c)) \in Nat
              /\ \A i \in 1 .. Len(Program(c)) : Program(c)[i] \in Nodes
         /\ \A n \in Slots :
              /\ Len(Reads[n]) \in Nat
              /\ \A i \in 1 .. Len(Reads[n]) : Reads[n][i] \in Nodes
         /\ \A c \in Clients : c \in Computes \/ c \in Effects \/ c \in Readers
<1>1. \A t \in Computes : /\ t \in Clients /\ t[1] \in Slots /\ t[2] \in 1 .. MaxSpawns
                          /\ t = <<t[1], t[2]>> /\ Owner(t) = t[1]
                          /\ t \notin Effects /\ t \notin Readers /\ t # None
  <2>1. \A t \in Computes : t \in Clients /\ Owner(t) = t[1] /\ t \notin Effects
                            /\ t \notin Readers /\ t # None
    BY GraphAssumption DEF Clients, Owner, Nodes
  <2> QED  BY <2>1 DEF Computes
<1>2. \A e \in Effects \cup Readers : Owner(e) = e /\ e \notin Computes /\ e \in Clients
  BY GraphAssumption DEF Nodes, Owner, Clients
<1>3. Effects \cap Readers = {} /\ Effects \cap Slots = {} /\ Sources \cap Slots = {}
         /\ Effects \cap Sources = {}
  BY GraphAssumption DEF Nodes
<1>4. \A c \in Clients : c \in Computes \/ c \in Effects \/ c \in Readers
  BY DEF Clients
<1>5. \A c \in Clients : Owner(c) \in Slots \cup Effects \cup Readers
  BY <1>1, <1>2, <1>4
<1>6. \A n \in Slots \cup Effects \cup Readers : Reads[n] \in Seq(Nodes)
  BY GraphAssumption DEF Nodes
<1>7. \A c \in Clients : Program(c) \in Seq(Nodes)
  BY <1>5, <1>6 DEF Program
<1>8. ASSUME NEW q \in Seq(Nodes)
      PROVE  Len(q) \in Nat /\ \A i \in 1 .. Len(q) : q[i] \in Nodes
  OBVIOUS
<1> QED  BY <1>1, <1>2, <1>3, <1>4, <1>6, <1>7, <1>8

(* A slot's token names the last compute spawned for it. *)
LEMMA CurrentIs ==
  ASSUME SlotsTyped
  PROVE  /\ \A n \in Slots : slot[n].spawns > 0 => Current(n) \in Computes
         /\ \A n \in Slots, t \in Computes : t = Current(n) <=> t[1] = n /\ t[2] = slot[n].spawns
         /\ \A n \in Slots : Current(n)[1] = n
<1>1. \A n \in Slots : slot[n].spawns \in 0 .. MaxSpawns /\ MaxSpawns \in Nat
  BY GraphAssumption DEF SlotsTyped, Nodes
<1>2. \A t \in Computes : t = <<t[1], t[2]>>
  BY Shapes
<1> QED  BY <1>1, <1>2 DEF Current, Computes

(* A waiter's compute is running and may still publish. *)
LEMMA AwaitedPublishes ==
  ASSUME Waiting, NEW c \in Clients, task[c].on # None
  PROVE  LET t == task[c].on IN
         /\ t \in Computes /\ task[t].phase = "run" /\ MayPublish(t)
         /\ t = Current(t[1]) /\ slot[t[1]].state = "computing"
<1> DEFINE t == task[c].on
<1>1. t \in Computes
  BY DEF Waiting, TasksTyped, Tasks
<1>2. t[1] \in Slots
  BY <1>1, Shapes
<1>3. t = Current(t[1]) /\ slot[t[1]].state = "computing"
  BY DEF Waiting, Placed
<1>4. SlotFit(t[1])
  BY <1>2 DEF Waiting
<1>5. task[t].phase = "run" /\ MayPublish(t)
  BY <1>3, <1>4 DEF SlotFit, MayPublish
<1> QED  BY <1>1, <1>3, <1>5

(* The first half of the invariant gives what is claimed of waiters. *)
LEMMA WaitingServes ==
  ASSUME Waiting
  PROVE  WaitersAreServed
BY AwaitedPublishes DEF WaitersAreServed

(* One body moves on and no slot changes. *)
LEMMA OneBodyMoves ==
  ASSUME Waiting, SlotsTyped', NEW c \in Clients, NEW u \in Tasks,
         slot' = slot, task' = [task EXCEPT ![c] = u],
         asked' \in [Readers -> [Sources -> Nat]],
         Placed(c, u),
         c \in Computes =>
           \/ u.phase = task[c].phase /\ u.rev = task[c].rev
           \/ u.phase = "off" /\ task[c].phase # "run"
  PROVE  Waiting'
<1>1. TasksTyped'
  BY DEF Waiting, TasksTyped
<1>2. task'[c] = u /\ \A d \in Clients : d # c => task'[d] = task[d]
  BY DEF Waiting, TasksTyped
<1>3. ASSUME NEW d \in Clients
      PROVE  Placed(d, task[d])'
  <2>1. Placed(d, task[d])
    BY DEF Waiting
  <2>2. d # c => task'[d] = task[d]
    BY <1>2
  <2> QED  BY <2>1, <2>2, <1>2 DEF Placed, Current, Program
<1>4. ASSUME NEW t \in Computes
      PROVE  \/ task'[t].phase = task[t].phase /\ task'[t].rev = task[t].rev
             \/ task'[t].phase = "off" /\ task[t].phase # "run"
  BY <1>2, <1>4, Shapes
<1>5. ASSUME NEW t \in Computes
      PROVE  ComputeFit(t)'
  <2>1. ComputeFit(t)
    BY DEF Waiting
  <2> QED  BY <1>4, <2>1 DEF ComputeFit, MayPublish, Current
<1>6. ASSUME NEW n \in Slots
      PROVE  SlotFit(n)'
  <2>1. SlotFit(n)
    BY DEF Waiting
  <2>2. slot[n].state = "computing" => Current(n) \in Computes
    BY <2>1, CurrentIs DEF SlotFit, Waiting
  <2> QED  BY <2>1, <2>2, <1>4 DEF SlotFit, Current
<1> QED  BY <1>1, <1>3, <1>5, <1>6 DEF Waiting

(* The fields of a body have their types. *)
LEMMA TaskParts ==
  ASSUME TasksTyped, NEW c \in Clients
  PROVE  /\ task[c] \in Tasks
         /\ task[c].read \in Nat /\ task[c].value \in NoResults
BY DEF TasksTyped, Tasks

(* Two values join to a value. *)
LEMMA JoinTyped ==
  ASSUME NEW u \in NoResults, NEW v \in NoResults
  PROVE  Join(u, v) \in NoResults
BY DEF Join, NoResults

(* A body that has read one node more is a body. *)
LEMMA ReadOn ==
  ASSUME NEW x \in Tasks, NEW w \in NoResults, NEW e \in {"none", x.event}
  PROVE  [x EXCEPT !.read = @ + 1, !.event = e, !.value = w] \in Tasks
<1>1. x.read + 1 \in Nat /\ e \in {"none", "superseded", "error"}
  BY DEF Tasks
<1>2. \A k \in Nat : \A f \in {"none", "superseded", "error"} :
        [x EXCEPT !.read = k, !.event = f, !.value = w] \in Tasks
  BY DEF Tasks
<1> QED  BY <1>1, <1>2, Zenon

(* A body that starts, and one at rest, is a body. *)
LEMMA FreshTasks ==
  ASSUME NEW rev \in Nat
  PROVE  IdleTask \in Tasks /\ RunningTask(rev) \in Tasks
<1>1. NoValue \in NoResults
  BY DEF NoValue, NoResults
<1> QED  BY <1>1 DEF IdleTask, RunningTask, Tasks

(* Edges are added only to live nodes, for the owner of the body. *)
LEMMA RegisterTyped ==
  ASSUME SlotsTyped, NEW c \in Clients, NEW n \in Nodes
  PROVE  /\ Register(dependents, c, n) \in [Nodes -> SUBSET (Slots \cup Effects)]
         /\ RegisterFirst(c, n) \in [Nodes -> SUBSET (Slots \cup Effects)]
         /\ \A m \in Nodes : dependents[m] \subseteq Register(dependents, c, n)[m]
         /\ \A m \in Nodes : dependents[m] \subseteq RegisterFirst(c, n)[m]
         /\ \A m \in Nodes : Register(dependents, c, n)[m] \subseteq dependents[m] \cup {Owner(c)}
         /\ c \in Computes /\ (n \in Slots => slot[n].alive) =>
              c[1] \in Register(dependents, c, n)[n]
<1>1. c \notin Readers => Owner(c) \in Slots \cup Effects
  BY Shapes
<1>2. dependents \in [Nodes -> SUBSET (Slots \cup Effects)]
  BY DEF SlotsTyped
<1>3. c \in Computes => c \notin Readers /\ Owner(c) = c[1]
  BY Shapes
<1> QED  BY <1>1, <1>2, <1>3 DEF Register, RegisterFirst

(* A read of a source keeps Waiting. *)
LEMMA ReadSourceWaits ==
  ASSUME Waiting, NEW c \in Clients, ReadSource(c)
  PROVE  Waiting'
<1> DEFINE s == NextRead(c)
           u == [task[c] EXCEPT !.read = @ + 1, !.value = Join(@, SourceValue(s))]
<1>1. task[c] \in Tasks /\ task[c].read \in Nat /\ task[c].value \in NoResults
  BY TaskParts DEF Waiting
<1>2. SourceValue(s) \in NoResults
  BY DEF SourceValue, NoResults, Waiting, SlotsTyped
<1>3. u \in Tasks /\ task' = [task EXCEPT ![c] = u]
  <2>1. Join(task[c].value, SourceValue(s)) \in NoResults
    BY <1>1, <1>2, JoinTyped
  <2>2. task' = [task EXCEPT ![c] = u]
    BY DEF ReadSource, Waiting, TasksTyped
  <2>3. u = [task[c] EXCEPT !.read = @ + 1, !.event = task[c].event, !.value = Join(task[c].value, SourceValue(s))]
    BY <1>1 DEF Tasks
  <2> HIDE DEF u
  <2> QED  BY <1>1, <2>1, <2>2, <2>3, ReadOn
<1>4. SlotsTyped' /\ asked' \in [Readers -> [Sources -> Nat]]
  BY RegisterTyped DEF ReadSource, Waiting, SlotsTyped, TasksTyped, Nodes
<1>5. Placed(c, u)
  <2>1. Placed(c, task[c]) /\ Len(Program(c)) \in Nat
    BY Shapes DEF Waiting
  <2> QED  BY <1>1, <2>1 DEF Placed, ReadSource, AtRead, Tasks
<1>6. u.phase = task[c].phase /\ u.rev = task[c].rev
  BY <1>1 DEF Tasks
<1> HIDE DEF u
<1> QED  BY <1>3, <1>4, <1>5, <1>6, OneBodyMoves DEF ReadSource

(* A read of a resolved slot keeps it: nobody is awaited. *)
LEMMA GetResolvedWaits ==
  ASSUME Waiting, NEW c \in Clients, AtRead(c), NEW n \in Slots, n = NextRead(c),
         GetResolved(c, n), UNCHANGED <<version, asked>>
  PROVE  Waiting'
<1> DEFINE u == [task[c] EXCEPT !.read = @ + 1, !.event = "none",
                                !.value = Join(@, slot[n].value)]
<1>1. task[c] \in Tasks /\ task[c].read \in Nat /\ task[c].value \in NoResults
  BY TaskParts DEF Waiting
<1>2. slot[n].value \in NoResults
  BY DEF Waiting, SlotsTyped
<1>3. u \in Tasks /\ task' = [task EXCEPT ![c] = u]
  <2>1. Join(task[c].value, slot[n].value) \in NoResults
    BY <1>1, <1>2, JoinTyped
  <2>2. task' = [task EXCEPT ![c] = u]
    BY DEF GetResolved, Waiting, TasksTyped
  <2>3. u = [task[c] EXCEPT !.read = @ + 1, !.event = "none", !.value = Join(task[c].value, slot[n].value)]
    BY <1>1 DEF Tasks
  <2> HIDE DEF u
  <2> QED  BY <1>1, <2>1, <2>2, <2>3, ReadOn
<1>4. SlotsTyped' /\ asked' \in [Readers -> [Sources -> Nat]]
  BY RegisterTyped DEF GetResolved, Waiting, SlotsTyped, TasksTyped, Nodes
<1>5. Placed(c, u)
  <2>1. Placed(c, task[c]) /\ Len(Program(c)) \in Nat
    BY Shapes DEF Waiting
  <2> QED  BY <1>1, <2>1 DEF Placed, AtRead, Tasks
<1>6. u.phase = task[c].phase /\ u.rev = task[c].rev
  BY <1>1 DEF Tasks
<1> HIDE DEF u
<1> QED  BY <1>3, <1>4, <1>5, <1>6, OneBodyMoves DEF GetResolved

(* So does one that joins the compute in flight: it is the one the token     *)
(* names.                                                                    *)
LEMMA GetComputingWaits ==
  ASSUME Waiting, NEW c \in Clients, AtRead(c), NEW n \in Slots, n = NextRead(c),
         GetComputing(c, n), UNCHANGED <<version, asked>>
  PROVE  Waiting'
<1> DEFINE u == [task[c] EXCEPT !.on = Current(n)]
<1>1. task[c] \in Tasks /\ task[c].read \in Nat
  BY TaskParts DEF Waiting
<1>2. Current(n) \in Computes /\ Current(n)[1] = n /\ Current(n) # None
  <2>1. SlotFit(n) /\ slot[n].state = "computing"
    BY DEF Waiting, GetComputing
  <2>2. Current(n) \in Computes
    BY <2>1, CurrentIs DEF SlotFit, Waiting
  <2> QED  BY <2>2, CurrentIs, Shapes DEF Waiting
<1>3. u \in Tasks /\ task' = [task EXCEPT ![c] = u]
  <2>2. task' = [task EXCEPT ![c] = u]
    BY DEF GetComputing, Waiting, TasksTyped
  <2> QED  BY <1>1, <1>2, <2>2 DEF Tasks
<1>4. SlotsTyped' /\ asked' \in [Readers -> [Sources -> Nat]]
  BY RegisterTyped DEF GetComputing, Waiting, SlotsTyped, TasksTyped, Nodes
<1>5. Placed(c, u)
  <2>1. Placed(c, task[c]) /\ Len(Program(c)) \in Nat
    BY Shapes DEF Waiting
  <2>2. u.on = Current(n) /\ u.read = task[c].read /\ u.phase = task[c].phase /\ u.event = task[c].event
    BY <1>1 DEF Tasks
  <2>3. Program(c)[u.read + 1] = n
    BY <2>2 DEF NextRead
  <2> HIDE DEF u
  <2> QED  BY <1>1, <1>2, <2>1, <2>2, <2>3 DEF Placed, AtRead, GetComputing
<1>6. u.phase = task[c].phase /\ u.rev = task[c].rev
  BY <1>1 DEF Tasks
<1> HIDE DEF u
<1> QED  BY <1>3, <1>4, <1>5, <1>6, OneBodyMoves DEF GetComputing

(* So does a read of a disposed slot, which fails at once. *)
LEMMA GetDisposedWaits ==
  ASSUME Waiting, NEW c \in Clients, AtRead(c), NEW n \in Slots, n = NextRead(c),
         GetDisposed(c, n), UNCHANGED <<version, asked>>
  PROVE  Waiting'
<1> DEFINE u == [task[c] EXCEPT !.event = "error"]
<1>1. task[c] \in Tasks /\ task[c].read \in Nat
  BY TaskParts DEF Waiting
<1>3. u \in Tasks /\ task' = [task EXCEPT ![c] = u]
  <2>2. task' = [task EXCEPT ![c] = u]
    BY DEF GetDisposed, Waiting, TasksTyped
  <2> QED  BY <1>1, <2>2 DEF Tasks
<1>4. SlotsTyped' /\ asked' \in [Readers -> [Sources -> Nat]]
  BY RegisterTyped DEF GetDisposed, Waiting, SlotsTyped, TasksTyped, Nodes
<1>5. Placed(c, u)
  <2>1. Placed(c, task[c]) /\ Len(Program(c)) \in Nat
    BY Shapes DEF Waiting
  <2> QED  BY <1>1, <2>1 DEF Placed, AtRead, Tasks
<1>6. u.phase = task[c].phase /\ u.rev = task[c].rev
  BY <1>1 DEF Tasks
<1> HIDE DEF u
<1> QED  BY <1>3, <1>4, <1>5, <1>6, OneBodyMoves DEF GetDisposed

(* What a spawn comes to for the bodies and the slots. *)
Spawned(c, n) ==
  LET t == <<n, slot[n].spawns + 1>> IN
  /\ t \in Computes /\ t # c /\ task[t].phase = "off"
  /\ task' \in [Clients -> Tasks]
  /\ \A d \in Clients : d # c /\ d # t => task'[d] = task[d]
  /\ task'[c].on = t /\ task'[c].read = task[c].read /\ task'[c].phase = task[c].phase
  /\ task'[c].event = task[c].event /\ task'[c].rev = task[c].rev /\ task'[c].value = task[c].value
  /\ task'[t].on = None /\ task'[t].read = 0 /\ task'[t].phase = "run"
  /\ task'[t].rev = slot[n].revision /\ task'[t].event = "none" /\ task'[t].value = NoValue
  /\ slot'[n].state = "computing" /\ slot'[n].spawns = slot[n].spawns + 1
  /\ slot'[n].revision = slot[n].revision /\ slot'[n].alive = slot[n].alive
  /\ \A m \in Slots : m # n => slot'[m] = slot[m]

(* A read of an empty slot does what Spawned says. *)
LEMMA GetSpawnsIs ==
  ASSUME Waiting, NEW c \in Clients, AtRead(c), NEW n \in Slots, n = NextRead(c),
         slot[n].alive, GetSpawns(c, n), UNCHANGED <<version, asked>>
  PROVE  Spawned(c, n)
<1> DEFINE k == slot[n].spawns + 1
           t == <<n, k>>
<1>1. /\ slot[n].spawns \in Nat /\ k \in 1 .. MaxSpawns /\ slot[n].revision \in Nat
      /\ MaxSpawns \in Nat
  BY GraphAssumption DEF Waiting, SlotsTyped, GetSpawns, Nodes
<1>2. t \in Computes /\ t \in Clients /\ t[1] = n /\ t[2] = k /\ t # None
  BY <1>1, Shapes DEF Computes
<1>3. task[t].phase = "off" /\ c # t
  <2>1. ComputeFit(t)
    BY <1>2 DEF Waiting
  <2>2. task[t].phase = "off"
    BY <1>1, <1>2, <2>1 DEF ComputeFit
  <2> QED  BY <2>2 DEF AtRead
<1>4. task[c] \in Tasks /\ task[c].read \in Nat
  BY TaskParts DEF Waiting
<1> DEFINE u == [task[c] EXCEPT !.on = t]
           v == RunningTask(slot[n].revision)
<1>5. /\ task' = [task EXCEPT ![c] = u, ![t] = v]
      /\ u \in Tasks /\ v \in Tasks
  <2>1. task' = [task EXCEPT ![c] = u, ![t] = v]
    BY DEF GetSpawns, Waiting, TasksTyped
  <2> QED  BY <1>1, <1>2, <1>4, <2>1, FreshTasks DEF Tasks
<1>6. /\ u.on = t /\ u.read = task[c].read /\ u.phase = task[c].phase /\ u.event = task[c].event
      /\ u.rev = task[c].rev
      /\ u.value = task[c].value /\ v.value = NoValue
      /\ v.on = None /\ v.read = 0 /\ v.phase = "run" /\ v.rev = slot[n].revision /\ v.event = "none"
  BY <1>4 DEF Tasks, RunningTask, IdleTask
<1> HIDE DEF u, v
<1>7. /\ task' \in [Clients -> Tasks] /\ task'[c] = u /\ task'[t] = v
      /\ \A d \in Clients : d # c /\ d # t => task'[d] = task[d]
  BY <1>2, <1>3, <1>5 DEF Waiting, TasksTyped
<1>8. /\ slot'[n].state = "computing" /\ slot'[n].spawns = k /\ slot'[n].revision = slot[n].revision
      /\ slot'[n].alive = slot[n].alive
      /\ \A m \in Slots : m # n => slot'[m] = slot[m]
  BY <1>1 DEF GetSpawns, Waiting, SlotsTyped
<1> HIDE DEF k
<1>9. /\ t \in Computes /\ t # c /\ task[t].phase = "off" /\ k = slot[n].spawns + 1
      /\ task' \in [Clients -> Tasks]
      /\ \A d \in Clients : d # c /\ d # t => task'[d] = task[d]
      /\ task'[c].on = t /\ task'[c].read = task[c].read /\ task'[c].phase = task[c].phase
      /\ task'[c].event = task[c].event /\ task'[c].rev = task[c].rev /\ task'[c].value = task[c].value
      /\ task'[t].on = None /\ task'[t].read = 0 /\ task'[t].phase = "run"
      /\ task'[t].rev = slot[n].revision /\ task'[t].event = "none" /\ task'[t].value = NoValue
      /\ slot'[n].state = "computing" /\ slot'[n].spawns = k /\ slot'[n].revision = slot[n].revision
      /\ slot'[n].alive = slot[n].alive
      /\ \A m \in Slots : m # n => slot'[m] = slot[m]
  BY <1>2, <1>3, <1>6, <1>7, <1>8 DEF k
<1> QED  BY <1>9 DEF Spawned, k

(* A spawned compute is the one its slot names from now on, and its spawner  *)
(* waits for it.                                                             *)
LEMMA GetSpawnsWaits ==
  ASSUME Waiting, NEW c \in Clients, AtRead(c), NEW n \in Slots, n = NextRead(c),
         slot[n].alive, GetSpawns(c, n), UNCHANGED <<version, asked>>
  PROVE  Waiting'
<1> DEFINE k == slot[n].spawns + 1
           t == <<n, k>>
<1>1. /\ slot[n].spawns \in Nat /\ k \in 1 .. MaxSpawns /\ slot[n].revision \in Nat
      /\ MaxSpawns \in Nat
  BY GraphAssumption DEF Waiting, SlotsTyped, GetSpawns, Nodes
<1>2. t \in Computes /\ t \in Clients /\ t[1] = n /\ t[2] = k /\ t # None
  BY <1>1, Shapes DEF Computes
<1>4. task[c] \in Tasks /\ task[c].read \in Nat
  BY TaskParts DEF Waiting
<1>5. Spawned(c, n)
  BY GetSpawnsIs
<1> DEFINE u == task'[c]
           v == task'[t]
<1>6. /\ u.on = t /\ u.read = task[c].read /\ u.phase = task[c].phase /\ u.event = task[c].event
      /\ u.rev = task[c].rev
      /\ v.on = None /\ v.read = 0 /\ v.phase = "run" /\ v.rev = slot[n].revision /\ v.event = "none"
  BY ONLY <1>5 DEF Spawned
<1>7. /\ task' \in [Clients -> Tasks] /\ task'[c] = u /\ task'[t] = v
      /\ \A d \in Clients : d # c /\ d # t => task'[d] = task[d]
  BY ONLY <1>5 DEF Spawned
<1> HIDE DEF u, v
<1>8. /\ slot'[n].state = "computing" /\ slot'[n].spawns = k /\ slot'[n].revision = slot[n].revision
      /\ slot'[n].alive = slot[n].alive
      /\ \A m \in Slots : m # n => slot'[m] = slot[m]
  BY ONLY <1>5 DEF Spawned
<1>9. SlotsTyped'
  <2>1. slot' \in [Slots -> [alive : BOOLEAN, state : {"empty", "computing", "resolved", "error"},
                    value : NoResults, revision : Nat, spawns : 0 .. MaxSpawns]]
    <3>1. NoValue \in NoResults
      BY DEF NoValue, NoResults
    <3> QED  BY <1>1, <3>1 DEF GetSpawns, Waiting, SlotsTyped
  <2>2. dependents' \in [Nodes -> SUBSET (Slots \cup Effects)]
    BY RegisterTyped DEF GetSpawns, Nodes, Waiting
  <2>3. inflight' \in [Slots -> Computes \cup {None}]
    BY <1>2 DEF GetSpawns, Waiting, SlotsTyped
  <2> QED  BY <2>1, <2>2, <2>3 DEF Waiting, SlotsTyped
<1>10. TasksTyped'
  BY <1>7 DEF Waiting, TasksTyped
<1>11. ASSUME NEW d \in Clients
       PROVE  Placed(d, task[d])'
  <2>1. Placed(d, task[d]) /\ Len(Program(d)) \in Nat
    BY Shapes DEF Waiting
  <2>2. CASE d = c
    <3>1. Program(c)[u.read + 1] = n
      BY <1>6 DEF NextRead
    <3>2. t = <<n, slot'[n].spawns>>
      BY <1>8
    <3>3. /\ u.read \in 0 .. Len(Program(c)) /\ u.event # "error" /\ u.phase = "run"
          /\ u.read < Len(Program(c))
      BY <1>4, <1>6, <2>1, <2>2 DEF AtRead, Placed
    <3>4. task'[d] = u /\ Program(d)' = Program(d)
      BY <1>7, <2>2 DEF Program
    <3>5. u.on = t /\ t[1] = n /\ slot'[n].state = "computing"
      BY <1>2, <1>6, <1>8
    <3> HIDE DEF t, k
    <3> QED  BY ONLY <2>2, <3>1, <3>2, <3>3, <3>4, <3>5 DEF Placed, Current
  <2>3. CASE d = t
    <3>1. task'[d] = v /\ Program(d)' = Program(d) /\ 0 \in 0 .. Len(Program(d))
      BY <1>7, <2>1, <2>3 DEF Program
    <3> QED  BY ONLY <1>6, <3>1 DEF Placed
  <2>4. CASE d # c /\ d # t
    <3>1. task'[d] = task[d]
      BY <1>7, <2>4
    <3>2. task[d].on # None => task[d].on[1] # n
      BY <2>1 DEF Placed, GetSpawns
    <3>3. task[d].on # None => task[d].on[1] \in Slots
      BY AwaitedPublishes, Shapes
    <3> QED  BY <1>8, <2>1, <3>1, <3>2, <3>3 DEF Placed, Current, Program
  <2> QED  BY <2>2, <2>3, <2>4
<1>12. ASSUME NEW x \in Computes
       PROVE  ComputeFit(x)'
  <2>1. ComputeFit(x) /\ x \in Clients /\ x[1] \in Slots /\ x = <<x[1], x[2]>>
    BY Shapes DEF Waiting
  <2>2. CASE x = t
    <3>1. Current(n)' = t
      BY <1>8 DEF Current
    <3> QED  BY <1>1, <1>2, <1>6, <1>7, <1>8, <2>2, <3>1 DEF ComputeFit
  <2>3. CASE x # t
    <3>1. task'[x].phase = task[x].phase /\ task'[x].rev = task[x].rev
      BY <1>6, <1>7, <2>1, <2>3
    <3>2. CASE x[1] # n
      <4>1. slot'[x[1]] = slot[x[1]]
        BY <1>8, <2>1, <3>2
      <4> QED  BY <2>1, <3>1, <4>1 DEF ComputeFit, MayPublish, Current
    <3>3. CASE x[1] = n
      <4>1. ~(task[x].phase = "run" /\ MayPublish(x))
        BY <2>1, <3>3 DEF ComputeFit, GetSpawns
      <4>2. ~(task[x].phase = "run" /\ MayPublish(x))'
        BY <1>8, <3>1, <3>3, <4>1 DEF MayPublish
      <4>3. x[2] \in Nat
        BY Shapes
      <4>4. x[2] > k => x[2] > slot[n].spawns
        BY <1>1, <4>3
      <4> QED  BY <1>8, <2>1, <3>1, <3>3, <4>2, <4>4 DEF ComputeFit
    <3> QED  BY <3>2, <3>3
  <2> QED  BY <2>2, <2>3
<1>13. ASSUME NEW m \in Slots
       PROVE  SlotFit(m)'
  <2>1. SlotFit(m)
    BY DEF Waiting
  <2>2. CASE m = n
    <3>1. Current(n)' = t
      BY <1>8 DEF Current
    <3>2. task'[t].phase = "run" /\ task'[t].rev = slot'[n].revision
      BY <1>6, <1>7, <1>8
    <3>3. slot'[n].alive /\ slot'[n].spawns > 0
      BY <1>1, <1>8
    <3>4. SlotFit(n)'
      BY <3>1, <3>2, <3>3 DEF SlotFit
    <3> QED  BY <2>2, <3>4
  <2>3. CASE m # n
    <3>1. slot'[m] = slot[m] /\ Current(m)' = Current(m) /\ Current(m) # t
      BY <1>8, <2>3 DEF Current
    <3>2. slot[m].state = "computing" => Current(m) \in Clients
      BY <2>1, CurrentIs, Shapes DEF SlotFit, Waiting
    <3> QED  BY <1>6, <1>7, <2>1, <3>1, <3>2 DEF SlotFit
  <2> QED  BY <2>2, <2>3
<1> QED  BY <1>9, <1>10, <1>11, <1>12, <1>13 DEF Waiting

(* Supersession releases exactly those who await a slot that is hit. *)
LEMMA SupersedeIs ==
  ASSUME TasksTyped, NEW hit \in SUBSET Slots, NEW c \in Clients
  PROVE  LET v == Supersede(task, hit)[c]
             waits == \E n \in hit : slot[n].state = "computing" /\ task[c].on = Current(n) IN
         /\ v \in Tasks
         /\ v.phase = task[c].phase /\ v.rev = task[c].rev /\ v.read = task[c].read
         /\ v.value = task[c].value
         /\ waits => v.on = None /\ v.event = "superseded"
         /\ ~waits => v = task[c]
<1>1. task[c] \in Tasks
  BY DEF TasksTyped
<1> DEFINE waits == \E n \in hit : slot[n].state = "computing" /\ task[c].on = Current(n)
<1>2. Supersede(task, hit)[c] = IF waits THEN [task[c] EXCEPT !.on = None, !.event = "superseded"]
                                ELSE task[c]
  BY DEF Supersede
<1> HIDE DEF waits
<1>3. [task[c] EXCEPT !.on = None, !.event = "superseded"] \in Tasks
  BY <1>1 DEF Tasks
<1> DEFINE v == Supersede(task, hit)[c]
<1>4. CASE waits
  <2>1. v = [task[c] EXCEPT !.on = None, !.event = "superseded"]
    BY <1>2, <1>4
  <2>2. /\ v.phase = task[c].phase /\ v.rev = task[c].rev /\ v.read = task[c].read
        /\ v.value = task[c].value /\ v.on = None /\ v.event = "superseded"
    BY <1>1, <2>1 DEF Tasks
  <2> QED  BY <1>3, <1>4, <2>1, <2>2 DEF waits
<1>5. CASE ~waits
  <2>1. v = task[c]
    BY <1>2, <1>5
  <2> QED  BY <1>1, <1>5, <2>1 DEF waits
<1> QED  BY <1>4, <1>5

(* A body goes on as the supersession of hit leaves it; an effect may start. *)
Carries(c, hit) ==
  LET v == Supersede(task, hit)[c] IN
  /\ task'[c].read = v.read /\ task'[c].on = v.on /\ task'[c].event = v.event
  /\ task'[c].rev = v.rev /\ task'[c].value = v.value
  /\ task'[c].phase = v.phase \/ (v.phase = "off" /\ c \in Effects)

(* The slots of hit are emptied and those who await them released. *)
LEMMA HitWaits ==
  ASSUME Waiting, NEW hit \in SUBSET Slots, SlotsTyped', TasksTyped',
         \A m \in Slots \ hit : slot'[m] = slot[m],
         \A m \in hit : /\ slot'[m].state = "empty" /\ slot'[m].spawns = slot[m].spawns
                        /\ slot'[m].revision >= slot[m].revision
                        /\ ~slot'[m].alive \/ slot'[m].revision > slot[m].revision,
         \A c \in Clients : Carries(c, hit)
  PROVE  Waiting'
<1>1. ASSUME NEW c \in Clients
      PROVE  Placed(c, task[c])'
  <2>1. Placed(c, task[c])
    BY DEF Waiting
  <2> DEFINE waits == \E n \in hit : slot[n].state = "computing" /\ task[c].on = Current(n)
  <2>2. CASE waits
    <3>1. task'[c].read = task[c].read /\ task'[c].on = None /\ task'[c].event = "superseded"
      BY <2>2, SupersedeIs DEF Waiting, Carries
    <3> QED  BY <2>1, <3>1 DEF Placed, Program
  <2>3. CASE ~waits
    <3>1. /\ task'[c].read = task[c].read /\ task'[c].on = task[c].on /\ task'[c].event = task[c].event
          /\ task'[c].phase = task[c].phase \/ task[c].phase = "off"
      BY <2>3, SupersedeIs DEF Waiting, Carries
    <3>2. task[c].on # None => task[c].on[1] \in Slots \ hit
      <4> SUFFICES ASSUME task[c].on # None
                   PROVE  task[c].on[1] \in Slots \ hit
        OBVIOUS
      <4>1. task[c].on[1] \in Slots
        BY AwaitedPublishes, Shapes
      <4> QED  BY <2>1, <2>3, <4>1 DEF Placed
    <3>3. task[c].on # None => slot'[task[c].on[1]] = slot[task[c].on[1]]
      BY <3>2
    <3> HIDE DEF waits
    <3> QED  BY <2>1, <3>1, <3>3 DEF Placed, Current, Program
  <2> QED  BY <2>2, <2>3
<1>2. \A t \in Computes : task'[t].phase = task[t].phase /\ task'[t].rev = task[t].rev
  BY SupersedeIs, Shapes DEF Waiting, Carries
<1>3. ASSUME NEW t \in Computes
      PROVE  ComputeFit(t)'
  <2>1. ComputeFit(t) /\ t[1] \in Slots /\ t \in Clients
    BY Shapes DEF Waiting
  <2>2. /\ slot[t[1]].revision \in Nat /\ slot'[t[1]].revision \in Nat
        /\ task[t].rev \in Nat
    BY <2>1 DEF Waiting, SlotsTyped, TasksTyped, Tasks
  <2>3. task'[t].phase = task[t].phase /\ task'[t].rev = task[t].rev
    BY <1>2
  <2>4. CASE t[1] \in hit
    <3>1. task[t].phase = "run" => task[t].rev <= slot[t[1]].revision
      BY <2>1 DEF ComputeFit
    <3>2. task[t].phase = "run" => ~MayPublish(t)' /\ task'[t].rev <= slot'[t[1]].revision
      BY <2>2, <2>3, <2>4, <3>1 DEF MayPublish
    <3>3. slot'[t[1]].spawns = slot[t[1]].spawns
      BY <2>4
    <3> QED  BY <2>1, <2>3, <3>2, <3>3 DEF ComputeFit
  <2>5. CASE t[1] \notin hit
    <3>1. slot'[t[1]] = slot[t[1]]
      BY <2>1, <2>5
    <3> QED  BY <2>1, <2>3, <3>1 DEF ComputeFit, MayPublish, Current
  <2> QED  BY <2>4, <2>5
<1>4. ASSUME NEW n \in Slots
      PROVE  SlotFit(n)'
  <2>1. SlotFit(n)
    BY DEF Waiting
  <2>2. CASE n \in hit
    BY <2>2 DEF SlotFit
  <2>3. CASE n \notin hit
    <3>1. slot'[n] = slot[n]
      BY <2>3
    <3>2. slot[n].state = "computing" => Current(n) \in Computes
      BY <2>1, CurrentIs DEF SlotFit, Waiting
    <3> QED  BY <1>2, <2>1, <3>1, <3>2 DEF SlotFit, Current
  <2> QED  BY <2>2, <2>3
<1> QED  BY <1>1, <1>3, <1>4 DEF Waiting

(* The emptied slots have lost their value and a revision has passed; the    *)
(* others stay.                                                              *)
LEMMA EmptiedIs ==
  ASSUME SlotsTyped, NEW ns
  PROVE  /\ \A n \in Slots : n \notin ns => Emptied(ns)[n] = slot[n]
         /\ \A n \in Slots : n \in ns =>
              /\ Emptied(ns)[n].state = "empty" /\ Emptied(ns)[n].value = NoValue
              /\ Emptied(ns)[n].revision = slot[n].revision + 1
              /\ Emptied(ns)[n].spawns = slot[n].spawns /\ Emptied(ns)[n].alive = slot[n].alive
         /\ Emptied(ns) \in [Slots -> [alive : BOOLEAN, state : {"empty", "computing", "resolved", "error"},
                         value : NoResults, revision : Nat, spawns : 0 .. MaxSpawns]]
<1>1. NoValue \in NoResults
  BY DEF NoValue, NoResults
<1> DEFINE S == [alive : BOOLEAN, state : {"empty", "computing", "resolved", "error"},
                 value : NoResults, revision : Nat, spawns : 0 .. MaxSpawns]
<1>2. ASSUME NEW x \in S
      PROVE  LET y == [x EXCEPT !.state = "empty", !.value = NoValue, !.revision = @ + 1] IN
             /\ y \in S /\ y.state = "empty" /\ y.value = NoValue /\ y.revision = x.revision + 1
             /\ y.spawns = x.spawns /\ y.alive = x.alive
  <2>1. x.revision + 1 \in Nat
    OBVIOUS
  <2>2. ASSUME NEW r \in Nat
        PROVE  LET y == [x EXCEPT !.state = "empty", !.value = NoValue, !.revision = r] IN
               /\ y \in S /\ y.state = "empty" /\ y.value = NoValue /\ y.revision = r
               /\ y.spawns = x.spawns /\ y.alive = x.alive
    BY <1>1
  <2> HIDE DEF S
  <2> QED  BY <2>1, <2>2, Zenon
<1>3. slot \in [Slots -> S]
  BY DEF SlotsTyped
<1> HIDE DEF S
<1>4. \A n \in Slots : n \notin ns => Emptied(ns)[n] = slot[n]
  BY DEF Emptied
<1>5. ASSUME NEW n \in Slots, n \in ns
      PROVE  /\ Emptied(ns)[n] \in S
             /\ Emptied(ns)[n].state = "empty" /\ Emptied(ns)[n].value = NoValue
             /\ Emptied(ns)[n].revision = slot[n].revision + 1
             /\ Emptied(ns)[n].spawns = slot[n].spawns /\ Emptied(ns)[n].alive = slot[n].alive
  <2>1. Emptied(ns)[n] = [slot[n] EXCEPT !.state = "empty", !.value = NoValue, !.revision = @ + 1]
    BY <1>5 DEF Emptied
  <2>2. slot[n] \in S
    BY <1>3
  <2> QED  BY <1>2, <2>1, <2>2, Zenon
<1>6. DOMAIN Emptied(ns) = Slots /\ Emptied(ns) = [n \in Slots |-> Emptied(ns)[n]]
  BY DEF Emptied
<1>7. Emptied(ns) \in [Slots -> S]
  BY <1>3, <1>4, <1>5, <1>6
<1> QED  BY <1>4, <1>5, <1>7 DEF S

(* Scheduling effects after a supersession is one of the moves of Carries. *)
LEMMA ScheduledCarries ==
  ASSUME Waiting, NEW hit \in SUBSET Slots, NEW es \in SUBSET Effects,
         task' = Scheduled(Supersede(task, hit), es)
  PROVE  \A c \in Clients : task'[c] \in Tasks /\ Carries(c, hit)
<1>1. \A c \in Clients : Supersede(task, hit)[c] \in Tasks
  BY SupersedeIs DEF Waiting
<1> SUFFICES ASSUME NEW c \in Clients
             PROVE  task'[c] \in Tasks /\ Carries(c, hit)
  OBVIOUS
<1> DEFINE v == Supersede(task, hit)[c]
<1>2. v \in Tasks
  BY <1>1
<1>3. \/ task'[c] = v
      \/ task'[c] = [v EXCEPT !.phase = "loop"] /\ v.phase = "off" /\ c \in Effects
  BY DEF Scheduled
<1> HIDE DEF v
<1>4. [v EXCEPT !.phase = "loop"] \in Tasks
  BY <1>2 DEF Tasks
<1>5. /\ task'[c] \in Tasks
      /\ task'[c].read = v.read /\ task'[c].on = v.on /\ task'[c].event = v.event
      /\ task'[c].rev = v.rev /\ task'[c].value = v.value
      /\ task'[c].phase = v.phase \/ (v.phase = "off" /\ c \in Effects)
  BY <1>2, <1>3, <1>4 DEF Tasks
<1> QED  BY <1>5 DEF v, Carries

(* A write, or a batch of writes, keeps Waiting. *)
LEMMA WriteWaits ==
  ASSUME Waiting, NEW ss \in SUBSET Sources, WriteSources(ss)
  PROVE  Waiting'
<1> DEFINE cone == Cone(UNION {dependents[s] : s \in ss})
           hit  == LiveSlots(cone)
           es   == cone \cap Effects
<1>1. slot' = Emptied(hit) /\ task' = Scheduled(Supersede(task, hit), es) /\ hit \subseteq Slots
      /\ inflight' = Released(hit)
      /\ version' = [s \in Sources |-> IF s \in ss THEN version[s] + 1 ELSE version[s]]
  BY DEF WriteSources, LiveSlots
<1> HIDE DEF hit
<1>2. SlotsTyped'
  BY <1>1, EmptiedIs DEF Waiting, SlotsTyped, WriteSources, Released
<1>4. \A c \in Clients : task'[c] \in Tasks /\ Carries(c, hit)
  <2>1. es \in SUBSET Effects
    OBVIOUS
  <2> HIDE DEF es
  <2> QED  BY <1>1, <2>1, ScheduledCarries
<1>5. TasksTyped'
  <2>1. task' \in [Clients -> Tasks]
    BY <1>1, <1>4 DEF Scheduled
  <2> QED  BY <2>1 DEF Waiting, TasksTyped, WriteSources
<1>6. \A m \in hit : /\ slot'[m].state = "empty" /\ slot'[m].spawns = slot[m].spawns
                     /\ slot'[m].revision >= slot[m].revision
                     /\ ~slot'[m].alive \/ slot'[m].revision > slot[m].revision
  BY <1>1, EmptiedIs DEF Waiting, SlotsTyped
<1>7. \A m \in Slots \ hit : slot'[m] = slot[m]
  BY <1>1, EmptiedIs DEF Waiting
<1> QED  BY <1>1, <1>2, <1>4, <1>5, <1>6, <1>7, HitWaits

(* A disposed slot is hit together with its cone. *)
LEMMA DisposeSlotHits ==
  ASSUME Waiting, NEW n \in Slots, DisposeSlot(n)
  PROVE  LET all == LiveSlots(Cone(dependents[n])) \cup {n} IN
         /\ SlotsTyped' /\ TasksTyped' /\ all \in SUBSET Slots
         /\ \A m \in Slots \ all : slot'[m] = slot[m]
         /\ \A m \in all : /\ slot'[m].state = "empty" /\ slot'[m].spawns = slot[m].spawns
                           /\ slot'[m].revision >= slot[m].revision
                           /\ ~slot'[m].alive \/ slot'[m].revision > slot[m].revision
         /\ \A c \in Clients : Carries(c, all)
<1> DEFINE hit == LiveSlots(Cone(dependents[n]))
           all == hit \cup {n}
<1>1. slot' = [Emptied(hit) EXCEPT ![n].alive = FALSE, ![n].state = "empty", ![n].value = NoValue]
      /\ task' = Supersede(task, all) /\ hit \subseteq Slots /\ all \subseteq Slots
      /\ inflight' = Released(all)
  BY DEF DisposeSlot, LiveSlots
<1> HIDE DEF hit
<1>2. /\ \A m \in Slots \ all : slot'[m] = slot[m]
      /\ \A m \in hit \ {n} : slot'[m] = Emptied(hit)[m]
      /\ slot'[n].state = "empty" /\ ~slot'[n].alive /\ slot'[n].spawns = slot[n].spawns
      /\ slot'[n].revision = Emptied(hit)[n].revision
      /\ slot' \in [Slots -> [alive : BOOLEAN, state : {"empty", "computing", "resolved", "error"},
                         value : NoResults, revision : Nat, spawns : 0 .. MaxSpawns]]
  <2>1. NoValue \in NoResults
    BY DEF NoValue, NoResults
  <2> DEFINE em == Emptied(hit)
  <2>2. /\ em \in [Slots -> [alive : BOOLEAN, state : {"empty", "computing", "resolved", "error"},
                         value : NoResults, revision : Nat, spawns : 0 .. MaxSpawns]]
        /\ \A m \in Slots : m \notin hit => em[m] = slot[m]
        /\ em[n].spawns = slot[n].spawns
    BY EmptiedIs DEF Waiting
  <2> HIDE DEF em
  <2>3. slot' = [em EXCEPT ![n].alive = FALSE, ![n].state = "empty", ![n].value = NoValue]
    BY <1>1 DEF em
  <2>4. /\ \A m \in Slots \ all : slot'[m] = slot[m]
        /\ \A m \in hit \ {n} : slot'[m] = em[m]
        /\ slot'[n].state = "empty" /\ ~slot'[n].alive /\ slot'[n].spawns = slot[n].spawns
        /\ slot'[n].revision = em[n].revision
        /\ slot' \in [Slots -> [alive : BOOLEAN, state : {"empty", "computing", "resolved", "error"},
                         value : NoResults, revision : Nat, spawns : 0 .. MaxSpawns]]
    <3> DEFINE S == [alive : BOOLEAN, state : {"empty", "computing", "resolved", "error"},
                     value : NoResults, revision : Nat, spawns : 0 .. MaxSpawns]
               x == [em[n] EXCEPT !.alive = FALSE, !.state = "empty", !.value = NoValue]
    <3>1. em[n] \in S
      BY <2>2
    <3>2. x \in S /\ x.state = "empty" /\ ~x.alive /\ x.spawns = em[n].spawns /\ x.revision = em[n].revision
      BY <2>1, <3>1
    <3>3. slot' = [em EXCEPT ![n] = x]
      BY <2>2, <2>3
    <3>4. em \in [Slots -> S]
      BY <2>2
    <3> HIDE DEF x, S
    <3>5. slot'[n] = x /\ (\A m \in Slots : m # n => slot'[m] = em[m]) /\ slot' \in [Slots -> S]
      BY <3>2, <3>3, <3>4
    <3>6. \A m \in Slots \ all : slot'[m] = slot[m]
      BY <1>1, <2>2, <3>5
    <3>7. \A m \in hit \ {n} : slot'[m] = em[m]
      BY <1>1, <3>5
    <3>8. /\ slot'[n].state = "empty" /\ ~slot'[n].alive /\ slot'[n].spawns = slot[n].spawns
          /\ slot'[n].revision = em[n].revision
      BY <2>2, <3>2, <3>5
    <3> QED  BY ONLY <3>5, <3>6, <3>7, <3>8 DEF S
  <2> QED  BY <2>4 DEF em
<1>3. Emptied(hit)[n].revision >= slot[n].revision
  BY EmptiedIs DEF Waiting, SlotsTyped
<1>4. SlotsTyped'
  <2>1. version' = version /\ version \in [Sources -> Nat]
    BY DEF Waiting, SlotsTyped, DisposeSlot
  <2>2. dependents' \in [Nodes -> SUBSET (Slots \cup Effects)]
    BY DEF Waiting, SlotsTyped, DisposeSlot
  <2>3. inflight' \in [Slots -> Computes \cup {None}]
    <3> HIDE DEF all
    <3> QED  BY <1>1 DEF Waiting, SlotsTyped, Released
  <2> QED  BY ONLY <1>2, <2>1, <2>2, <2>3 DEF SlotsTyped
<1>5. TasksTyped' /\ \A c \in Clients : Carries(c, all)
  <2>1. \A c \in Clients : task'[c] = Supersede(task, all)[c]
    BY <1>1
  <2>2. \A c \in Clients : task'[c] \in Tasks
    BY <1>1, <2>1, SupersedeIs DEF Waiting
  <2>3. task' \in [Clients -> Tasks]
    BY <1>1, <2>2 DEF Supersede
  <2> HIDE DEF all
  <2>4. \A c \in Clients : Carries(c, all)
    BY <2>1 DEF Carries
  <2> QED  BY <2>3, <2>4 DEF Waiting, TasksTyped, DisposeSlot
<1>6. \A m \in all : /\ slot'[m].state = "empty" /\ slot'[m].spawns = slot[m].spawns
                     /\ slot'[m].revision >= slot[m].revision
                     /\ ~slot'[m].alive \/ slot'[m].revision > slot[m].revision
  <2> SUFFICES ASSUME NEW m \in hit \ {n}
               PROVE  /\ slot'[m].state = "empty" /\ slot'[m].spawns = slot[m].spawns
                      /\ slot'[m].revision > slot[m].revision
                      /\ slot'[m].revision >= slot[m].revision
    BY <1>2, <1>3
  <2>1. slot'[m] = Emptied(hit)[m] /\ m \in Slots
    BY <1>1, <1>2
  <2> QED  BY <2>1, EmptiedIs DEF Waiting, SlotsTyped
<1> HIDE DEF all
<1>7. all \in SUBSET Slots /\ \A m \in Slots \ all : slot'[m] = slot[m]
  BY <1>1, <1>2
<1> HIDE DEF all
<1>8. /\ SlotsTyped' /\ TasksTyped' /\ all \in SUBSET Slots
      /\ \A m \in Slots \ all : slot'[m] = slot[m]
      /\ \A m \in all : /\ slot'[m].state = "empty" /\ slot'[m].spawns = slot[m].spawns
                        /\ slot'[m].revision >= slot[m].revision
                        /\ ~slot'[m].alive \/ slot'[m].revision > slot[m].revision
      /\ \A c \in Clients : Carries(c, all)
  BY <1>4, <1>5, <1>6, <1>7
<1> QED  BY <1>8, Zenon DEF all, hit

(* A disposal keeps Waiting. *)
LEMMA DisposeSlotWaits ==
  ASSUME Waiting, NEW n \in Slots, DisposeSlot(n)
  PROVE  Waiting'
<1> DEFINE all == LiveSlots(Cone(dependents[n])) \cup {n}
<1>1. /\ SlotsTyped' /\ TasksTyped' /\ all \in SUBSET Slots
      /\ \A m \in Slots \ all : slot'[m] = slot[m]
      /\ \A m \in all : /\ slot'[m].state = "empty" /\ slot'[m].spawns = slot[m].spawns
                        /\ slot'[m].revision >= slot[m].revision
                        /\ ~slot'[m].alive \/ slot'[m].revision > slot[m].revision
      /\ \A c \in Clients : Carries(c, all)
  BY DisposeSlotHits, Zenon
<1> HIDE DEF all
<1> QED  BY <1>1, HitWaits

(* Settling serves all who await the compute, and nobody else. *)
LEMMA SettleIs ==
  ASSUME NEW tasks \in [Clients -> Tasks], NEW t \in Computes, NEW value \in NoResults,
         NEW event \in {"resolved", "superseded", "error"}, NEW c \in Clients
  PROVE  LET v == Settle(tasks, t, event, value)[c] IN
         /\ v \in Tasks
         /\ tasks[c].on # t => v = tasks[c]
         /\ v.phase = tasks[c].phase /\ v.rev = tasks[c].rev
         /\ tasks[c].on = t =>
              /\ v.on = None
              /\ event = "resolved" => /\ v.read = tasks[c].read + 1 /\ v.event = "none"
                                       /\ v.value = Join(tasks[c].value, value)
              /\ event # "resolved" => /\ v.read = tasks[c].read /\ v.event = event
                                       /\ v.value = tasks[c].value
<1>1. tasks[c] \in Tasks /\ tasks[c].value \in NoResults /\ tasks[c].read + 1 \in Nat
  BY DEF Tasks
<1>2. Join(tasks[c].value, value) \in NoResults
  BY <1>1, JoinTyped
<1>4. ASSUME event # "resolved"
      PROVE  LET v == [tasks[c] EXCEPT !.on = None, !.event = event] IN
             /\ v \in Tasks /\ v.phase = tasks[c].phase /\ v.rev = tasks[c].rev
             /\ v.on = None /\ v.read = tasks[c].read /\ v.event = event /\ v.value = tasks[c].value
  BY <1>1, <1>4 DEF Tasks
<1>5. CASE tasks[c].on # t
  BY <1>1, <1>5 DEF Settle
<1>6. CASE tasks[c].on = t /\ event = "resolved"
  <2> DEFINE k == tasks[c].read + 1
             w == Join(tasks[c].value, value)
             v == Settle(tasks, t, event, value)[c]
  <2>1. v = [tasks[c] EXCEPT !.on = None, !.read = k, !.event = "none", !.value = w]
    BY <1>6 DEF Settle
  <2>2. k \in Nat /\ w \in NoResults
    BY <1>1, <1>2
  <2> HIDE DEF k, w, v
  <2>4. /\ v \in Tasks /\ v.phase = tasks[c].phase /\ v.rev = tasks[c].rev
        /\ v.on = None /\ v.read = k /\ v.event = "none" /\ v.value = w
    BY <1>1, <2>1, <2>2 DEF Tasks
  <2>3. /\ v \in Tasks
        /\ tasks[c].on # t => v = tasks[c]
        /\ v.phase = tasks[c].phase /\ v.rev = tasks[c].rev
        /\ tasks[c].on = t =>
             /\ v.on = None
             /\ event = "resolved" => /\ v.read = tasks[c].read + 1 /\ v.event = "none"
                                      /\ v.value = Join(tasks[c].value, value)
             /\ event # "resolved" => /\ v.read = tasks[c].read /\ v.event = event
                                      /\ v.value = tasks[c].value
    BY <1>6, <2>4 DEF k, w
  <2> QED  BY <2>3, Zenon DEF v
<1>7. CASE tasks[c].on = t /\ event # "resolved"
  <2>1. Settle(tasks, t, event, value)[c] = [tasks[c] EXCEPT !.on = None, !.event = event]
    BY <1>7 DEF Settle
  <2> QED  BY <1>4, <1>7, <2>1, Zenon
<1> QED  BY <1>5, <1>6, <1>7

(* A compute that ends in a value or an error: it is published, or dropped  *)
(* when its slot has moved on, and nobody waits for it then.                *)
Ends(t, event, value) ==
  LET done == [task EXCEPT ![t].phase = "published"] IN
  IF MayPublish(t)
  THEN /\ slot' = [slot EXCEPT ![t[1]].state = event, ![t[1]].value = value]
       /\ task' = Settle(done, t, event, value)
  ELSE /\ task' = Settle(done, t, "superseded", NoValue)
       /\ UNCHANGED slot

(* What that comes to for every body and slot. *)
Ended(t, event, value) ==
  /\ ~MayPublish(t) => \A c \in Clients : task[c].on # t
  /\ task' \in [Clients -> Tasks]
  /\ \A c \in Clients \ {t} :
       /\ task[c].on # t => task'[c] = task[c]
       /\ task'[c].phase = task[c].phase /\ task'[c].rev = task[c].rev
       /\ task[c].on = t =>
            /\ task'[c].on = None
            /\ event = "resolved" => /\ task'[c].read = task[c].read + 1 /\ task'[c].event = "none"
                                     /\ task'[c].value = Join(task[c].value, value)
            /\ event # "resolved" => /\ task'[c].read = task[c].read /\ task'[c].event = event
                                     /\ task'[c].value = task[c].value
  /\ task'[t] = [task[t] EXCEPT !.phase = "published"]
  /\ MayPublish(t) => /\ t = Current(t[1])
                      /\ slot'[t[1]] = [slot[t[1]] EXCEPT !.state = event, !.value = value]
                      /\ \A m \in Slots : m # t[1] => slot'[m] = slot[m]
  /\ ~MayPublish(t) => slot' = slot

(* The end of a compute does what Ended says. *)
LEMMA EndsIs ==
  ASSUME Waiting, NEW t \in Computes, task[t].phase = "run", task[t].on = None,
         NEW event \in {"resolved", "error"}, NEW value \in NoResults, Ends(t, event, value)
  PROVE  Ended(t, event, value)
<1> DEFINE done == [task EXCEPT ![t].phase = "published"]
           x == [task[t] EXCEPT !.phase = "published"]
<1>1. t \in Clients /\ t[1] \in Slots /\ t # None
  BY Shapes
<1>2. task \in [Clients -> Tasks] /\ task[t] \in Tasks
  BY <1>1 DEF Waiting, TasksTyped
<1>3. x \in Tasks /\ x.on = None
  BY <1>2 DEF Tasks
<1>4. done \in [Clients -> Tasks] /\ done[t] = x /\ \A c \in Clients : c # t => done[c] = task[c]
  <2>1. done = [task EXCEPT ![t] = x]
    BY <1>2
  <2> HIDE DEF x, done
  <2> QED  BY <1>1, <1>2, <1>3, <2>1
<1>5. ~MayPublish(t) => \A c \in Clients : task[c].on # t
  BY <1>1, AwaitedPublishes
<1>6. NoValue \in NoResults
  BY DEF NoValue, NoResults
<1>7. /\ MayPublish(t) => /\ slot' = [slot EXCEPT ![t[1]].state = event, ![t[1]].value = value]
                          /\ task' = Settle(done, t, event, value)
      /\ ~MayPublish(t) => task' = Settle(done, t, "superseded", NoValue) /\ slot' = slot
  BY DEF Ends
<1> HIDE DEF done, x
<1>8. ASSUME NEW c \in Clients
      PROVE  /\ task'[c] \in Tasks
             /\ done[c].on # t => task'[c] = done[c]
             /\ task'[c].phase = done[c].phase /\ task'[c].rev = done[c].rev
             /\ MayPublish(t) /\ done[c].on = t =>
                  /\ task'[c].on = None
                  /\ event = "resolved" => /\ task'[c].read = done[c].read + 1 /\ task'[c].event = "none"
                                           /\ task'[c].value = Join(done[c].value, value)
                  /\ event # "resolved" => /\ task'[c].read = done[c].read /\ task'[c].event = event
                                           /\ task'[c].value = done[c].value
  <2>1. CASE MayPublish(t)
    BY <1>4, <1>7, <2>1, SettleIs
  <2>2. CASE ~MayPublish(t)
    BY <1>4, <1>6, <1>7, <2>2, SettleIs
  <2> QED  BY <2>1, <2>2
<1>9. task' \in [Clients -> Tasks]
  BY <1>7, <1>8 DEF Settle
<1>10. task'[t] = x
  BY <1>1, <1>3, <1>4, <1>8
<1>11. ASSUME MayPublish(t)
       PROVE  /\ t = Current(t[1])
              /\ slot'[t[1]] = [slot[t[1]] EXCEPT !.state = event, !.value = value]
              /\ \A m \in Slots : m # t[1] => slot'[m] = slot[m]
  BY <1>1, <1>7, <1>11 DEF Waiting, ComputeFit, SlotsTyped
<1> QED  BY <1>4, <1>5, <1>8, <1>9, <1>10, <1>11, <1>7 DEF x, Ended

(* The end of a compute keeps Waiting: all its waiters are released. *)
LEMMA EndsWaits ==
  ASSUME Waiting, NEW t \in Computes, task[t].phase = "run", task[t].on = None,
         NEW event \in {"resolved", "error"}, NEW value \in NoResults, Ends(t, event, value),
         UNCHANGED <<version, dependents, inflight, asked>>
  PROVE  Waiting'
<1>0. Ended(t, event, value)
  BY EndsIs
<1>1. t \in Clients /\ t[1] \in Slots /\ t # None
  BY Shapes
<1>2. TasksTyped'
  BY <1>0 DEF Ended, Waiting, TasksTyped
<1>3. SlotsTyped'
  <2>1. CASE MayPublish(t)
    <3> DEFINE S == [alive : BOOLEAN, state : {"empty", "computing", "resolved", "error"},
                     value : NoResults, revision : Nat, spawns : 0 .. MaxSpawns]
               x == [slot[t[1]] EXCEPT !.state = event, !.value = value]
    <3>1. slot \in [Slots -> S] /\ slot[t[1]] \in S
      BY <1>1 DEF Waiting, SlotsTyped
    <3>2. x \in S
      BY <3>1
    <3>3. slot' = [slot EXCEPT ![t[1]] = x]
      BY <1>1, <2>1, <3>1 DEF Ends
    <3> HIDE DEF x, S
    <3>4. slot' \in [Slots -> S]
      BY <3>1, <3>2, <3>3
    <3> QED  BY <3>4 DEF S, Waiting, SlotsTyped
  <2>2. CASE ~MayPublish(t)
    BY <2>2 DEF Ends, Waiting, SlotsTyped
  <2> QED  BY <2>1, <2>2
<1>4. \A m \in Slots : /\ slot'[m].spawns = slot[m].spawns /\ slot'[m].revision = slot[m].revision
                       /\ slot'[m].alive = slot[m].alive
                       /\ MayPublish(t) /\ m = t[1] => slot'[m].state # "computing"
                       /\ m # t[1] \/ ~MayPublish(t) => slot'[m].state = slot[m].state
  <2>1. \A m \in Slots : slot[m] \in [alive : BOOLEAN, state : {"empty", "computing", "resolved", "error"},
                         value : NoResults, revision : Nat, spawns : 0 .. MaxSpawns]
    BY DEF Waiting, SlotsTyped
  <2>2. CASE MayPublish(t)
    <3>1. slot'[t[1]] = [slot[t[1]] EXCEPT !.state = event, !.value = value]
      BY <2>2, <1>0 DEF Ended
    <3>2. \A m \in Slots : m # t[1] => slot'[m] = slot[m]
      BY <2>2, <1>0 DEF Ended
    <3>3. /\ slot'[t[1]].spawns = slot[t[1]].spawns /\ slot'[t[1]].revision = slot[t[1]].revision
          /\ slot'[t[1]].alive = slot[t[1]].alive /\ slot'[t[1]].state = event
      BY <1>1, <2>1, <3>1
    <3> QED  BY <1>1, <2>2, <3>2, <3>3
  <2>3. CASE ~MayPublish(t)
    BY <2>3, <1>0 DEF Ended
  <2> QED  BY <2>2, <2>3
<1>5. task'[t].phase = "published" /\ task'[t].on = None /\ task'[t].read = task[t].read
  <2>1. task[t] \in Tasks
    BY <1>1 DEF Waiting, TasksTyped
  <2> QED  BY <2>1, <1>0 DEF Ended, Tasks
<1>6. \A c \in Clients : c # t => task'[c].phase = task[c].phase /\ task'[c].rev = task[c].rev
  BY <1>0 DEF Ended
<1>7. ASSUME NEW c \in Clients
      PROVE  Placed(c, task[c])'
  <2>1. Placed(c, task[c]) /\ Len(Program(c)) \in Nat
    BY Shapes DEF Waiting
  <2>2. CASE c = t
    BY <1>5, <2>1, <2>2 DEF Placed, Program
  <2>3. CASE c # t /\ task[c].on = t
    <3>1. task[c].read < Len(Program(c)) /\ task[c].read \in Nat
      BY <1>1, <2>1, <2>3 DEF Placed
    <3>2. task'[c].on = None /\ (task'[c].read = task[c].read \/ task'[c].read = task[c].read + 1)
      BY <2>3, <1>0 DEF Ended
    <3>3. task'[c].read \in 0 .. Len(Program(c))
      BY <2>1, <3>1, <3>2
    <3> QED  BY <3>2, <3>3 DEF Placed, Program
  <2>4. CASE c # t /\ task[c].on # t
    <3>1. task'[c] = task[c]
      BY <2>4, <1>0 DEF Ended
    <3>2. task[c].on # None => /\ task[c].on[1] \in Slots /\ task[c].on \in Computes
                               /\ task[c].on = Current(task[c].on[1])
      BY AwaitedPublishes, Shapes
    <3>3. task[c].on # None => task[c].on[1] # t[1] \/ ~MayPublish(t)
      BY <2>4, <3>2, <1>0 DEF Ended
    <3> QED  BY <1>4, <2>1, <3>1, <3>2, <3>3 DEF Placed, Program, Current
  <2> QED  BY <2>2, <2>3, <2>4
<1>8. ASSUME NEW x \in Computes
      PROVE  ComputeFit(x)'
  <2>1. ComputeFit(x) /\ x[1] \in Slots /\ x \in Clients
    BY Shapes DEF Waiting
  <2>2. CASE x = t
    BY <1>4, <1>5, <2>1, <2>2 DEF ComputeFit
  <2>3. CASE x # t
    <3>1. MayPublish(x)' = MayPublish(x) /\ Current(x[1])' = Current(x[1])
      BY <1>4, <1>6, <2>1, <2>3 DEF MayPublish, Current
    <3>2. task[x].phase = "run" /\ MayPublish(x) /\ MayPublish(t) => x[1] # t[1]
      BY <2>1, <2>3, <1>0 DEF Ended, ComputeFit
    <3> QED  BY <1>4, <1>6, <2>1, <2>3, <3>1, <3>2 DEF ComputeFit
  <2> QED  BY <2>2, <2>3
<1>9. ASSUME NEW n \in Slots
      PROVE  SlotFit(n)'
  <2> SUFFICES ASSUME slot'[n].state = "computing"
               PROVE  SlotFit(n)'
    BY DEF SlotFit
  <2>1. SlotFit(n) /\ slot[n].state = "computing"
    BY <1>4 DEF Waiting
  <2>2. Current(n) \in Clients /\ Current(n)[1] = n
    BY <2>1, CurrentIs, Shapes DEF SlotFit, Waiting
  <2>3. Current(n) # t
    <3>1. Current(n) = t => MayPublish(t)
      BY <2>1, <2>2 DEF SlotFit, MayPublish
    <3> QED  BY <1>4, <2>2, <3>1
  <2>4. Current(n)' = Current(n)
    BY <1>4 DEF Current
  <2> QED  BY <1>4, <1>6, <2>1, <2>2, <2>3, <2>4 DEF SlotFit
<1> QED  BY <1>2, <1>3, <1>7, <1>8, <1>9 DEF Waiting

(* A result and an error are both ends of a compute. *)
LEMMA PublishEnds ==
  ASSUME Waiting, NEW t \in Computes
  PROVE  /\ Publish(t) => /\ task[t].phase = "run" /\ task[t].on = None /\ task[t].value \in NoResults
                          /\ Ends(t, "resolved", task[t].value)
                          /\ task[t].read = Len(Program(t))
                          /\ UNCHANGED <<version, dependents, inflight, asked>>
         /\ PublishError(t) => /\ task[t].phase = "run" /\ task[t].on = None /\ NoValue \in NoResults
                               /\ Ends(t, "error", NoValue)
                               /\ UNCHANGED <<version, dependents, inflight, asked>>
<1>1. t \in Clients
  BY Shapes
<1>2. task[t] \in Tasks /\ task[t].value \in NoResults
  BY <1>1, TaskParts DEF Waiting
<1>3. NoValue \in NoResults
  BY DEF NoValue, NoResults
<1>4. Placed(t, task[t])
  BY <1>1 DEF Waiting
<1>5. ASSUME Publish(t)
      PROVE  /\ task[t].phase = "run" /\ task[t].on = None /\ task[t].value \in NoResults
             /\ Ends(t, "resolved", task[t].value)
             /\ task[t].read = Len(Program(t))
             /\ UNCHANGED <<version, dependents, inflight, asked>>
  BY <1>2, <1>5 DEF Publish, Finished, Ends
<1>6. ASSUME PublishError(t)
      PROVE  /\ task[t].phase = "run" /\ task[t].on = None
             /\ Ends(t, "error", NoValue)
             /\ UNCHANGED <<version, dependents, inflight, asked>>
  BY <1>4, <1>6 DEF PublishError, Rejects, Ends, Placed
<1> QED  BY <1>3, <1>5, <1>6

(* The finally block of a compute, which clears the in-flight entry, keeps   *)
(* Waiting.                                                                  *)
LEMMA FinallyWaits ==
  ASSUME Waiting, NEW t \in Computes, Finally(t)
  PROVE  Waiting'
<1>1. t \in Clients
  BY Shapes
<1>2. IdleTask \in Tasks
  BY FreshTasks
<1>3. SlotsTyped' /\ asked' \in [Readers -> [Sources -> Nat]]
  BY DEF Finally, Waiting, SlotsTyped, TasksTyped
<1>4. Placed(t, IdleTask)
  BY <1>1, Shapes DEF Placed, IdleTask
<1>5. slot' = slot /\ task' = [task EXCEPT ![t] = IdleTask]
      /\ IdleTask.phase = "off" /\ task[t].phase # "run"
  BY DEF Finally, IdleTask
<1> QED  BY <1>1, <1>2, <1>3, <1>4, <1>5, OneBodyMoves

(* So do the start, the end and the failure of an effect. *)
LEMMA EffectWaits ==
  ASSUME Waiting, NEW e \in Effects, EffectStart(e) \/ EffectFinish(e) \/ EffectStop(e)
  PROVE  Waiting'
<1>1. e \in Clients /\ e \notin Computes
  BY Shapes
<1>2. Len(Program(e)) \in Nat
  BY <1>1, Shapes
<1>3. SlotsTyped' /\ asked' \in [Readers -> [Sources -> Nat]] /\ slot' = slot
  BY DEF EffectStart, EffectFinish, EffectStop, Waiting, SlotsTyped, TasksTyped, graphVars
<1> DEFINE Waits(u) == u \in Tasks /\ u.on = None /\ u.read = 0
<1>4. ASSUME NEW u, Waits(u), task' = [task EXCEPT ![e] = u]
      PROVE  Waiting'
  <2>1. Placed(e, u)
    BY <1>2, <1>4 DEF Placed
  <2> QED  BY <1>1, <1>3, <1>4, <2>1, OneBodyMoves
<1>5. Waits(IdleTask) /\ Waits(RunningTask(0)) /\ Waits([IdleTask EXCEPT !.phase = "loop"])
  <2>1. IdleTask \in Tasks /\ RunningTask(0) \in Tasks
    BY FreshTasks
  <2> QED  BY <2>1 DEF IdleTask, RunningTask, Tasks
<1> HIDE DEF Waits
<1> QED  BY <1>4, <1>5 DEF EffectStart, EffectFinish, EffectStop

(* So do the call and the return of a caller of getAsync. *)
LEMMA ReaderWaits ==
  ASSUME Waiting, NEW r \in Readers, ReaderCall(r) \/ ReaderReturn(r)
  PROVE  Waiting'
<1>1. r \in Clients /\ r \notin Computes
  BY Shapes
<1>2. Len(Program(r)) \in Nat /\ Placed(r, task[r]) /\ task[r] \in Tasks
  BY <1>1, Shapes, TaskParts DEF Waiting
<1>3. SlotsTyped' /\ asked' \in [Readers -> [Sources -> Nat]] /\ slot' = slot
  BY DEF ReaderCall, ReaderReturn, Waiting, SlotsTyped, TasksTyped, graphVars
<1>4. CASE ReaderCall(r)
  <2>1. RunningTask(0) \in Tasks
    BY FreshTasks
  <2>2. Placed(r, RunningTask(0))
    BY <1>2 DEF Placed, RunningTask, IdleTask
  <2>3. task' = [task EXCEPT ![r] = RunningTask(0)]
    BY <1>4 DEF ReaderCall
  <2> QED  BY <1>1, <1>3, <2>1, <2>2, <2>3, OneBodyMoves
<1>5. CASE ReaderReturn(r)
  <2> DEFINE u == [task[r] EXCEPT !.phase = "returned"]
  <2>1. task' = [task EXCEPT ![r] = u]
    BY <1>5 DEF ReaderReturn
  <2>2. u \in Tasks /\ u.on = task[r].on /\ u.read = task[r].read /\ u.event = task[r].event
    BY <1>2 DEF Tasks
  <2>3. task[r].on = None
    BY <1>2, <1>5 DEF ReaderReturn, Finished, Placed
  <2> HIDE DEF u
  <2>4. Placed(r, u)
    BY <1>2, <2>2, <2>3 DEF Placed
  <2> QED  BY <1>1, <1>3, <2>1, <2>2, <2>4, OneBodyMoves
<1> QED  BY <1>4, <1>5

(* So does whatever leaves the nodes and the bodies alone. *)
LEMMA StutterWaits ==
  ASSUME Waiting, UNCHANGED <<version, slot, dependents, inflight, task, asked>>
  PROVE  Waiting'
BY DEF Waiting, SlotsTyped, TasksTyped, Placed, Program, Current, ComputeFit, MayPublish, SlotFit

(* Waiting holds at the start. *)
LEMMA InitWaits ==
  ASSUME GraphInit
  PROVE  Waiting
<1>1. NoValue \in NoResults
  BY DEF NoValue, NoResults
<1>2. SlotsTyped
  BY GraphAssumption, <1>1 DEF GraphInit, SlotsTyped, Nodes
<1>3. IdleTask \in Tasks /\ [IdleTask EXCEPT !.phase = "loop"] \in Tasks
  <2>1. IdleTask \in Tasks
    BY FreshTasks
  <2> QED  BY <2>1 DEF Tasks
<1>4. TasksTyped
  BY <1>3 DEF GraphInit, TasksTyped
<1>5. \A c \in Clients : /\ task[c].on = None /\ task[c].read = 0 /\ task[c].event = "none"
                         /\ c \in Computes => task[c].phase = "off"
  BY Shapes DEF GraphInit, IdleTask
<1>6. \A c \in Clients : Placed(c, task[c])
  BY <1>5, Shapes DEF Placed
<1>7. \A t \in Computes : ComputeFit(t)
  BY <1>5, Shapes DEF ComputeFit
<1>8. \A n \in Slots : SlotFit(n)
  BY DEF SlotFit, GraphInit
<1> QED  BY <1>2, <1>4, <1>6, <1>7, <1>8 DEF Waiting

(* A read of a slot, in its four forms, keeps Waiting. *)
LEMMA ReadSlotWaits ==
  ASSUME Waiting, NEW c \in Clients, ReadSlot(c)
  PROVE  Waiting'
BY GetResolvedWaits, GetComputingWaits, GetSpawnsWaits, GetDisposedWaits DEF ReadSlot

(* Every step keeps Waiting. *)
LEMMA NextWaits ==
  ASSUME Waiting, [GraphNext]_asyncVars
  PROVE  Waiting'
<1>1. CASE \E ss \in SUBSET Sources : WriteSources(ss)
  BY <1>1, WriteWaits
<1>2. CASE \E n \in Slots : DisposeSlot(n)
  BY <1>2, DisposeSlotWaits
<1>3. ASSUME NEW c \in Clients, Progress(c)
      PROVE  Waiting'
  <2>1. CASE ReadSource(c)
    BY <2>1, ReadSourceWaits
  <2>2. CASE ReadSlot(c)
    BY <2>2, ReadSlotWaits
  <2>3. CASE c \in Computes /\ Publish(c)
    BY <2>3, PublishEnds, EndsWaits
  <2>4. CASE c \in Computes /\ PublishError(c)
    BY <2>4, PublishEnds, EndsWaits
  <2>5. CASE c \in Computes /\ Finally(c)
    BY <2>5, FinallyWaits
  <2>6. CASE c \in Effects /\ (EffectStart(c) \/ EffectFinish(c) \/ EffectStop(c))
    BY <2>6, EffectWaits
  <2>7. CASE c \in Readers /\ ReaderReturn(c)
    BY <2>7, ReaderWaits
  <2> QED  BY <1>3, <2>1, <2>2, <2>3, <2>4, <2>5, <2>6, <2>7 DEF Progress
<1>4. CASE \E r \in Readers : ReaderCall(r)
  BY <1>4, ReaderWaits
<1>5. CASE \E w \in Settlers : SettleCheck(w)
  BY <1>5, StutterWaits DEF SettleCheck, graphVars
<1>6. CASE UNCHANGED asyncVars
  BY <1>6, StutterWaits DEF asyncVars, graphVars, clientVars
<1> QED  BY <1>1, <1>2, <1>3, <1>4, <1>5, <1>6 DEF GraphNext

-----------------------------------------------------------------------------
(* What a value is worth. *)

(* What a body reads ends at sources; a source's own origin is itself. *)
OriginsOf(m) == IF m \in Sources THEN {m} ELSE Origins(m)

(* What a body has after k reads, and that its node hears of any change. *)
Reflects(n, k, value) ==
  \A s \in Sources :
    value[s] = IF \E i \in 1 .. k : s \in OriginsOf(Reads[n][i]) THEN {version[s]} ELSE {}

(* Edges lead from what it has read to its node, and those slots still have  *)
(* their values.                                                             *)
Linked(n, k) ==
  \A i \in 1 .. k :
    /\ n \in dependents[Reads[n][i]]
    /\ Reads[n][i] \in Slots => slot[Reads[n][i]].alive /\ slot[Reads[n][i]].state = "resolved"

(* The value of a resolved slot is right, and it hears of changes. *)
ValueFit(n) ==
  slot[n].alive /\ slot[n].state = "resolved" =>
    Reflects(n, Len(Reads[n]), slot[n].value) /\ Linked(n, Len(Reads[n]))

(* A body that may publish has read only what is so now. *)
BodyFit(t) ==
  task[t].phase = "run" /\ MayPublish(t) =>
    /\ Reflects(t[1], task[t].read, task[t].value)
    /\ Linked(t[1], task[t].read)
    /\ task[t].event # "superseded"
    /\ task[t].on # None => t[1] \in dependents[task[t].on[1]]

(* A caller of getAsync has nothing from before its call. *)
ReaderFit(r) ==
  /\ \A s \in Sources : asked[r][s] <= version[s]
  /\ task[r].phase \in {"run", "returned"} =>
       /\ task[r].read = 0 => task[r].value = NoValue
       /\ \A s \in Sources :
            \/ task[r].value[s] = {}
            \/ \E x \in Nat : task[r].value[s] = {x} /\ asked[r][s] <= x

(* What values are worth. *)
Fitting ==
  /\ \A n \in Slots : ValueFit(n)
  /\ \A t \in Computes : BodyFit(t)
  /\ \A r \in Readers : ReaderFit(r)

(* Origins come from the constants alone. *)
LEMMA OriginsStay == \A m : OriginsOf(m)' = OriginsOf(m)
BY Zenon DEF OriginsOf, Origins

(* A set of nodes with whatever the bodies of its slots read. *)
ReadClosed(G) == \A m \in G \cap Slots : \A i \in 1 .. Len(Reads[m]) : Reads[m][i] \in G

(* A set closed under reading has the origins of its members. *)
LEMMA ClosedHasOrigins ==
  ASSUME NEW G, ReadClosed(G), NEW m \in G \cap Nodes
  PROVE  OriginsOf(m) \subseteq G
<1>1. CASE m \in Sources
  BY <1>1 DEF OriginsOf
<1>2. CASE m \in Slots
  <2>1. Below(m, G)
    BY DEF Below, ReadClosed
  <2>2. PICK O \in SUBSET Nodes : Origins(m) = O \cap Sources /\ \A H : Below(m, H) => O \subseteq H
    BY <1>2, OriginsAre
  <2>3. m \notin Sources
    BY <1>2, Shapes
  <2> QED  BY <2>1, <2>2, <2>3 DEF OriginsOf
<1> QED  BY <1>1, <1>2 DEF Nodes

(* A slot's origins are those of what its body reads. *)
LEMMA OriginsStep ==
  ASSUME NEW n \in Slots, NEW s \in Sources
  PROVE  s \in Origins(n) <=> \E i \in 1 .. Len(Reads[n]) : s \in OriginsOf(Reads[n][i])
<1> DEFINE Is(m, O) == /\ Origins(m) = O \cap Sources /\ Below(m, O)
                       /\ \A G : Below(m, G) => O \subseteq G
<1>1. \A m \in Slots : \E O \in SUBSET Nodes : Is(m, O)
  BY OriginsAre
<1> HIDE DEF Is
<1> DEFINE all == [m \in Slots |-> CHOOSE O \in SUBSET Nodes : Is(m, O)]
<1>2. \A m \in Slots : all[m] \in SUBSET Nodes /\ Is(m, all[m])
  BY <1>1
<1> HIDE DEF all
<1>3. \A i \in 1 .. Len(Reads[n]) : Reads[n][i] \in Nodes
  BY Shapes
<1>4. ASSUME NEW i \in 1 .. Len(Reads[n]), s \in OriginsOf(Reads[n][i])
      PROVE  s \in Origins(n)
  <2>1. Reads[n][i] \in all[n]
    BY <1>2 DEF Is, Below
  <2>2. CASE Reads[n][i] \in Sources
    BY <1>2, <1>4, <2>1, <2>2 DEF OriginsOf, Is
  <2>3. CASE Reads[n][i] \in Slots
    <3>1. Below(Reads[n][i], all[n])
      BY <1>2, <2>1 DEF Is, Below
    <3>2. Reads[n][i] \notin Sources
      BY <2>3, Shapes
    <3>3. s \in all[Reads[n][i]]
      BY <1>2, <1>4, <2>3, <3>2 DEF OriginsOf, Is
    <3>4. s \in all[n]
      BY <1>2, <2>3, <3>1, <3>3 DEF Is
    <3> QED  BY <1>2, <3>4 DEF Is
  <2> QED  BY <1>3, <2>2, <2>3 DEF Nodes
<1>5. ASSUME s \in Origins(n)
      PROVE  \E i \in 1 .. Len(Reads[n]) : s \in OriginsOf(Reads[n][i])
  <2> DEFINE part(m) == IF m \in Slots THEN all[m] ELSE {m}
             G == {n} \cup {x \in Nodes : \E i \in 1 .. Len(Reads[n]) : x \in part(Reads[n][i])}
  <2>1. \A i \in 1 .. Len(Reads[n]) : Reads[n][i] \in part(Reads[n][i])
    BY <1>2 DEF Is, Below
  <2>2. ASSUME NEW m \in G \cap Slots, NEW j \in 1 .. Len(Reads[m])
        PROVE  Reads[m][j] \in G
    <3>1. CASE m = n
      BY <1>3, <2>1, <3>1
    <3>2. CASE m # n
      <4>1. PICK i \in 1 .. Len(Reads[n]) : m \in part(Reads[n][i])
        BY <3>2
      <4>2. CASE Reads[n][i] \in Slots
        <5>1. Reads[m][j] \in all[Reads[n][i]] /\ Reads[m][j] \in Nodes
          BY <1>2, <4>1, <4>2 DEF Is, Below
        <5> QED  BY <4>2, <5>1
      <4>3. CASE Reads[n][i] \notin Slots
        BY <4>1, <4>3
      <4> QED  BY <4>2, <4>3
    <3> QED  BY <3>1, <3>2
  <2>3. Below(n, G)
    BY <2>2 DEF Below
  <2>4. s \in G
    <3>1. s \in all[n]
      BY <1>2, <1>5 DEF Is
    <3> HIDE DEF G
    <3> QED  BY <1>2, <2>3, <3>1 DEF Is
  <2>5. s # n
    BY Shapes
  <2>6. PICK i \in 1 .. Len(Reads[n]) : s \in part(Reads[n][i])
    BY <2>4, <2>5
  <2>7. CASE Reads[n][i] \in Slots
    <3>1. Reads[n][i] \notin Sources
      BY <2>7, Shapes
    <3> QED  BY <1>2, <2>6, <2>7, <3>1 DEF OriginsOf, Is
  <2>8. CASE Reads[n][i] \notin Slots
    BY <2>6, <2>8 DEF OriginsOf
  <2> QED  BY <2>7, <2>8
<1> QED  BY <1>4, <1>5

(* What a resolved slot adds is right for a body that reads it. *)
LEMMA FullyReflects ==
  ASSUME NEW n \in Slots, NEW value, Reflects(n, Len(Reads[n]), value), NEW s \in Sources
  PROVE  value[s] = IF s \in OriginsOf(n) THEN {version[s]} ELSE {}
<1>1. n \notin Sources
  BY Shapes
<1> QED  BY <1>1, OriginsStep DEF Reflects, OriginsOf

(* A right value joined to what was read so far is right for one read more. *)
LEMMA ReflectsOneMore ==
  ASSUME NEW n, NEW k \in Nat, NEW v, NEW w, Reflects(n, k, v),
         \A s \in Sources : w[s] = IF s \in OriginsOf(Reads[n][k + 1]) THEN {version[s]} ELSE {}
  PROVE  Reflects(n, k + 1, Join(v, w))
<1> SUFFICES ASSUME NEW s \in Sources
             PROVE  Join(v, w)[s] = IF \E i \in 1 .. k + 1 : s \in OriginsOf(Reads[n][i])
                                    THEN {version[s]} ELSE {}
  BY DEF Reflects
<1>1. Join(v, w)[s] = v[s] \cup w[s]
  BY DEF Join
<1>2. v[s] = IF \E i \in 1 .. k : s \in OriginsOf(Reads[n][i]) THEN {version[s]} ELSE {}
  BY DEF Reflects
<1>3. (\E i \in 1 .. k + 1 : s \in OriginsOf(Reads[n][i])) <=>
        (\E i \in 1 .. k : s \in OriginsOf(Reads[n][i])) \/ s \in OriginsOf(Reads[n][k + 1])
  <2>1. \A i : i \in 1 .. k + 1 <=> i \in 1 .. k \/ i = k + 1
    OBVIOUS
  <2> QED  BY <2>1
<1> QED  BY <1>1, <1>2, <1>3

(* The cone H of a change is emptied: what is outside it read none of it.  *)
LEMMA HitFits ==
  ASSUME Waiting, Fitting, NEW ss \in SUBSET Sources, NEW H \in SUBSET (Slots \cup Effects),
         \A s \in ss : dependents[s] \subseteq H,
         \A m \in H \cap Slots : dependents[m] \subseteq H,
         \A m \in Slots : m \notin LiveSlots(H) => slot'[m] = slot[m],
         \A m \in LiveSlots(H) :
           /\ slot'[m].state = "empty" /\ slot'[m].revision >= slot[m].revision
           /\ ~slot'[m].alive \/ slot'[m].revision > slot[m].revision,
         \A c \in Clients : Carries(c, LiveSlots(H)),
         \A m \in Nodes \ H : dependents[m] \ H \subseteq dependents'[m],
         \A s \in Sources : IF s \in ss THEN version'[s] = version[s] + 1 ELSE version'[s] = version[s],
         SlotsTyped', asked' = asked
  PROVE  Fitting'
<1> DEFINE hit == LiveSlots(H)
<1>0. hit \in SUBSET Slots
  BY DEF LiveSlots
<1>1. \A m \in Slots : slot[m].alive /\ m \notin hit => m \notin H
  BY DEF LiveSlots
<1>2. \A n \in Nodes : n \in H => n \in Slots
  BY Shapes DEF Nodes
<1> DEFINE G == {x \in Nodes : x \notin ss /\ x \notin H /\
                   (x \in Slots => slot[x].alive /\ slot[x].state = "resolved")}
<1>3. ASSUME NEW n \in Slots \ H, NEW k \in 0 .. Len(Reads[n]), Linked(n, k), NEW i \in 1 .. k
      PROVE  Reads[n][i] \in G
  <2>1. Reads[n][i] \in Nodes
    <3>1. i \in 1 .. Len(Reads[n])
      BY Shapes
    <3> QED  BY <3>1, Shapes
  <2>2. n \in dependents[Reads[n][i]] /\
        (Reads[n][i] \in Slots => slot[Reads[n][i]].alive /\ slot[Reads[n][i]].state = "resolved")
    BY <1>3 DEF Linked
  <2> QED  BY <1>2, <2>1, <2>2
<1>4. ReadClosed(G)
  <2>1. ASSUME NEW m \in G \cap Slots, NEW i \in 1 .. Len(Reads[m])
        PROVE  Reads[m][i] \in G
    <3>1. ValueFit(m) /\ m \in Slots \ H /\ slot[m].alive /\ slot[m].state = "resolved"
      BY DEF Fitting
    <3>2. Linked(m, Len(Reads[m]))
      BY <3>1 DEF ValueFit
    <3>3. Len(Reads[m]) \in 0 .. Len(Reads[m])
      BY Shapes
    <3> HIDE DEF G
    <3> QED  BY <1>3, <3>1, <3>2, <3>3
  <2> HIDE DEF G
  <2> QED  BY <2>1 DEF ReadClosed
<1>5. ASSUME NEW n \in Slots \ H, NEW k \in 0 .. Len(Reads[n]), Linked(n, k)
      PROVE  Linked(n, k)'
  <2> SUFFICES ASSUME NEW i \in 1 .. k
               PROVE  /\ n \in dependents'[Reads[n][i]]
                      /\ Reads[n][i] \in Slots =>
                           slot'[Reads[n][i]].alive /\ slot'[Reads[n][i]].state = "resolved"
    BY DEF Linked
  <2>1. Reads[n][i] \in G
    BY <1>3, <1>5
  <2>2. n \in dependents[Reads[n][i]] /\ Reads[n][i] \in Nodes \ H
    BY <1>5, <2>1 DEF Linked
  <2>3. Reads[n][i] \notin LiveSlots(H)
    BY <2>2 DEF LiveSlots
  <2> QED  BY <2>1, <2>2, <2>3
<1>6. ASSUME NEW n \in Slots \ H, NEW k \in 0 .. Len(Reads[n]), NEW v, Linked(n, k), Reflects(n, k, v)
      PROVE  \A s \in Sources :
               v[s] = IF \E i \in 1 .. k : s \in OriginsOf(Reads[n][i]) THEN {version'[s]} ELSE {}
  <2>1. ASSUME NEW s \in Sources, NEW i \in 1 .. k, s \in OriginsOf(Reads[n][i])
        PROVE  version'[s] = version[s]
    <3>1. Reads[n][i] \in G /\ Reads[n][i] \in Nodes
      BY <1>3, <1>6
    <3>2. s \in G
      <4> HIDE DEF G
      <4> QED  BY <1>4, <2>1, <3>1, ClosedHasOrigins
    <3> QED  BY <3>2
  <2> QED  BY <1>6, <2>1 DEF Reflects
<1>7. ASSUME NEW n \in Slots
      PROVE  ValueFit(n)'
  <2> SUFFICES ASSUME slot'[n].alive, slot'[n].state = "resolved"
               PROVE  Reflects(n, Len(Reads[n]), slot[n].value)' /\ Linked(n, Len(Reads[n]))'
    BY DEF ValueFit
  <2>1. n \notin hit
    OBVIOUS
  <2>2. slot'[n] = slot[n] /\ n \in Slots \ H
    BY <1>1, <2>1
  <2>3. Reflects(n, Len(Reads[n]), slot[n].value) /\ Linked(n, Len(Reads[n]))
    BY <2>2 DEF Fitting, ValueFit
  <2>4. Len(Reads[n]) \in 0 .. Len(Reads[n])
    BY Shapes
  <2>5. Reflects(n, Len(Reads[n]), slot[n].value)'
    <3> DEFINE k == Len(Reads[n])
               v == slot[n].value
    <3>1. \A s \in Sources :
             v[s] = IF \E i \in 1 .. k : s \in OriginsOf(Reads[n][i]) THEN {version'[s]} ELSE {}
      <4>1. Reflects(n, k, v) /\ Linked(n, k) /\ k \in 0 .. Len(Reads[n])
        BY <2>3, <2>4
      <4> HIDE DEF k, v
      <4> QED  BY <1>6, <2>2, <4>1
    <3>2. slot'[n].value = slot[n].value
      BY <2>2
    <3> QED  BY <3>1, <3>2, OriginsStay DEF Reflects
  <2> QED  BY <1>5, <2>2, <2>3, <2>4, <2>5
<1>8. ASSUME NEW t \in Computes
      PROVE  BodyFit(t)'
  <2> SUFFICES ASSUME task'[t].phase = "run", MayPublish(t)'
               PROVE  /\ Reflects(t[1], task[t].read, task[t].value)'
                      /\ Linked(t[1], task[t].read)'
                      /\ task'[t].event # "superseded"
                      /\ task'[t].on # None => t[1] \in dependents'[task'[t].on[1]]
    BY DEF BodyFit
  <2> DEFINE n == t[1]
             waits == \E m \in hit : slot[m].state = "computing" /\ task[t].on = Current(m)
  <2>1. t \in Clients /\ n \in Slots /\ t \notin Effects /\ Owner(t) = n
    BY Shapes
  <2>2. Carries(t, hit) /\ task'[t].phase = task[t].phase /\ task'[t].rev = task[t].rev
    BY <1>0, <2>1, SupersedeIs DEF Carries, Waiting
  <2>3. n \notin hit
    <3>1. task[t].rev <= slot[n].revision
      BY <2>2 DEF Waiting, ComputeFit
    <3>2. task[t].rev \in Nat /\ slot[n].revision \in Nat /\ slot'[n].revision \in Nat
      BY <2>1 DEF Waiting, SlotsTyped, TasksTyped, Tasks
    <3> QED  BY <2>2, <3>1, <3>2 DEF MayPublish
  <2>4. slot'[n] = slot[n] /\ MayPublish(t) /\ n \in Slots \ H
    BY <1>1, <2>1, <2>2, <2>3 DEF MayPublish
  <2>5. /\ Reflects(n, task[t].read, task[t].value) /\ Linked(n, task[t].read)
        /\ task[t].event # "superseded"
        /\ task[t].on # None => n \in dependents[task[t].on[1]]
    BY <2>2, <2>4 DEF Fitting, BodyFit
  <2>6. task[t].on # None => task[t].on[1] \in Nodes \ H
    <3> SUFFICES ASSUME task[t].on # None
                 PROVE  task[t].on[1] \in Nodes \ H
      OBVIOUS
    <3>1. task[t].on[1] \in Slots
      BY <2>1, AwaitedPublishes, Shapes
    <3> QED  BY <2>4, <2>5, <3>1 DEF Nodes
  <2>7. ~waits
    <3> SUFFICES ASSUME NEW m \in hit, task[t].on = Current(m), slot[m].state = "computing"
                 PROVE  FALSE
      OBVIOUS
    <3>1. m \in H /\ m \in Slots
      BY DEF LiveSlots
    <3>2. Current(m)[1] = m /\ Current(m) # None
      <4>1. SlotFit(m)
        BY <3>1 DEF Waiting
      <4> QED  BY <3>1, <4>1, CurrentIs, Shapes DEF SlotFit, Waiting
    <3> QED  BY <2>6, <3>1, <3>2
  <2>8. /\ task'[t].read = task[t].read /\ task'[t].value = task[t].value
        /\ task'[t].event = task[t].event /\ task'[t].on = task[t].on
    BY <1>0, <2>1, <2>2, <2>7, SupersedeIs DEF Carries, Waiting
  <2>9. task[t].read \in 0 .. Len(Reads[n])
    BY <2>1 DEF Waiting, Placed, Program
  <2>10. Reflects(n, task[t].read, task[t].value)' /\ Linked(n, task[t].read)'
    <3> DEFINE k == task[t].read
               v == task[t].value
    <3>1. \A s \in Sources :
             v[s] = IF \E i \in 1 .. k : s \in OriginsOf(Reads[n][i]) THEN {version'[s]} ELSE {}
      <4>1. Reflects(n, k, v) /\ Linked(n, k) /\ k \in 0 .. Len(Reads[n])
        BY <2>5, <2>9
      <4> HIDE DEF k, v
      <4> QED  BY <1>6, <2>4, <4>1
    <3>2. \A i \in 1 .. k :
             /\ n \in dependents'[Reads[n][i]]
             /\ Reads[n][i] \in Slots =>
                  slot'[Reads[n][i]].alive /\ slot'[Reads[n][i]].state = "resolved"
      <4>1. n \in Slots \ H /\ Linked(n, k) /\ k \in 0 .. Len(Reads[n])
        BY <2>4, <2>5, <2>9
      <4> HIDE DEF k
      <4> QED  BY ONLY <1>5, <4>1 DEF Linked
    <3>3. Linked(n, task[t].read)'
      BY ONLY <2>8, <3>2 DEF Linked
    <3>4. Reflects(n, task[t].read, task[t].value)'
      BY ONLY <2>8, <3>1, OriginsStay DEF Reflects
    <3> QED  BY <3>3, <3>4
  <2>11. task[t].on # None => n \in dependents'[task[t].on[1]]
    BY <2>4, <2>5, <2>6
  <2> QED  BY <2>5, <2>8, <2>10, <2>11
<1>9. ASSUME NEW r \in Readers
      PROVE  ReaderFit(r)'
  <2>1. r \in Clients /\ r \notin Effects /\ ReaderFit(r)
    BY Shapes DEF Fitting
  <2>2. /\ task'[r].phase = task[r].phase /\ task'[r].read = task[r].read
        /\ task'[r].value = task[r].value
    BY <1>0, <2>1, SupersedeIs DEF Carries, Waiting
  <2>3. \A s \in Sources : asked[r][s] \in Nat /\ version[s] \in Nat /\ version'[s] >= version[s]
    BY DEF Waiting, TasksTyped, SlotsTyped
  <2>4. \A s \in Sources : asked'[r][s] <= version'[s]
    <3>1. \A s \in Sources : asked[r][s] <= version[s] /\ version'[s] \in Nat
      BY <2>1 DEF ReaderFit, SlotsTyped
    <3> QED  BY <2>3, <3>1
  <2> QED  BY <2>1, <2>2, <2>4 DEF ReaderFit
<1> QED  BY <1>7, <1>8, <1>9 DEF Fitting

(* A write keeps Fitting: its cone is emptied, in flight or resolved. *)
LEMMA WriteFits ==
  ASSUME Waiting, Fitting, NEW ss \in SUBSET Sources, WriteSources(ss)
  PROVE  Fitting'
<1> DEFINE roots == UNION {dependents[s] : s \in ss}
           H   == Cone(roots)
           hit == LiveSlots(H)
           es  == H \cap Effects
<1>1. slot' = Emptied(hit) /\ task' = Scheduled(Supersede(task, hit), es)
      /\ version' = [s \in Sources |-> IF s \in ss THEN version[s] + 1 ELSE version[s]]
      /\ dependents' = dependents /\ asked' = asked
  BY DEF WriteSources
<1>2. roots \in SUBSET (Slots \cup Effects)
  BY DEF Waiting, SlotsTyped, Nodes
<1>3. /\ H \in SUBSET (Slots \cup Effects) /\ roots \subseteq H
      /\ \A m \in H \cap Slots : dependents[m] \subseteq H
  <2> HIDE DEF roots
  <2> QED  BY <1>2, ConeCloses DEF Waiting
<1>4. \A s \in ss : dependents[s] \subseteq H
  BY <1>3
<1>5. SlotsTyped'
  BY WriteWaits DEF Waiting
<1> HIDE DEF H
<1>6. hit \in SUBSET Slots
  BY DEF LiveSlots
<1>7. \A m \in Slots : m \notin LiveSlots(H) => slot'[m] = slot[m]
  BY <1>1, EmptiedIs DEF Waiting
<1>8. \A m \in LiveSlots(H) :
           /\ slot'[m].state = "empty" /\ slot'[m].revision >= slot[m].revision
           /\ ~slot'[m].alive \/ slot'[m].revision > slot[m].revision
  BY <1>1, <1>6, EmptiedIs DEF Waiting, SlotsTyped
<1>9. \A c \in Clients : Carries(c, LiveSlots(H))
  <2>1. es \in SUBSET Effects
    OBVIOUS
  <2> HIDE DEF es
  <2> QED  BY <1>1, <1>6, <2>1, ScheduledCarries
<1>10. \A s \in Sources : IF s \in ss THEN version'[s] = version[s] + 1 ELSE version'[s] = version[s]
  BY <1>1
<1> HIDE DEF hit, es
<1> QED  BY <1>1, <1>3, <1>4, <1>5, <1>7, <1>8, <1>9, <1>10, HitFits

(* So does a disposal. *)
LEMMA DisposeSlotFits ==
  ASSUME Waiting, Fitting, NEW n \in Slots, DisposeSlot(n)
  PROVE  Fitting'
<1> DEFINE cone == Cone(dependents[n])
           H == cone \cup {n}
           all == LiveSlots(cone) \cup {n}
<1>1. /\ slot[n].alive /\ asked' = asked /\ version' = version
      /\ dependents' = [m \in Nodes |-> IF m = n THEN {} ELSE dependents[m] \ {n}]
  BY DEF DisposeSlot
<1>2. /\ SlotsTyped'
      /\ \A m \in Slots \ all : slot'[m] = slot[m]
      /\ \A m \in all : /\ slot'[m].state = "empty"
                        /\ slot'[m].revision >= slot[m].revision
                        /\ ~slot'[m].alive \/ slot'[m].revision > slot[m].revision
      /\ \A c \in Clients : Carries(c, all)
  BY DisposeSlotHits, Zenon
<1>3. dependents[n] \in SUBSET (Slots \cup Effects)
  BY DEF Waiting, SlotsTyped, Nodes
<1>4. /\ cone \in SUBSET (Slots \cup Effects) /\ dependents[n] \subseteq cone
      /\ \A m \in cone \cap Slots : dependents[m] \subseteq cone
  BY <1>3, ConeCloses DEF Waiting
<1> HIDE DEF cone
<1>5. LiveSlots(H) = all
  BY <1>1 DEF LiveSlots
<1>6. H \in SUBSET (Slots \cup Effects) /\ \A m \in H \cap Slots : dependents[m] \subseteq H
  BY <1>4
<1>7. \A m \in Nodes \ H : dependents[m] \ H \subseteq dependents'[m]
  BY <1>1
<1> HIDE DEF H, all
<1>8. /\ \A m \in Slots : m \notin LiveSlots(H) => slot'[m] = slot[m]
      /\ \A m \in LiveSlots(H) :
           /\ slot'[m].state = "empty" /\ slot'[m].revision >= slot[m].revision
           /\ ~slot'[m].alive \/ slot'[m].revision > slot[m].revision
      /\ \A c \in Clients : Carries(c, LiveSlots(H))
  BY <1>2, <1>5
<1> DEFINE ss == {}
<1>9. /\ ss \in SUBSET Sources /\ \A s \in ss : dependents[s] \subseteq H
      /\ \A s \in Sources : IF s \in ss THEN version'[s] = version[s] + 1 ELSE version'[s] = version[s]
  BY <1>1
<1> HIDE DEF ss
<1> QED  BY <1>1, <1>2, <1>6, <1>7, <1>8, <1>9, HitFits

(* No edge that leads to a slot is lost. *)
EdgesKept == \A m \in Nodes : dependents[m] \cap Slots \subseteq dependents'[m]

(* Edges that were there are there. *)
LEMMA StillLinked ==
  ASSUME NEW n \in Slots, NEW k \in 0 .. Len(Reads[n]), slot' = slot, EdgesKept,
         Linked(n, k)
  PROVE  \A i \in 1 .. k :
           /\ n \in dependents'[Reads[n][i]]
           /\ Reads[n][i] \in Slots => slot'[Reads[n][i]].alive /\ slot'[Reads[n][i]].state = "resolved"
<1>1. \A i \in 1 .. k : Reads[n][i] \in Nodes
  <2>1. \A i \in 1 .. k : i \in 1 .. Len(Reads[n])
    BY Shapes
  <2> QED  BY <2>1, Shapes
<1> QED  BY <1>1 DEF Linked, EdgesKept

(* While no source is written, a value stays right. *)
LEMMA StillReflects ==
  ASSUME NEW n, NEW k, NEW v, version' = version, Reflects(n, k, v)
  PROVE  \A s \in Sources :
           v[s] = IF \E i \in 1 .. k : s \in OriginsOf(Reads[n][i]) THEN {version'[s]} ELSE {}
BY DEF Reflects

(* A body moves on and no slot or source changes. *)
LEMMA OneBodyFits ==
  ASSUME Waiting, Fitting, NEW c \in Clients,
         slot' = slot, version' = version, EdgesKept,
         \A d \in Clients : d # c => task'[d] = task[d],
         \A r \in Readers : r # c => asked'[r] = asked[r],
         c \in Computes => BodyFit(c)', c \in Readers => ReaderFit(c)'
  PROVE  Fitting'
<1>1. ASSUME NEW n \in Slots
      PROVE  ValueFit(n)'
  <2> SUFFICES ASSUME slot'[n].alive, slot'[n].state = "resolved"
               PROVE  Reflects(n, Len(Reads[n]), slot[n].value)' /\ Linked(n, Len(Reads[n]))'
    BY DEF ValueFit
  <2>1. Reflects(n, Len(Reads[n]), slot[n].value) /\ Linked(n, Len(Reads[n]))
    BY DEF Fitting, ValueFit
  <2>2. Len(Reads[n]) \in 0 .. Len(Reads[n])
    BY Shapes
  <2>3. Linked(n, Len(Reads[n]))'
    BY <2>1, <2>2, StillLinked DEF Linked
  <2>4. Reflects(n, Len(Reads[n]), slot[n].value)'
    <3>1. \A s \in Sources : slot[n].value[s] =
             IF \E i \in 1 .. Len(Reads[n]) : s \in OriginsOf(Reads[n][i]) THEN {version'[s]} ELSE {}
      BY <2>1, StillReflects
    <3> QED  BY <3>1, OriginsStay DEF Reflects
  <2> QED  BY <2>3, <2>4
<1>2. ASSUME NEW t \in Computes
      PROVE  BodyFit(t)'
  <2> SUFFICES ASSUME task'[t].phase = "run", MayPublish(t)', t # c
               PROVE  /\ Reflects(t[1], task[t].read, task[t].value)'
                      /\ Linked(t[1], task[t].read)'
                      /\ task'[t].event # "superseded"
                      /\ task'[t].on # None => t[1] \in dependents'[task'[t].on[1]]
    BY DEF BodyFit
  <2>1. t \in Clients /\ t[1] \in Slots /\ Owner(t) = t[1]
    BY Shapes
  <2>2. task'[t] = task[t]
    BY <2>1
  <2>3. /\ Reflects(t[1], task[t].read, task[t].value) /\ Linked(t[1], task[t].read)
        /\ task[t].event # "superseded"
        /\ task[t].on # None => t[1] \in dependents[task[t].on[1]]
    BY <2>2 DEF Fitting, BodyFit, MayPublish
  <2>4. task[t].read \in 0 .. Len(Reads[t[1]])
    BY <2>1 DEF Waiting, Placed, Program
  <2>5. Linked(t[1], task[t].read)'
    <3>1. \A i \in 1 .. task[t].read :
             /\ t[1] \in dependents'[Reads[t[1]][i]]
             /\ Reads[t[1]][i] \in Slots =>
                  slot'[Reads[t[1]][i]].alive /\ slot'[Reads[t[1]][i]].state = "resolved"
      BY <2>1, <2>3, <2>4, StillLinked
    <3> QED  BY <2>2, <3>1 DEF Linked
  <2>6. Reflects(t[1], task[t].read, task[t].value)'
    <3>1. \A s \in Sources : task[t].value[s] =
             IF \E i \in 1 .. task[t].read : s \in OriginsOf(Reads[t[1]][i]) THEN {version'[s]} ELSE {}
      BY <2>3, StillReflects
    <3> QED  BY <2>2, <3>1, OriginsStay DEF Reflects
  <2>7. task[t].on # None => t[1] \in dependents'[task[t].on[1]]
    <3> SUFFICES ASSUME task[t].on # None
                 PROVE  t[1] \in dependents'[task[t].on[1]]
      OBVIOUS
    <3>1. task[t].on[1] \in Nodes
      BY <2>1, AwaitedPublishes, Shapes DEF Nodes
    <3> QED  BY <2>1, <2>3, <3>1 DEF EdgesKept
  <2> QED  BY <2>2, <2>3, <2>5, <2>6, <2>7
<1>3. ASSUME NEW r \in Readers
      PROVE  ReaderFit(r)'
  <2>1. CASE r = c
    BY <2>1
  <2>2. CASE r # c
    <3>1. r \in Clients
      BY Shapes
    <3>2. task'[r] = task[r] /\ asked'[r] = asked[r] /\ ReaderFit(r)
      BY <2>2, <3>1 DEF Fitting
    <3> QED  BY <3>2 DEF ReaderFit
  <2> QED  BY <2>1, <2>2
<1> QED  BY <1>1, <1>2, <1>3 DEF Fitting

(* A body that may publish reads on: a source, or a resolved slot. *)
ReadsOn(c, m, w) ==
  /\ AtRead(c) /\ m = NextRead(c)
  /\ \A s \in Sources : w[s] = IF s \in OriginsOf(m) THEN {version[s]} ELSE {}
  /\ slot' = slot /\ version' = version /\ EdgesKept
  /\ m \in Slots => slot[m].alive /\ slot[m].state = "resolved"
  /\ MayPublish(c) /\ task[c].event = "none" => c[1] \in dependents'[m]
  /\ task'[c].rev = task[c].rev /\ task'[c].read = task[c].read + 1
  /\ task'[c].value = Join(task[c].value, w)
  /\ task'[c].on = None /\ task'[c].event \in {"none", task[c].event}

(* ... and then it has one value more, with an edge from where it came. *)
LEMMA OneMoreRead ==
  ASSUME Waiting, Fitting, NEW c \in Computes, NEW m, NEW w, ReadsOn(c, m, w)
  PROVE  BodyFit(c)'
<1> USE DEF ReadsOn
<1> DEFINE n == c[1]
           k == task[c].read
<1>1. c \in Clients /\ n \in Slots /\ Owner(c) = n /\ Program(c) = Reads[n]
  BY Shapes DEF Program
<1>2. task[c] \in Tasks /\ k \in Nat /\ k < Len(Reads[n]) /\ m = Reads[n][k + 1]
  BY <1>1, TaskParts DEF Waiting, AtRead, NextRead
<1> SUFFICES ASSUME MayPublish(c)
             PROVE  /\ Reflects(n, task[c].read, task[c].value)'
                    /\ Linked(n, task[c].read)'
                    /\ task'[c].event # "superseded"
  BY DEF BodyFit, MayPublish
<1>3. Reflects(n, k, task[c].value) /\ Linked(n, k) /\ task[c].event # "superseded"
  BY DEF Fitting, BodyFit, AtRead
<1>4. task[c].event = "none"
  BY <1>2, <1>3 DEF AtRead, Tasks
<1>5. Reflects(n, k + 1, Join(task[c].value, w))
  <2> DEFINE v == task[c].value
  <2> HIDE DEF k, n, v
  <2>1. Reflects(n, k, v)
    BY <1>3 DEF v
  <2>2. \A s \in Sources : w[s] = IF s \in OriginsOf(Reads[n][k + 1]) THEN {version[s]} ELSE {}
    BY <1>2
  <2>3. Reflects(n, k + 1, Join(v, w))
    BY <1>2, <2>1, <2>2, ReflectsOneMore
  <2> QED  BY <2>3 DEF v
<1>6. Reflects(n, task[c].read, task[c].value)'
  <2>1. \A s \in Sources : Join(task[c].value, w)[s] =
           IF \E i \in 1 .. k + 1 : s \in OriginsOf(Reads[n][i]) THEN {version'[s]} ELSE {}
    BY <1>5, StillReflects
  <2>2. task'[c].read = k + 1 /\ task'[c].value = Join(task[c].value, w)
    OBVIOUS
  <2> QED  BY ONLY <2>1, <2>2, OriginsStay DEF Reflects
<1>7. \A i \in 1 .. k + 1 : /\ n \in dependents'[Reads[n][i]]
                            /\ Reads[n][i] \in Slots =>
                                 slot'[Reads[n][i]].alive /\ slot'[Reads[n][i]].state = "resolved"
  <2>1. n \in dependents'[m]
    BY <1>4
  <2>2. \A i \in 1 .. k : /\ n \in dependents'[Reads[n][i]]
                          /\ Reads[n][i] \in Slots =>
                               slot'[Reads[n][i]].alive /\ slot'[Reads[n][i]].state = "resolved"
    <3>1. k \in 0 .. Len(Reads[n])
      <4>1. Len(Reads[n]) \in Nat
        BY <1>1, Shapes
      <4> HIDE DEF k, n
      <4> QED  BY ONLY <1>2, <4>1
    <3>2. n \in Slots /\ Linked(n, k) /\ slot' = slot /\ EdgesKept
      BY <1>1, <1>3
    <3> HIDE DEF k, n
    <3> QED  BY ONLY <3>1, <3>2, StillLinked
  <2> HIDE DEF k, n
  <2>3. \A i \in 1 .. k + 1 : i \in 1 .. k \/ i = k + 1
    BY ONLY <1>2
  <2> QED  BY <1>2, <2>1, <2>2, <2>3
<1>8. Linked(n, task[c].read)'
  BY <1>7 DEF Linked
<1> QED  BY <1>4, <1>6, <1>8

(* A caller of getAsync reads one slot, from which it has its answer. *)
LEMMA ReaderReads ==
  ASSUME Waiting, Fitting, NEW r \in Readers
  PROVE  /\ r \in Clients /\ Program(r)[1] \in Slots /\ Len(Program(r)) = 1
         /\ task[r].phase = "run" /\ task[r].read < Len(Program(r)) =>
              /\ task[r].read = 0 /\ task[r].value = NoValue
              /\ NextRead(r) = Program(r)[1]
<1>1. r \in Clients /\ Program(r) = Reads[r] /\ Len(Reads[r]) = 1 /\ Reads[r][1] \in Slots
  BY GraphAssumption, Shapes DEF Nodes, Program
<1>2. task[r].read \in Nat
  BY <1>1, TaskParts DEF Waiting
<1> QED  BY <1>1, <1>2 DEF Fitting, ReaderFit, NextRead

(* What it has its answer from was right at some moment since its call. *)
LEMMA ReaderAnswered ==
  ASSUME Waiting, Fitting, NEW r \in Readers, task[r].phase = "run",
         task[r].read < Len(Program(r)), version' = version, asked'[r] = asked[r],
         NEW n \in Slots, NEW w, Reflects(n, Len(Reads[n]), w),
         task'[r].value = Join(task[r].value, w), task'[r].read = task[r].read + 1
  PROVE  ReaderFit(r)'
<1>1. task[r].read = 0 /\ task[r].value = NoValue
  BY ReaderReads
<1>2. \A s \in Sources : asked[r][s] <= version[s] /\ asked[r][s] \in Nat /\ version[s] \in Nat
  BY DEF Fitting, ReaderFit, Waiting, SlotsTyped, TasksTyped
<1>3. \A s \in Sources : task'[r].value[s] = {} \/ task'[r].value[s] = {version[s]}
  <2>1. \A s \in Sources : task'[r].value[s] = w[s]
    BY <1>1 DEF Join, NoValue
  <2>2. \A s \in Sources : w[s] = {} \/ w[s] = {version[s]}
    BY DEF Reflects
  <2> QED  BY ONLY <2>1, <2>2
<1> QED  BY <1>1, <1>2, <1>3 DEF ReaderFit

(* A read that registers its edge loses none. *)
LEMMA RegisterKeeps ==
  ASSUME Waiting, NEW c \in Clients, NEW n \in Nodes
  PROVE  /\ dependents' = Register(dependents, c, n) => EdgesKept
         /\ dependents' = RegisterFirst(c, n) => EdgesKept
BY RegisterTyped DEF EdgesKept, Waiting

(* A read of a source keeps Fitting. *)
LEMMA ReadSourceFits ==
  ASSUME Waiting, Fitting, NEW c \in Clients, ReadSource(c)
  PROVE  Fitting'
<1> DEFINE s == NextRead(c)
<1>1. /\ AtRead(c) /\ s \in Sources /\ s \in Nodes /\ s \notin Slots
      /\ dependents' = Register(dependents, c, s) /\ slot' = slot /\ version' = version /\ asked' = asked
  BY Shapes DEF ReadSource, Nodes
<1>2. EdgesKept
  <2> HIDE DEF s
  <2> QED  BY <1>1, RegisterKeeps
<1>3. /\ \A d \in Clients : d # c => task'[d] = task[d]
      /\ task'[c].rev = task[c].rev /\ task'[c].read = task[c].read + 1
      /\ task'[c].value = Join(task[c].value, SourceValue(s))
      /\ task'[c].on = None /\ task'[c].event = task[c].event
  <2>1. task \in [Clients -> Tasks] /\ task[c] \in Tasks
    BY DEF Waiting, TasksTyped
  <2>2. task' = [task EXCEPT ![c] = [task[c] EXCEPT !.read = @ + 1, !.value = Join(task[c].value, SourceValue(s))]]
    BY <2>1 DEF ReadSource
  <2>3. task'[c] = [task[c] EXCEPT !.read = @ + 1, !.value = Join(task[c].value, SourceValue(s))]
    BY <2>1, <2>2
  <2>4. task[c].on = None
    BY <1>1 DEF AtRead
  <2> QED  BY <2>1, <2>2, <2>3, <2>4 DEF Tasks
<1>4. \A x \in Sources : SourceValue(s)[x] = IF x \in OriginsOf(s) THEN {version[x]} ELSE {}
  BY <1>1 DEF SourceValue, OriginsOf
<1>5. ASSUME c \in Computes
      PROVE  BodyFit(c)'
  <2>1. c[1] \in dependents'[s]
    BY <1>1, <1>5, RegisterTyped DEF Waiting
  <2> DEFINE w == SourceValue(s)
  <2>2. \A x \in Sources : w[x] = IF x \in OriginsOf(s) THEN {version[x]} ELSE {}
    BY <1>4
  <2> HIDE DEF w
  <2>3. task'[c].value = Join(task[c].value, w) /\ s = NextRead(c)
    BY <1>3 DEF w
  <2> HIDE DEF s
  <2>4. ReadsOn(c, s, w)
    BY <1>1, <1>2, <1>3, <2>1, <2>2, <2>3 DEF ReadsOn
  <2> QED  BY <1>5, <2>4, OneMoreRead
<1>6. c \notin Readers
  <2> SUFFICES ASSUME c \in Readers PROVE FALSE
    OBVIOUS
  <2>1. Program(c)[1] \in Slots /\ NextRead(c) = Program(c)[1]
    BY <1>1, ReaderReads DEF AtRead
  <2> QED  BY <1>1, <2>1
<1> HIDE DEF s
<1> QED  BY <1>1, <1>2, <1>3, <1>5, <1>6, OneBodyFits

(* A read of a resolved slot takes a right value. *)
LEMMA GetResolvedFits ==
  ASSUME Waiting, Fitting, NEW c \in Clients, AtRead(c), NEW n \in Slots, n = NextRead(c),
         slot[n].alive, GetResolved(c, n), UNCHANGED <<version, asked>>
  PROVE  Fitting'
<1>1. slot' = slot /\ version' = version /\ asked' = asked /\ dependents' = RegisterFirst(c, n)
      /\ n \in Nodes /\ slot[n].state = "resolved"
  BY DEF GetResolved, Nodes
<1>2. EdgesKept
  BY <1>1, RegisterKeeps
<1>3. /\ \A d \in Clients : d # c => task'[d] = task[d]
      /\ task'[c].rev = task[c].rev /\ task'[c].read = task[c].read + 1
      /\ task'[c].value = Join(task[c].value, slot[n].value)
      /\ task'[c].on = None /\ task'[c].event = "none"
  <2>1. task \in [Clients -> Tasks] /\ task[c] \in Tasks
    BY DEF Waiting, TasksTyped
  <2> DEFINE x == [task[c] EXCEPT !.read = @ + 1, !.event = "none", !.value = Join(task[c].value, slot[n].value)]
  <2>2. task' = [task EXCEPT ![c] = x]
    BY <2>1 DEF GetResolved
  <2>3. task'[c] = x
    BY <2>1, <2>2
  <2>4. task[c].on = None
    BY DEF AtRead
  <2> QED  BY <2>1, <2>2, <2>3, <2>4 DEF Tasks
<1>4. Reflects(n, Len(Reads[n]), slot[n].value)
  BY <1>1 DEF Fitting, ValueFit
<1>5. ASSUME c \in Computes
      PROVE  BodyFit(c)'
  <2> DEFINE w == slot[n].value
  <2>1. Reflects(n, Len(Reads[n]), w)
    BY <1>4
  <2>2. task'[c].value = Join(task[c].value, w)
    BY <1>3
  <2> HIDE DEF w
  <2>3. \A x \in Sources : w[x] = IF x \in OriginsOf(n) THEN {version[x]} ELSE {}
    BY <2>1, FullyReflects
  <2>4. task[c].event = "none" => c[1] \in dependents'[n]
    BY <1>1, <1>5, RegisterTyped DEF Waiting, RegisterFirst
  <2>5. ReadsOn(c, n, w)
    BY <1>1, <1>2, <1>3, <2>2, <2>3, <2>4 DEF ReadsOn
  <2> QED  BY <1>5, <2>5, OneMoreRead
<1>6. ASSUME c \in Readers
      PROVE  ReaderFit(c)'
  <2> DEFINE w == slot[n].value
  <2>1. Reflects(n, Len(Reads[n]), w)
    BY <1>4
  <2>2. task'[c].value = Join(task[c].value, w) /\ task'[c].read = task[c].read + 1
    BY <1>3
  <2>3. task[c].phase = "run" /\ task[c].read < Len(Program(c))
    BY DEF AtRead
  <2> HIDE DEF w
  <2> QED  BY <1>1, <1>6, <2>1, <2>2, <2>3, ReaderAnswered
<1> QED  BY <1>1, <1>2, <1>3, <1>5, <1>6, OneBodyFits

(* A body that is now suspended, or was told of a dead node. *)
LEMMA BodyStaysFit ==
  ASSUME Waiting, Fitting, NEW c \in Clients, slot' = slot, version' = version, asked' = asked,
         EdgesKept, NEW x, task' = [task EXCEPT ![c] = x],
         x.phase = task[c].phase, x.rev = task[c].rev, x.read = task[c].read, x.value = task[c].value,
         x.event # "superseded" \/ x.event = task[c].event,
         c \in Computes /\ task[c].phase = "run" /\ MayPublish(c) /\ x.on # None =>
           c[1] \in dependents'[x.on[1]]
  PROVE  Fitting'
<1>1. task'[c] = x /\ \A d \in Clients : d # c => task'[d] = task[d]
  BY DEF Waiting, TasksTyped
<1>2. ASSUME c \in Computes
      PROVE  BodyFit(c)'
  <2> SUFFICES ASSUME task[c].phase = "run", MayPublish(c)
               PROVE  /\ Reflects(c[1], task[c].read, task[c].value)'
                      /\ Linked(c[1], task[c].read)'
                      /\ task'[c].event # "superseded"
    BY <1>1, <1>2 DEF BodyFit, MayPublish
  <2>1. c[1] \in Slots /\ Owner(c) = c[1]
    BY <1>2, Shapes
  <2>2. /\ Reflects(c[1], task[c].read, task[c].value) /\ Linked(c[1], task[c].read)
        /\ task[c].event # "superseded"
    BY <1>2 DEF Fitting, BodyFit
  <2>3. task[c].read \in 0 .. Len(Reads[c[1]])
    BY <2>1 DEF Waiting, Placed, Program
  <2>4. Linked(c[1], task[c].read)'
    <3>1. \A i \in 1 .. task[c].read :
             /\ c[1] \in dependents'[Reads[c[1]][i]]
             /\ Reads[c[1]][i] \in Slots =>
                  slot'[Reads[c[1]][i]].alive /\ slot'[Reads[c[1]][i]].state = "resolved"
      BY <2>1, <2>2, <2>3, StillLinked
    <3> QED  BY <1>1, <3>1 DEF Linked
  <2>5. Reflects(c[1], task[c].read, task[c].value)'
    <3>1. \A s \in Sources : task[c].value[s] =
             IF \E i \in 1 .. task[c].read : s \in OriginsOf(Reads[c[1]][i]) THEN {version'[s]} ELSE {}
      BY <2>2, StillReflects
    <3> QED  BY <1>1, <3>1, OriginsStay DEF Reflects
  <2> QED  BY <1>1, <2>2, <2>4, <2>5
<1>3. ASSUME c \in Readers
      PROVE  ReaderFit(c)'
  <2>1. ReaderFit(c)
    BY <1>3 DEF Fitting
  <2> QED  BY <1>1, <2>1 DEF ReaderFit
<1> QED  BY <1>1, <1>2, <1>3, OneBodyFits

(* A body that joins a compute has its edge before it is suspended. *)
LEMMA GetComputingFits ==
  ASSUME Waiting, Fitting, NEW c \in Clients, AtRead(c), NEW n \in Slots, n = NextRead(c),
         slot[n].alive, GetComputing(c, n), UNCHANGED <<version, asked>>
  PROVE  Fitting'
<1> DEFINE x == [task[c] EXCEPT !.on = Current(n)]
<1>1. slot' = slot /\ version' = version /\ asked' = asked /\ dependents' = RegisterFirst(c, n) /\ n \in Nodes
      /\ task' = [task EXCEPT ![c] = x] /\ task[c] \in Tasks
  BY DEF GetComputing, Nodes, Waiting, TasksTyped
<1>2. EdgesKept
  BY <1>1, RegisterKeeps
<1>3. /\ x.phase = task[c].phase /\ x.rev = task[c].rev /\ x.read = task[c].read /\ x.value = task[c].value
      /\ x.event = task[c].event /\ x.on[1] = n
  BY <1>1, CurrentIs DEF Tasks, Waiting
<1>4. ASSUME c \in Computes, task[c].phase = "run", MayPublish(c)
      PROVE  c[1] \in dependents'[x.on[1]]
  <2>1. task[c].event = "none"
    BY <1>1, <1>4 DEF Fitting, BodyFit, AtRead, Tasks
  <2> QED  BY <1>1, <1>3, <1>4, <2>1, RegisterTyped DEF Waiting, RegisterFirst
<1> HIDE DEF x
<1> QED  BY <1>1, <1>2, <1>3, <1>4, BodyStaysFit

(* A read of a disposed slot adds nothing to a value. *)
LEMMA GetDisposedFits ==
  ASSUME Waiting, Fitting, NEW c \in Clients, AtRead(c), NEW n \in Slots, n = NextRead(c),
         GetDisposed(c, n), UNCHANGED <<version, asked>>
  PROVE  Fitting'
<1> DEFINE x == [task[c] EXCEPT !.event = "error"]
<1>1. slot' = slot /\ version' = version /\ asked' = asked /\ dependents' = RegisterFirst(c, n) /\ n \in Nodes
      /\ task' = [task EXCEPT ![c] = x] /\ task[c] \in Tasks
  BY DEF GetDisposed, Nodes, Waiting, TasksTyped
<1>2. EdgesKept
  BY <1>1, RegisterKeeps
<1>3. /\ x.phase = task[c].phase /\ x.rev = task[c].rev /\ x.read = task[c].read /\ x.value = task[c].value
      /\ x.event = "error" /\ x.on = None
  BY <1>1 DEF Tasks, AtRead
<1> HIDE DEF x
<1> QED  BY <1>1, <1>2, <1>3, BodyStaysFit

(* A spawned compute has read nothing yet, and its spawner waits with an     *)
(* edge.                                                                     *)
LEMMA GetSpawnsFits ==
  ASSUME Waiting, Fitting, NEW c \in Clients, AtRead(c), NEW n \in Slots, n = NextRead(c),
         slot[n].alive, GetSpawns(c, n), UNCHANGED <<version, asked>>
  PROVE  Fitting'
<1> DEFINE t == <<n, slot[n].spawns + 1>>
<1>1. /\ t \in Computes /\ t # c /\ task[t].phase = "off"
      /\ \A d \in Clients : d # c /\ d # t => task'[d] = task[d]
      /\ task'[c].on = t /\ task'[c].read = task[c].read /\ task'[c].phase = task[c].phase
      /\ task'[c].event = task[c].event /\ task'[c].rev = task[c].rev /\ task'[c].value = task[c].value
      /\ task'[t].on = None /\ task'[t].read = 0 /\ task'[t].event = "none" /\ task'[t].value = NoValue
      /\ slot'[n].state = "computing" /\ slot'[n].revision = slot[n].revision
      /\ slot'[n].alive = slot[n].alive
      /\ \A m \in Slots : m # n => slot'[m] = slot[m]
  <2>1. Spawned(c, n)
    BY GetSpawnsIs
  <2> QED  BY <2>1 DEF Spawned
<1>2. t[1] = n /\ t \in Clients
  BY <1>1, Shapes
<1> HIDE DEF t
<1>3. /\ slot[n].state # "resolved" /\ slot[n].state # "computing" /\ n \in Nodes
      /\ \A m \in Nodes : dependents'[m] = RegisterFirst(c, n)[m] \ {n}
      /\ version' = version /\ asked' = asked
  BY DEF GetSpawns, Nodes
<1>4. \A m \in Nodes : (dependents[m] \cap Slots) \ {n} \subseteq dependents'[m]
  BY <1>3, RegisterTyped DEF Waiting
<1>5. ASSUME NEW m \in Slots \ {n}, NEW k \in 0 .. Len(Reads[m]), Linked(m, k)
      PROVE  \A i \in 1 .. k :
               /\ m \in dependents'[Reads[m][i]]
               /\ Reads[m][i] \in Slots => slot'[Reads[m][i]].alive /\ slot'[Reads[m][i]].state = "resolved"
  <2> SUFFICES ASSUME NEW i \in 1 .. k
               PROVE  /\ m \in dependents'[Reads[m][i]]
                      /\ Reads[m][i] \in Slots => slot'[Reads[m][i]].alive /\ slot'[Reads[m][i]].state = "resolved"
    OBVIOUS
  <2>1. i \in 1 .. Len(Reads[m])
    BY Shapes
  <2>2. Reads[m][i] \in Nodes
    BY <2>1, Shapes
  <2>3. /\ m \in dependents[Reads[m][i]]
        /\ Reads[m][i] \in Slots => slot[Reads[m][i]].alive /\ slot[Reads[m][i]].state = "resolved"
    BY <1>5 DEF Linked
  <2> QED  BY <1>1, <1>3, <1>4, <2>2, <2>3
<1>6. ASSUME NEW m \in Slots
      PROVE  ValueFit(m)'
  <2> SUFFICES ASSUME slot'[m].alive, slot'[m].state = "resolved"
               PROVE  Reflects(m, Len(Reads[m]), slot[m].value)' /\ Linked(m, Len(Reads[m]))'
    BY DEF ValueFit
  <2>1. m # n /\ slot'[m] = slot[m]
    BY <1>1
  <2>2. Reflects(m, Len(Reads[m]), slot[m].value) /\ Linked(m, Len(Reads[m]))
    BY <2>1 DEF Fitting, ValueFit
  <2>3. Len(Reads[m]) \in 0 .. Len(Reads[m])
    BY Shapes
  <2>4. Linked(m, Len(Reads[m]))'
    BY <1>5, <2>1, <2>2, <2>3 DEF Linked
  <2>5. \A s \in Sources : slot[m].value[s] =
           IF \E i \in 1 .. Len(Reads[m]) : s \in OriginsOf(Reads[m][i]) THEN {version'[s]} ELSE {}
    BY <1>3, <2>2, StillReflects
  <2> QED  BY <2>1, <2>4, <2>5, OriginsStay DEF Reflects
<1>7. ASSUME NEW x \in Computes
      PROVE  BodyFit(x)'
  <2> SUFFICES ASSUME task'[x].phase = "run", MayPublish(x)'
               PROVE  /\ Reflects(x[1], task[x].read, task[x].value)'
                      /\ Linked(x[1], task[x].read)'
                      /\ task'[x].event # "superseded"
                      /\ task'[x].on # None => x[1] \in dependents'[task'[x].on[1]]
    BY DEF BodyFit
  <2>1. x \in Clients /\ x[1] \in Slots /\ Owner(x) = x[1]
    BY Shapes
  <2>2. CASE x = t
    <3>1. Linked(x[1], task[x].read)'
      BY <1>1, <2>2 DEF Linked
    <3>2. \A s \in Sources : task'[x].value[s] = {}
      BY <1>1, <2>2 DEF NoValue
    <3>3. task'[x].read = 0
      BY <1>1, <2>2
    <3>4. Reflects(x[1], task[x].read, task[x].value)'
      BY <3>2, <3>3 DEF Reflects
    <3> QED  BY <1>1, <2>2, <3>1, <3>4
  <2>3. CASE x # t
    <3>1. /\ task'[x].phase = task[x].phase /\ task'[x].rev = task[x].rev /\ task'[x].read = task[x].read
          /\ task'[x].value = task[x].value /\ task'[x].event = task[x].event
      BY <1>1, <2>1, <2>3
    <3>2. MayPublish(x) /\ x[1] # n
      <4>1. MayPublish(x)
        BY <1>1, <2>1, <3>1 DEF MayPublish
      <4>2. slot[x[1]].state = "computing"
        BY <3>1, <4>1 DEF Waiting, ComputeFit
      <4> QED  BY <1>3, <4>1, <4>2
    <3>3. /\ Reflects(x[1], task[x].read, task[x].value) /\ Linked(x[1], task[x].read)
          /\ task[x].event # "superseded"
          /\ task[x].on # None => x[1] \in dependents[task[x].on[1]]
      BY <3>1, <3>2 DEF Fitting, BodyFit
    <3>4. task[x].read \in 0 .. Len(Reads[x[1]])
      BY <2>1 DEF Waiting, Placed, Program
    <3>5. Linked(x[1], task[x].read)'
      <4>1. \A i \in 1 .. task[x].read :
               /\ x[1] \in dependents'[Reads[x[1]][i]]
               /\ Reads[x[1]][i] \in Slots =>
                    slot'[Reads[x[1]][i]].alive /\ slot'[Reads[x[1]][i]].state = "resolved"
        BY <1>5, <2>1, <3>2, <3>3, <3>4
      <4> QED  BY <3>1, <4>1 DEF Linked
    <3>6. Reflects(x[1], task[x].read, task[x].value)'
      <4>1. \A s \in Sources : task[x].value[s] =
               IF \E i \in 1 .. task[x].read : s \in OriginsOf(Reads[x[1]][i]) THEN {version'[s]} ELSE {}
        BY <1>3, <3>3, StillReflects
      <4> QED  BY <3>1, <4>1, OriginsStay DEF Reflects
    <3>7. task'[x].on # None => x[1] \in dependents'[task'[x].on[1]]
      <4>1. CASE x = c
        <5>1. task[c].event = "none"
          <6>1. task[c] \in Tasks
            BY TaskParts DEF Waiting
          <6> QED  BY <3>3, <4>1, <6>1 DEF AtRead, Tasks
        <5>2. c[1] \in RegisterFirst(c, n)[n]
          BY <1>3, <4>1, <5>1, RegisterTyped DEF Waiting, RegisterFirst
        <5> QED  BY <1>1, <1>2, <1>3, <3>2, <4>1, <5>2
      <4>2. CASE x # c
        <5>1. task'[x] = task[x]
          BY <1>1, <2>1, <2>3, <4>2
        <5>2. task[x].on # None => task[x].on[1] \in Nodes
          BY <2>1, AwaitedPublishes, Shapes DEF Nodes
        <5> QED  BY <1>4, <2>1, <3>2, <3>3, <5>1, <5>2
      <4> QED  BY <4>1, <4>2
    <3> QED  BY <3>1, <3>3, <3>5, <3>6, <3>7
  <2> QED  BY <2>2, <2>3
<1>8. ASSUME NEW r \in Readers
      PROVE  ReaderFit(r)'
  <2>1. r \in Clients /\ r \notin Computes /\ ReaderFit(r)
    BY Shapes DEF Fitting
  <2>2. task'[r].phase = task[r].phase /\ task'[r].read = task[r].read /\ task'[r].value = task[r].value
    BY <1>1, <2>1
  <2> QED  BY <1>3, <2>1, <2>2 DEF ReaderFit
<1> QED  BY <1>6, <1>7, <1>8 DEF Fitting

(* A read of a slot, in its four forms, keeps Fitting. *)
LEMMA ReadSlotFits ==
  ASSUME Waiting, Fitting, NEW c \in Clients, ReadSlot(c)
  PROVE  Fitting'
<1>1. AtRead(c) /\ NextRead(c) \in Slots /\ UNCHANGED <<version, asked>>
  BY DEF ReadSlot
<1> QED  BY <1>1, GetResolvedFits, GetComputingFits, GetSpawnsFits, GetDisposedFits DEF ReadSlot

(* A compute that ends: its value is its slot's, and its waiters have it.  *)
LEMMA EndsFits ==
  ASSUME Waiting, Fitting, NEW t \in Computes, task[t].phase = "run", task[t].on = None,
         NEW event \in {"resolved", "error"}, NEW value \in NoResults, Ends(t, event, value),
         event = "resolved" => value = task[t].value /\ task[t].read = Len(Program(t)),
         UNCHANGED <<version, dependents, inflight, asked>>
  PROVE  Fitting'
<1>0. Ended(t, event, value)
  BY EndsIs
<1> DEFINE n == t[1]
<1>1. t \in Clients /\ n \in Slots /\ Owner(t) = n /\ Program(t) = Reads[n] /\ Len(Reads[n]) \in Nat
  BY Shapes DEF Program
<1>2. task'[t].phase = "published"
  <2>1. task[t] \in Tasks
    BY <1>1, TaskParts DEF Waiting
  <2> QED  BY <1>0, <2>1 DEF Ended, Tasks
<1>3. /\ \A m \in Slots : m # n => slot'[m] = slot[m]
      /\ slot'[n].alive = slot[n].alive /\ slot'[n].revision = slot[n].revision
      /\ ~MayPublish(t) => slot' = slot
      /\ MayPublish(t) => /\ slot[n].state = "computing" /\ slot[n].alive
                          /\ slot'[n].state = event /\ slot'[n].value = value
  <2>1. slot[n] \in [alive : BOOLEAN, state : {"empty", "computing", "resolved", "error"},
                         value : NoResults, revision : Nat, spawns : 0 .. MaxSpawns]
    BY <1>1 DEF Waiting, SlotsTyped
  <2>2. CASE MayPublish(t)
    <3>1. slot'[n] = [slot[n] EXCEPT !.state = event, !.value = value]
          /\ \A m \in Slots : m # n => slot'[m] = slot[m]
      BY <1>0, <2>2 DEF Ended
    <3>2. slot[n].state = "computing" /\ slot[n].alive
      BY <2>2 DEF Waiting, ComputeFit, MayPublish
    <3> QED  BY <2>1, <2>2, <3>1, <3>2
  <2>3. CASE ~MayPublish(t)
    <3>1. slot' = slot
      BY <1>0, <2>3 DEF Ended
    <3> QED BY <2>3, <3>1
  <2> QED  BY <2>2, <2>3
<1>4. ASSUME NEW m \in Slots, NEW k \in 0 .. Len(Reads[m]), Linked(m, k)
      PROVE  \A i \in 1 .. k :
               /\ m \in dependents'[Reads[m][i]]
               /\ Reads[m][i] \in Slots => slot'[Reads[m][i]].alive /\ slot'[Reads[m][i]].state = "resolved"
  BY <1>3, <1>4 DEF Linked
<1>5. MayPublish(t) => Reflects(n, task[t].read, task[t].value) /\ Linked(n, task[t].read)
  BY DEF Fitting, BodyFit
<1>6. ASSUME NEW m \in Slots
      PROVE  ValueFit(m)'
  <2> SUFFICES ASSUME slot'[m].alive, slot'[m].state = "resolved"
               PROVE  Reflects(m, Len(Reads[m]), slot[m].value)' /\ Linked(m, Len(Reads[m]))'
    BY DEF ValueFit
  <2>1. Reflects(m, Len(Reads[m]), slot'[m].value) /\ Linked(m, Len(Reads[m]))
    <3>1. CASE m = n /\ MayPublish(t)
      <4>1. event = "resolved"
        BY <1>3, <3>1
      <4>2. slot'[m].value = task[t].value /\ task[t].read = Len(Reads[m])
        BY <1>1, <1>3, <3>1, <4>1
      <4> QED  BY <1>5, <3>1, <4>2
    <3>2. CASE m # n \/ ~MayPublish(t)
      <4>1. slot'[m] = slot[m]
        BY <1>3, <3>2
      <4> QED  BY <4>1 DEF Fitting, ValueFit
    <3> QED  BY <3>1, <3>2
  <2>2. Len(Reads[m]) \in 0 .. Len(Reads[m])
    BY Shapes
  <2>3. Linked(m, Len(Reads[m]))'
    BY <1>4, <2>1, <2>2 DEF Linked
  <2>4. \A s \in Sources : slot'[m].value[s] =
           IF \E i \in 1 .. Len(Reads[m]) : s \in OriginsOf(Reads[m][i]) THEN {version'[s]} ELSE {}
    BY <2>1, StillReflects
  <2> QED  BY <2>3, <2>4, OriginsStay DEF Reflects
<1>7. ASSUME NEW x \in Computes
      PROVE  BodyFit(x)'
  <2> SUFFICES ASSUME task'[x].phase = "run", MayPublish(x)'
               PROVE  /\ Reflects(x[1], task[x].read, task[x].value)'
                      /\ Linked(x[1], task[x].read)'
                      /\ task'[x].event # "superseded"
                      /\ task'[x].on # None => x[1] \in dependents'[task'[x].on[1]]
    BY DEF BodyFit
  <2>1. x \in Clients /\ x[1] \in Slots /\ Owner(x) = x[1] /\ Program(x) = Reads[x[1]] /\ x # t
    BY <1>2, Shapes DEF Program
  <2>2. task'[x].phase = task[x].phase /\ task'[x].rev = task[x].rev
    BY <1>0, <2>1 DEF Ended
  <2>3. MayPublish(x)
    BY <1>3, <2>1, <2>2 DEF MayPublish
  <2>4. /\ Reflects(x[1], task[x].read, task[x].value) /\ Linked(x[1], task[x].read)
        /\ task[x].event # "superseded"
        /\ task[x].on # None => x[1] \in dependents[task[x].on[1]]
    BY <2>2, <2>3 DEF Fitting, BodyFit
  <2>5. Placed(x, task[x]) /\ task[x].read \in 0 .. Len(Reads[x[1]])
    BY <2>1 DEF Waiting, Placed
  <2> DEFINE m == x[1]
             k == task[x].read
             v == task[x].value
  <2>6. /\ \A i \in 1 .. k :
             /\ m \in dependents'[Reads[m][i]]
             /\ Reads[m][i] \in Slots => slot'[Reads[m][i]].alive /\ slot'[Reads[m][i]].state = "resolved"
    BY <1>4, <2>1, <2>4, <2>5
  <2>7. CASE task'[x].read = k /\ task'[x].value = v
    <3>1. Linked(m, task[x].read)'
      BY <2>6, <2>7 DEF Linked
    <3>2. \A s \in Sources : v[s] =
             IF \E i \in 1 .. k : s \in OriginsOf(Reads[m][i]) THEN {version'[s]} ELSE {}
      BY <2>4, StillReflects
    <3>3. Reflects(m, task[x].read, task[x].value)'
      BY <2>7, <3>2, OriginsStay DEF Reflects
    <3>4. task'[x].event # "superseded" /\ (task'[x].on # None => task'[x].on = task[x].on)
      BY <1>0, <2>1, <2>4 DEF Ended
    <3> QED  BY <2>4, <3>1, <3>3, <3>4
  <2>8. CASE task[x].on = t /\ event = "resolved"
    <3>1. /\ task'[x].on = None /\ task'[x].event = "none"
          /\ task'[x].read = k + 1 /\ task'[x].value = Join(v, value)
      BY <1>0, <2>1, <2>8 DEF Ended
    <3>2. MayPublish(t)
      BY <1>0, <2>1, <2>8 DEF Ended
    <3>3. Reads[m][k + 1] = n /\ k \in Nat
      <4>1. t # None
        BY Shapes
      <4> QED  BY <2>1, <2>5, <2>8, <4>1 DEF Placed
    <3>4. Reflects(n, Len(Reads[n]), value)
      BY <1>1, <1>5, <2>8, <3>2
    <3>5. \A s \in Sources : value[s] = IF s \in OriginsOf(Reads[m][k + 1]) THEN {version[s]} ELSE {}
      BY <1>1, <3>3, <3>4, FullyReflects
    <3>6. Reflects(m, k + 1, Join(v, value))
      <4>1. Reflects(m, k, v)
        BY <2>4
      <4> HIDE DEF m, k, v
      <4> QED  BY <3>3, <3>5, <4>1, ReflectsOneMore
    <3>7. \A s \in Sources : Join(v, value)[s] =
             IF \E i \in 1 .. k + 1 : s \in OriginsOf(Reads[m][i]) THEN {version'[s]} ELSE {}
      BY <3>6, StillReflects
    <3>8. Reflects(m, task[x].read, task[x].value)'
      BY <3>1, <3>7, OriginsStay DEF Reflects
    <3>9. m \in dependents'[n] /\ slot'[n].alive /\ slot'[n].state = "resolved"
      <4>1. t # None
        BY Shapes
      <4> QED  BY <1>3, <2>4, <2>8, <3>2, <4>1
    <3>10. \A i \in 1 .. k + 1 : i \in 1 .. k \/ i = k + 1
      BY <3>3
    <3>11. \A i \in 1 .. k + 1 :
             /\ m \in dependents'[Reads[m][i]]
             /\ Reads[m][i] \in Slots => slot'[Reads[m][i]].alive /\ slot'[Reads[m][i]].state = "resolved"
      <4> HIDE DEF m, k
      <4> QED  BY <2>6, <3>3, <3>9, <3>10
    <3>12. Linked(m, task[x].read)'
      BY <3>1, <3>11 DEF Linked
    <3> QED  BY <3>1, <3>8, <3>12
  <2>9. \/ task[x].on = t /\ event = "resolved"
        \/ task'[x].read = k /\ task'[x].value = v
    BY <1>0, <2>1 DEF Ended
  <2> QED  BY <2>7, <2>8, <2>9
<1>8. ASSUME NEW r \in Readers
      PROVE  ReaderFit(r)'
  <2>1. r \in Clients /\ r # t /\ ReaderFit(r) /\ Placed(r, task[r])
    BY Shapes DEF Fitting, Waiting
  <2>2. CASE task[r].on = t /\ event = "resolved"
    <3>1. task'[r].read = task[r].read + 1 /\ task'[r].value = Join(task[r].value, value)
      BY <1>0, <2>1, <2>2 DEF Ended
    <3>2. MayPublish(t)
      BY <1>0, <2>1, <2>2 DEF Ended
    <3>3. Reflects(n, Len(Reads[n]), value)
      BY <1>1, <1>5, <2>2, <3>2
    <3>4. task[r].phase = "run" /\ task[r].read < Len(Program(r))
      <4>1. t # None
        BY Shapes
      <4> QED  BY <2>1, <2>2, <4>1 DEF Placed
    <3> HIDE DEF n
    <3> QED  BY <1>1, <3>1, <3>3, <3>4, ReaderAnswered
  <2>3. CASE ~(task[r].on = t /\ event = "resolved")
    <3>1. task'[r].phase = task[r].phase /\ task'[r].read = task[r].read /\ task'[r].value = task[r].value
      BY <1>0, <2>1, <2>3 DEF Ended
    <3> QED  BY <2>1, <3>1 DEF ReaderFit
  <2> QED  BY <2>2, <2>3
<1> QED  BY <1>6, <1>7, <1>8 DEF Fitting

(* A finally block keeps Fitting: no edge and no value changes. *)
LEMMA FinallyFits ==
  ASSUME Waiting, Fitting, NEW t \in Computes, Finally(t)
  PROVE  Fitting'
<1>1. t \in Clients /\ t \notin Readers
  BY Shapes
<1>2. /\ slot' = slot /\ version' = version /\ asked' = asked /\ EdgesKept
      /\ task'[t] = IdleTask /\ \A d \in Clients : d # t => task'[d] = task[d]
  BY <1>1 DEF Finally, EdgesKept, Waiting, TasksTyped
<1>3. BodyFit(t)'
  BY <1>2 DEF BodyFit, IdleTask
<1> QED  BY <1>1, <1>2, <1>3, OneBodyFits

(* So do the steps of an effect: they take away its own edges only. *)
LEMMA EffectFits ==
  ASSUME Waiting, Fitting, NEW e \in Effects, EffectStart(e) \/ EffectFinish(e) \/ EffectStop(e)
  PROVE  Fitting'
<1>1. e \in Clients /\ e \notin Computes /\ e \notin Readers /\ e \notin Slots
  BY Shapes
<1>2. /\ slot' = slot /\ version' = version /\ asked' = asked
      /\ \A d \in Clients : d # e => task'[d] = task[d]
  BY DEF EffectStart, EffectFinish, EffectStop, Waiting, TasksTyped, graphVars
<1>3. EdgesKept
  BY <1>1 DEF EffectStart, EffectFinish, EffectStop, EdgesKept, graphVars
<1> QED  BY <1>1, <1>2, <1>3, OneBodyFits

(* A call of getAsync notes the versions of its moment. *)
LEMMA ReaderFits ==
  ASSUME Waiting, Fitting, NEW r \in Readers, ReaderCall(r) \/ ReaderReturn(r)
  PROVE  Fitting'
<1>1. r \in Clients /\ r \notin Computes /\ task[r] \in Tasks
  BY Shapes, TaskParts DEF Waiting
<1>2. /\ slot' = slot /\ version' = version /\ EdgesKept
      /\ \A d \in Clients : d # r => task'[d] = task[d]
      /\ \A q \in Readers : q # r => asked'[q] = asked[q]
  BY DEF ReaderCall, ReaderReturn, Waiting, TasksTyped, graphVars, EdgesKept
<1>3. \A s \in Sources : version[s] \in Nat
  BY DEF Waiting, SlotsTyped
<1>4. CASE ReaderCall(r)
  <2>1. asked'[r] = version /\ task'[r] = RunningTask(0)
    BY <1>1, <1>4 DEF ReaderCall, Waiting, TasksTyped
  <2>2. task'[r].value = NoValue
    BY <2>1 DEF RunningTask, IdleTask
  <2>3. \A s \in Sources : task'[r].value[s] = {}
    BY <2>2 DEF NoValue
  <2>4. \A s \in Sources : asked'[r][s] <= version'[s]
    BY <1>2, <1>3, <2>1
  <2> QED  BY <1>1, <1>2, <2>2, <2>3, <2>4, OneBodyFits DEF ReaderFit
<1>5. CASE ReaderReturn(r)
  <2>1. asked' = asked /\ task'[r] = [task[r] EXCEPT !.phase = "returned"] /\ task[r].phase = "run"
    BY <1>1, <1>5 DEF ReaderReturn, Waiting, TasksTyped
  <2>2. task'[r].value = task[r].value /\ task'[r].read = task[r].read
    BY <1>1, <2>1 DEF Tasks
  <2>3. ReaderFit(r)
    BY DEF Fitting
  <2>4. ReaderFit(r)'
    BY <1>2, <2>1, <2>2, <2>3 DEF ReaderFit
  <2> QED  BY <1>1, <1>2, <2>4, OneBodyFits
<1> QED  BY <1>4, <1>5

(* What leaves the nodes and the bodies alone keeps Fitting. *)
LEMMA StutterFits ==
  ASSUME Waiting, Fitting, UNCHANGED <<version, slot, dependents, inflight, task, asked>>
  PROVE  Fitting'
<1>1. Fitting' <=> Fitting
  BY OriginsStay DEF Fitting, ValueFit, BodyFit, ReaderFit, MayPublish, Reflects, Linked
<1> QED  BY <1>1

(* Fitting holds at the start. *)
LEMMA InitFits ==
  ASSUME GraphInit
  PROVE  Fitting
<1>1. \A c \in Clients : task[c].phase \in {"off", "loop"}
  BY DEF GraphInit, IdleTask
<1>2. \A n \in Slots : ValueFit(n)
  BY DEF ValueFit, GraphInit
<1>3. \A t \in Computes : BodyFit(t)
  BY <1>1, Shapes DEF BodyFit
<1>4. \A r \in Readers : ReaderFit(r)
  <2>1. \A r \in Readers : \A s \in Sources : asked[r][s] <= version[s]
    BY DEF GraphInit
  <2> QED  BY <1>1, <2>1, Shapes DEF ReaderFit
<1> QED  BY <1>2, <1>3, <1>4 DEF Fitting

(* Every step keeps Fitting. *)
LEMMA NextFits ==
  ASSUME Waiting, Fitting, [GraphNext]_asyncVars
  PROVE  Fitting'
<1>1. CASE \E ss \in SUBSET Sources : WriteSources(ss)
  BY <1>1, WriteFits
<1>2. CASE \E n \in Slots : DisposeSlot(n)
  BY <1>2, DisposeSlotFits
<1>3. ASSUME NEW c \in Clients, Progress(c)
      PROVE  Fitting'
  <2>1. CASE ReadSource(c)
    BY <2>1, ReadSourceFits
  <2>2. CASE ReadSlot(c)
    BY <2>2, ReadSlotFits
  <2>3. CASE c \in Computes /\ Publish(c)
    BY <2>3, PublishEnds, EndsFits
  <2>4. CASE c \in Computes /\ PublishError(c)
    <3>1. /\ task[c].phase = "run" /\ task[c].on = None /\ NoValue \in NoResults
          /\ Ends(c, "error", NoValue)
          /\ UNCHANGED <<version, dependents, inflight, asked>>
      BY <2>4, PublishEnds
    <3> DEFINE event == "error"
    <3>2. event \in {"resolved", "error"} /\ event # "resolved" /\ Ends(c, event, NoValue)
      BY <3>1
    <3> HIDE DEF event
    <3> QED  BY <2>4, <3>1, <3>2, EndsFits
  <2>5. CASE c \in Computes /\ Finally(c)
    BY <2>5, FinallyFits
  <2>6. CASE c \in Effects /\ (EffectStart(c) \/ EffectFinish(c) \/ EffectStop(c))
    BY <2>6, EffectFits
  <2>7. CASE c \in Readers /\ ReaderReturn(c)
    BY <2>7, ReaderFits
  <2> QED  BY <1>3, <2>1, <2>2, <2>3, <2>4, <2>5, <2>6, <2>7 DEF Progress
<1>4. CASE \E r \in Readers : ReaderCall(r)
  BY <1>4, ReaderFits
<1>5. CASE \E w \in Settlers : SettleCheck(w)
  BY <1>5, StutterFits DEF SettleCheck, graphVars
<1>6. CASE UNCHANGED asyncVars
  BY <1>6, StutterFits DEF asyncVars, graphVars, clientVars
<1> QED  BY <1>1, <1>2, <1>3, <1>4, <1>5, <1>6 DEF GraphNext

(* The invariant gives what is claimed of values and answers. *)
LEMMA FittingShows ==
  ASSUME Waiting, Fitting
  PROVE  NothingStale
<1>1. GraphTypeOK
  BY DEF GraphTypeOK, Waiting, SlotsTyped, TasksTyped, Tasks, Placed
<1>2. ASSUME NEW n \in Slots, slot[n].alive, slot[n].state = "resolved"
      PROVE  /\ slot[n].value = Fresh(n)
             /\ \A i \in DOMAIN Reads[n] : Reads[n][i] \in Slots => slot[Reads[n][i]].alive
  <2>1. Reflects(n, Len(Reads[n]), slot[n].value) /\ Linked(n, Len(Reads[n]))
    BY <1>2 DEF Fitting, ValueFit
  <2>2. slot[n].value \in [Sources -> SUBSET Nat]
    BY DEF Waiting, SlotsTyped, NoResults
  <2>3. \A s \in Sources : slot[n].value[s] = IF s \in Origins(n) THEN {version[s]} ELSE {}
    BY <2>1, OriginsStep DEF Reflects
  <2>4. slot[n].value = Fresh(n)
    BY <2>2, <2>3 DEF Fresh
  <2>5. DOMAIN Reads[n] = 1 .. Len(Reads[n])
    <3>1. Reads[n] \in Seq(Sources \cup Slots)
      BY GraphAssumption DEF Nodes
    <3> QED  BY <3>1
  <2> QED  BY <2>1, <2>4, <2>5 DEF Linked
<1>3. ResolvedIsFresh
  BY <1>2 DEF ResolvedIsFresh
<1>4. ASSUME NEW r \in Readers, task[r].phase = "returned", NEW s \in Sources
      PROVE  /\ Cardinality(task[r].value[s]) <= 1
             /\ \A x \in task[r].value[s] : x >= asked[r][s]
  <2>1. \/ task[r].value[s] = {}
        \/ \E x \in Nat : task[r].value[s] = {x} /\ asked[r][s] <= x
    BY <1>4 DEF Fitting, ReaderFit
  <2>2. asked[r][s] \in Nat
    BY DEF Waiting, TasksTyped
  <2>3. CASE task[r].value[s] = {}
    BY <2>3, FS_EmptySet
  <2>4. ASSUME NEW x \in Nat, task[r].value[s] = {x}, asked[r][s] <= x
        PROVE  /\ Cardinality(task[r].value[s]) <= 1
               /\ \A y \in task[r].value[s] : y >= asked[r][s]
    BY <2>2, <2>4, FS_Singleton
  <2> QED  BY <2>1, <2>3, <2>4
<1>5. AnswersAreRecent
  BY <1>4 DEF AnswersAreRecent
<1> QED  BY <1>1, <1>3, <1>5 DEF NothingStale

-----------------------------------------------------------------------------
(* For any graph of sources, slots, effects and callers, and any             *)
(* interleaving of the bodies with writes, disposals and rejections: every   *)
(* waiter has a compute that will serve it, and every value says what it was *)
(* made from.                                                                *)
THEOREM AsyncInvariant == GraphSpec => [](Waiting /\ Fitting)
<1>1. GraphInit => Waiting /\ Fitting
  BY InitWaits, InitFits
<1>2. (Waiting /\ Fitting) /\ [GraphNext]_asyncVars => (Waiting /\ Fitting)'
  BY NextWaits, NextFits
<1> QED  BY <1>1, <1>2, PTL DEF GraphSpec

(* Nobody awaits a compute that has ended or was superseded, whoever joined  *)
(* it and whatever emptied its slot while it ran.                            *)
THEOREM WaitersAlwaysServed == GraphSpec => []WaitersAreServed
<1>1. Waiting /\ Fitting => WaitersAreServed
  BY WaitingServes
<1> QED  BY <1>1, AsyncInvariant, PTL

(* A resolved slot holds the current version of each source it depends on    *)
(* and nothing else, never a mixture of before and after a batch, though     *)
(* computes are superseded and resume between any two reads; and an answer   *)
(* of getAsync has nothing from before the call.                             *)
THEOREM NothingEverStale == GraphSpec => []NothingStale
<1>1. Waiting /\ Fitting => NothingStale
  BY FittingShows
<1> QED  BY <1>1, AsyncInvariant, PTL

-----------------------------------------------------------------------------
(* For any number of realms: the mutex excludes, and no wakeup is lost.      *)

Places == {"outside", "exchange", "wait", "inside", "notify", "parked"}

(* What the three invariants rest on: a realm holds a depth exactly while it *)
(* is inside, alone, with the word set; and it is parked at one place of the *)
(* queue exactly while it says so.                                           *)
MutexFit ==
  /\ word \in {0, 1}
  /\ depth \in [Realms -> 0..MaxDepth]
  /\ pc \in [Realms -> Places]
  /\ parked \in Seq(Realms)
  /\ \A r \in Realms : depth[r] > 0 <=> pc[r] = "inside"
  /\ \A r, s \in Realms : pc[r] = "inside" /\ pc[s] = "inside" => r = s
  /\ word = 1 <=> \E r \in Realms : pc[r] = "inside"
  /\ \A r \in Realms : pc[r] = "parked" <=> \E i \in DOMAIN parked : parked[i] = r
  /\ \A i, j \in DOMAIN parked : parked[i] = parked[j] => i = j
  /\ Mutex!ParkedWillWake

(* Whatever the head of the queue is, the rest of it is what stood behind.   *)
LEMMA HeadAndTail ==
  ASSUME NEW S, NEW q \in Seq(S), q # <<>>
  PROVE  /\ Head(q) = q[1] /\ Head(q) \in S
         /\ Tail(q) \in Seq(S)
         /\ 1 \in DOMAIN q
         /\ \A i \in DOMAIN Tail(q) : i + 1 \in DOMAIN q /\ Tail(q)[i] = q[i + 1]
         /\ \A i \in DOMAIN q : i # 1 => i - 1 \in DOMAIN Tail(q) /\ Tail(q)[i - 1] = q[i]
  OBVIOUS

(* A realm that moves on outside the sections and the queue disturbs nobody. *)
LEMMA MovesOn ==
  ASSUME MutexFit, NEW r \in Realms, NEW to \in {"outside", "exchange", "wait", "notify"},
         pc[r] \in {"outside", "exchange", "wait", "notify"},
         pc' = [pc EXCEPT ![r] = to], UNCHANGED <<word, depth, parked>>,
         parked # <<>> => pc[r] = "outside" \/ to # "outside"
  PROVE  MutexFit'
<1>1. pc' \in [Realms -> Places]
  BY DEF MutexFit, Places
<1>2. \A s \in Realms :
        /\ pc'[s] = "inside" <=> pc[s] = "inside"
        /\ pc'[s] = "parked" <=> pc[s] = "parked"
        /\ s # r => pc'[s] = pc[s]
        /\ s = r => pc'[s] = to
  BY DEF MutexFit, Places
<1>3. /\ \A s \in Realms : depth[s] > 0 <=> pc'[s] = "inside"
      /\ \A s, t \in Realms : pc'[s] = "inside" /\ pc'[t] = "inside" => s = t
      /\ word = 1 <=> \E s \in Realms : pc'[s] = "inside"
  BY <1>2 DEF MutexFit
<1>4. \A s \in Realms : pc'[s] = "parked" <=> \E i \in DOMAIN parked : parked[i] = s
  BY <1>2 DEF MutexFit
<1>5. Mutex!ParkedWillWake'
  BY <1>2 DEF MutexFit, Mutex!ParkedWillWake
<1> QED  BY <1>1, <1>3, <1>4, <1>5 DEF MutexFit

(* A realm comes in or leaves; nobody else is inside. *)
LEMMA ComesOrGoes ==
  ASSUME MaxDepth \in Nat \ {0}, MutexFit, NEW r \in Realms, UNCHANGED parked,
         \/ /\ pc[r] = "exchange" /\ word = 0 /\ word' = 1
            /\ pc' = [pc EXCEPT ![r] = "inside"] /\ depth' = [depth EXCEPT ![r] = 1]
         \/ /\ pc[r] = "inside" /\ word' = 0
            /\ pc' = [pc EXCEPT ![r] = "notify"] /\ depth' = [depth EXCEPT ![r] = 0]
  PROVE  MutexFit'
<1>1. pc' \in [Realms -> Places] /\ depth' \in [Realms -> 0..MaxDepth] /\ word' \in {0, 1}
  <2>1. pc' \in [Realms -> Places] /\ word' \in {0, 1}
    BY DEF MutexFit, Places
  <2>2. 0 \in 0..MaxDepth /\ 1 \in 0..MaxDepth /\ depth \in [Realms -> 0..MaxDepth]
    BY DEF MutexFit
  <2>3. depth' \in [Realms -> 0..MaxDepth]
    BY <2>2
  <2> QED  BY <2>1, <2>3
<1>2. \A s \in Realms : s # r => pc'[s] = pc[s] /\ depth'[s] = depth[s] /\ pc[s] # "inside"
  BY DEF MutexFit
<1>3. \/ pc'[r] = "inside" /\ depth'[r] = 1 /\ word' = 1
      \/ pc'[r] = "notify" /\ depth'[r] = 0 /\ word' = 0
  BY DEF MutexFit
<1>4. /\ \A s \in Realms : depth'[s] > 0 <=> pc'[s] = "inside"
      /\ \A s, t \in Realms : pc'[s] = "inside" /\ pc'[t] = "inside" => s = t
      /\ word' = 1 <=> \E s \in Realms : pc'[s] = "inside"
  <2>1. \A s \in Realms : s # r => ~(depth[s] > 0)
    BY <1>2 DEF MutexFit
  <2>2. \A s \in Realms : s # r => ~(depth'[s] > 0) /\ pc'[s] # "inside"
    BY <1>2, <2>1
  <2>3. depth'[r] > 0 <=> pc'[r] = "inside"
    BY <1>3
  <2>4. word' = 1 <=> pc'[r] = "inside"
    BY <1>3
  <2> QED  BY <2>2, <2>3, <2>4, Zenon
<1>5. \A s \in Realms : pc'[s] = "parked" <=> pc[s] = "parked"
  BY <1>2, <1>3
<1>6. \A s \in Realms : pc'[s] = "parked" <=> \E i \in DOMAIN parked : parked[i] = s
  BY <1>5 DEF MutexFit
<1>7. Mutex!ParkedWillWake'
  BY <1>3 DEF Mutex!ParkedWillWake
<1> QED  BY <1>1, <1>4, <1>6, <1>7 DEF MutexFit

(* A step of one realm keeps all of it.                                      *)
LEMMA MutexStep ==
  ASSUME MaxDepth \in Nat \ {0}, MutexFit, NEW r \in Realms,
         Mutex!Call(r) \/ Mutex!Reenter(r) \/ Mutex!Exchange(r) \/ Mutex!Wait(r) \/ Mutex!Release(r) \/ Mutex!Notify(r)
  PROVE  MutexFit'
<1>1. CASE Mutex!Call(r)
  BY <1>1, MovesOn DEF Mutex!Call
<1>2. CASE Mutex!Reenter(r)
  <2>1. pc[r] = "inside" /\ depth' = [depth EXCEPT ![r] = @ + 1] /\ depth[r] < MaxDepth
        /\ depth[r] \in 0..MaxDepth /\ depth[r] > 0 /\ UNCHANGED <<word, pc, parked>>
    BY <1>2 DEF Mutex!Reenter, MutexFit
  <2>2. depth' \in [Realms -> 0..MaxDepth] /\ \A s \in Realms : depth'[s] > 0 <=> depth[s] > 0
    BY <2>1 DEF MutexFit
  <2> QED  BY <2>1, <2>2 DEF MutexFit, Mutex!ParkedWillWake
<1>3. CASE Mutex!Exchange(r)
  <2>1. CASE word = 0
    BY <1>3, <2>1, ComesOrGoes DEF Mutex!Exchange
  <2>2. CASE word # 0
    BY <1>3, <2>2, MovesOn DEF Mutex!Exchange
  <2> QED  BY <2>1, <2>2
<1>4. CASE Mutex!Wait(r)
  <2>1. CASE r \in Workers /\ word = 1
    <3>1. /\ parked' = Append(parked, r) /\ pc' = [pc EXCEPT ![r] = "parked"]
          /\ pc[r] = "wait" /\ UNCHANGED <<word, depth>>
      BY <1>4, <2>1 DEF Mutex!Wait
    <3>0. parked \in Seq(Realms) /\ pc \in [Realms -> Places]
      BY DEF MutexFit
    <3>2. /\ parked' \in Seq(Realms) /\ Len(parked') = Len(parked) + 1
          /\ parked'[Len(parked) + 1] = r
          /\ \A i \in DOMAIN parked : parked'[i] = parked[i]
          /\ DOMAIN parked' = DOMAIN parked \cup {Len(parked) + 1}
          /\ Len(parked) + 1 \notin DOMAIN parked
      BY <3>0, <3>1
    <3>3. \A i \in DOMAIN parked : parked[i] # r
      BY <3>1 DEF MutexFit
    <3>4. \A s \in Realms : s # r => pc'[s] = pc[s]
      BY <3>0, <3>1
    <3>5. pc'[r] = "parked" /\ pc' \in [Realms -> Places]
      BY <3>0, <3>1 DEF Places
    <3>6. \A s \in Realms : pc'[s] = "inside" <=> pc[s] = "inside"
      BY <3>1, <3>4, <3>5
    <3>7. PICK holder \in Realms : pc'[holder] = "inside"
      BY <2>1, <3>6 DEF MutexFit
    <3>8. \A s \in Realms : pc'[s] = "parked" <=> \E i \in DOMAIN parked' : parked'[i] = s
      <4> SUFFICES ASSUME NEW s \in Realms
                   PROVE  pc'[s] = "parked" <=> \E i \in DOMAIN parked' : parked'[i] = s
        OBVIOUS
      <4>1. CASE s = r
        BY <3>2, <3>5, <4>1
      <4>2. CASE s # r
        <5>1. pc'[s] = "parked" <=> \E i \in DOMAIN parked : parked[i] = s
          BY <3>4, <4>2 DEF MutexFit
        <5> QED  BY <3>2, <4>2, <5>1
      <4> QED  BY <4>1, <4>2
    <3>9. \A i, j \in DOMAIN parked' : parked'[i] = parked'[j] => i = j
      <4>1. \A i, j \in DOMAIN parked : parked[i] = parked[j] => i = j
        BY DEF MutexFit
      <4> QED  BY <3>2, <3>3, <4>1
    <3>10. Mutex!ParkedWillWake'
      BY <3>7 DEF Mutex!ParkedWillWake
    <3>11. /\ \A s \in Realms : depth'[s] > 0 <=> pc'[s] = "inside"
           /\ \A s, t \in Realms : pc'[s] = "inside" /\ pc'[t] = "inside" => s = t
           /\ word' = 1 <=> \E s \in Realms : pc'[s] = "inside"
           /\ word' \in {0, 1} /\ depth' \in [Realms -> 0..MaxDepth]
      BY <3>1, <3>6 DEF MutexFit
    <3> QED  BY <3>2, <3>5, <3>8, <3>9, <3>10, <3>11 DEF MutexFit
  <2>2. CASE ~(r \in Workers /\ word = 1)
    BY <1>4, <2>2, MovesOn DEF Mutex!Wait
  <2> QED  BY <2>1, <2>2
<1>5. CASE Mutex!Release(r)
  <2>1. /\ pc[r] = "inside" /\ depth' = [depth EXCEPT ![r] = @ - 1] /\ UNCHANGED parked
        /\ depth[r] \in 0..MaxDepth /\ depth[r] > 0
    BY <1>5 DEF Mutex!Release, MutexFit
  <2>2. CASE depth[r] = 1
    <3>1. word' = 0 /\ pc' = [pc EXCEPT ![r] = "notify"] /\ depth' = [depth EXCEPT ![r] = 0]
      BY <1>5, <2>1, <2>2 DEF Mutex!Release
    <3> QED  BY <2>1, <3>1, ComesOrGoes
  <2>3. CASE depth[r] # 1
    <3>1. UNCHANGED <<word, pc>>
      BY <1>5, <2>3 DEF Mutex!Release
    <3>2. depth' \in [Realms -> 0..MaxDepth] /\ \A s \in Realms : depth'[s] > 0 <=> depth[s] > 0
      BY <2>1, <2>3 DEF MutexFit
    <3> QED  BY <2>1, <3>1, <3>2 DEF MutexFit, Mutex!ParkedWillWake
  <2> QED  BY <2>2, <2>3
<1>6. CASE Mutex!Notify(r)
  <2>1. CASE parked = <<>>
    BY <1>6, <2>1, MovesOn DEF Mutex!Notify
  <2>2. CASE parked # <<>>
    <3> DEFINE h == Head(parked)
    <3>1. /\ pc[r] = "notify" /\ UNCHANGED <<word, depth>> /\ parked' = Tail(parked)
          /\ pc' = [pc EXCEPT ![r] = "outside", ![h] = "exchange"]
      BY <1>6, <2>2 DEF Mutex!Notify
    <3>2. /\ h = parked[1] /\ h \in Realms /\ parked' \in Seq(Realms) /\ 1 \in DOMAIN parked
          /\ \A i \in DOMAIN parked' : i + 1 \in DOMAIN parked /\ parked'[i] = parked[i + 1]
          /\ \A i \in DOMAIN parked : i # 1 => i - 1 \in DOMAIN parked' /\ parked'[i - 1] = parked[i]
      BY <2>2, <3>1, HeadAndTail DEF MutexFit
    <3>3. pc[h] = "parked" /\ h # r /\ pc \in [Realms -> Places]
      BY <3>1, <3>2 DEF MutexFit
    <3> HIDE DEF h
    <3>4. \A s \in Realms : pc'[s] = IF s = r THEN "outside" ELSE IF s = h THEN "exchange" ELSE pc[s]
      BY <3>1, <3>2, <3>3
    <3>r. pc[r] = "notify"
      BY <3>1
    <3>5. ASSUME NEW s \in Realms
          PROVE  pc'[s] = "parked" <=> \E i \in DOMAIN parked' : parked'[i] = s
      <4>1. CASE s = h
        <5>1. \A i \in DOMAIN parked' : parked'[i] # h
          <6>1. \A i, j \in DOMAIN parked : parked[i] = parked[j] => i = j
            BY DEF MutexFit
          <6>2. \A i \in DOMAIN parked' : i \in Nat \ {0}
            BY <3>2
          <6> QED  BY <3>2, <6>1, <6>2
        <5> QED  BY <4>1, <5>1, <3>3, <3>4
      <4>2. CASE s # h
        <5>1. pc'[s] = "parked" <=> pc[s] = "parked"
          BY <4>2, <3>r, <3>4
        <5>2. (\E i \in DOMAIN parked : parked[i] = s) <=> \E i \in DOMAIN parked' : parked'[i] = s
          <6>1. ASSUME NEW i \in DOMAIN parked, parked[i] = s
                PROVE  \E j \in DOMAIN parked' : parked'[j] = s
            BY <6>1, <4>2, <3>2
          <6>2. ASSUME NEW i \in DOMAIN parked', parked'[i] = s
                PROVE  \E j \in DOMAIN parked : parked[j] = s
            BY <6>2, <3>2
          <6> QED  BY <6>1, <6>2
        <5>3. pc[s] = "parked" <=> \E i \in DOMAIN parked : parked[i] = s
          BY DEF MutexFit
        <5> QED  BY <5>1, <5>2, <5>3
      <4> QED  BY <4>1, <4>2
    <3>6. \A i, j \in DOMAIN parked' : parked'[i] = parked'[j] => i = j
      BY <3>2 DEF MutexFit
    <3>7. Mutex!ParkedWillWake'
      <4>1. h \in Realms /\ pc'[h] = "exchange"
        BY <3>2, <3>3, <3>4
      <4> QED  BY <4>1 DEF Mutex!ParkedWillWake
    <3>8. \A s \in Realms : pc'[s] = "inside" <=> pc[s] = "inside"
      BY <3>r, <3>3, <3>4
    <3>9. pc' \in [Realms -> Places]
      BY <3>1, <3>2 DEF MutexFit, Places
    <3>10. /\ \A s \in Realms : depth'[s] > 0 <=> pc'[s] = "inside"
           /\ \A s, t \in Realms : pc'[s] = "inside" /\ pc'[t] = "inside" => s = t
           /\ word' = 1 <=> \E s \in Realms : pc'[s] = "inside"
      BY <3>1, <3>8 DEF MutexFit
    <3>11. word' \in {0, 1} /\ depth' \in [Realms -> 0..MaxDepth] /\ parked' \in Seq(Realms)
      BY <3>1, <3>2 DEF MutexFit
    <3> QED  BY <3>5, <3>6, <3>7, <3>9, <3>10, <3>11 DEF MutexFit
  <2> QED  BY <2>1, <2>2
<1> QED  BY <1>1, <1>2, <1>3, <1>4, <1>5, <1>6

(* It holds at the start, and every step keeps it. *)
LEMMA MutexInductive == ASSUME MaxDepth \in Nat \ {0} PROVE Mutex!Spec => []MutexFit
<1>1. Mutex!Init => MutexFit
  <2>1. <<>> \in Seq(Realms) /\ DOMAIN <<>> = {}
    OBVIOUS
  <2> QED  BY <2>1 DEF Mutex!Init, MutexFit, Places, Mutex!ParkedWillWake
<1>2. MutexFit /\ [Mutex!Next]_(Mutex!mutexVars) => MutexFit'
  <2> SUFFICES ASSUME MutexFit, [Mutex!Next]_(Mutex!mutexVars) PROVE MutexFit'
    OBVIOUS
  <2>1. CASE Mutex!Next
    BY <2>1, MutexStep DEF Mutex!Next
  <2>2. CASE UNCHANGED Mutex!mutexVars
    BY <2>2 DEF Mutex!mutexVars, MutexFit, Mutex!ParkedWillWake
  <2> QED  BY <2>1, <2>2
<1> QED  BY <1>1, <1>2, PTL DEF Mutex!Spec

(* However many realms share the context, at most one of them is inside a    *)
(* section, and the word says whether one is.                                *)
THEOREM MutexExcludes ==
  ASSUME MaxDepth \in Nat \ {0}
  PROVE  Mutex!Spec => [](Mutex!TypeOK /\ Mutex!OneInside)
<1>1. MutexFit => Mutex!TypeOK /\ Mutex!OneInside
  <2> SUFFICES ASSUME MutexFit PROVE Mutex!TypeOK /\ Mutex!OneInside
    OBVIOUS
  <2>1. \A r \in Realms : (pc[r] = "parked") = (r \in Mutex!ToSet(parked))
    BY DEF MutexFit, Mutex!ToSet
  <2>2. \A r, s \in Realms : depth[r] > 0 /\ depth[s] > 0 => r = s
    BY DEF MutexFit
  <2>3. (word = 1) = (\E r \in Realms : depth[r] > 0)
    <3>1. word = 1 <=> \E r \in Realms : depth[r] > 0
      BY DEF MutexFit
    <3> QED  BY <3>1
  <2> QED  BY <2>1, <2>2, <2>3 DEF MutexFit, Mutex!TypeOK, Mutex!OneInside
<1> QED  BY <1>1, MutexInductive, PTL

(* However many realms share the context, none is left parked with nobody on *)
(* the way to wake it.                                                       *)
THEOREM NoWakeupIsLost ==
  ASSUME MaxDepth \in Nat \ {0}
  PROVE  Mutex!Spec => []Mutex!ParkedWillWake
<1>1. MutexFit => Mutex!ParkedWillWake
  BY DEF MutexFit
<1> QED  BY <1>1, MutexInductive, PTL

-----------------------------------------------------------------------------
(* Which handle a key has. *)

(* A call of the shared map, under way. *)
Frames ==
  [op : {"mint", "remove", "move"}, key : Keys, node : Nat, era : Nat,
   at : {"building", "bump membership", "membership set", "bump order", "order set", "return"}]

(* The handles that callers were given, and those that calls are about to give. *)
Handle(f) == <<f.key, f.node, f.era>>
Handed ==
  returned \cup {Handle(calls[j]) : j \in {i \in DOMAIN calls : calls[i].op = "mint" /\ calls[i].at # "building"}}

(* The types of the map and of its calls. *)
MapTyped ==
  /\ calls \in Seq(Frames) /\ era \in [Keys -> Nat] /\ nodes \in Seq(Keys)
  /\ DOMAIN entries \subseteq Keys /\ \A k \in DOMAIN entries : entries[k] \in Nat
  /\ returned \subseteq Keys \X Nat \X Nat

(* A handle given since the key was last removed is the one the map has: so  *)
(* a call that lost its race must not return what it built itself.           *)
HandlesFit ==
  /\ MapTyped
  /\ \A h \in Handed :
       /\ h[3] <= era[h[1]]
       /\ h[3] = era[h[1]] => h[1] \in DOMAIN entries /\ h[2] = entries[h[1]]
  /\ \A h, i \in Handed : h[1] = i[1] /\ h[3] = i[3] => h[2] = i[2]

(* A handle is a key, a node and a number. *)
LEMMA HandedTyped ==
  ASSUME MapTyped
  PROVE  Handed \subseteq Keys \X Nat \X Nat
<1>1. ASSUME NEW j \in DOMAIN calls
      PROVE  Handle(calls[j]) \in Keys \X Nat \X Nat
  <2>1. calls[j] \in Frames
    BY DEF MapTyped
  <2> QED  BY <2>1 DEF Handle, Frames
<1> QED  BY <1>1 DEF Handed, MapTyped

(* One handle more, which is the one that the map has, does no harm. *)
LEMMA OneMoreHandle ==
  ASSUME HandlesFit, MapTyped', era' = era, NEW k \in Keys, k \in DOMAIN entries',
         \A l \in DOMAIN entries : l \in DOMAIN entries' /\ entries'[l] = entries[l],
         Handed' \subseteq Handed \cup {<<k, entries'[k], era[k]>>}
  PROVE  HandlesFit'
<1> DEFINE x == <<k, entries'[k], era[k]>>
<1>1. x[1] = k /\ x[2] = entries'[k] /\ x[3] = era[k] /\ era[k] \in Nat
  BY DEF HandlesFit, MapTyped
<1>2. \A h \in Handed : h[3] <= era[h[1]]
                        /\ (h[3] = era[h[1]] => h[1] \in DOMAIN entries /\ h[2] = entries[h[1]])
  BY DEF HandlesFit
<1>3. ASSUME NEW h \in Handed, h[1] = k, h[3] = era[k]
      PROVE  h[2] = entries'[k]
  BY <1>2, <1>3
<1>4. \A h \in Handed' : h \in Handed \/ h = x
  OBVIOUS
<1> HIDE DEF x
<1>5. ASSUME NEW h \in Handed'
      PROVE  h[3] <= era'[h[1]] /\ (h[3] = era'[h[1]] => h[1] \in DOMAIN entries' /\ h[2] = entries'[h[1]])
  <2>1. CASE h = x
    BY <1>1, <2>1
  <2>2. CASE h \in Handed
    BY <1>2, <2>2
  <2> QED  BY <1>4, <2>1, <2>2
<1>6. ASSUME NEW h \in Handed', NEW i \in Handed', h[1] = i[1], h[3] = i[3]
      PROVE  h[2] = i[2]
  <2>1. CASE h = x /\ i = x
    BY <2>1
  <2>2. CASE h \in Handed /\ i \in Handed
    BY <1>6, <2>2 DEF HandlesFit
  <2>3. CASE h = x /\ i \in Handed
    BY <1>1, <1>3, <1>6, <2>3
  <2>4. CASE h \in Handed /\ i = x
    BY <1>1, <1>3, <1>6, <2>4
  <2> QED  BY <1>4, <2>1, <2>2, <2>3, <2>4
<1> QED  BY <1>5, <1>6 DEF HandlesFit

(* A call that comes in hands out nothing yet. *)
LEMMA CallComes ==
  ASSUME MapTyped, NEW f \in Frames, f.op # "mint" \/ f.at = "building",
         calls' = Append(calls, f), returned' = returned
  PROVE  calls' \in Seq(Frames) /\ Handed' \subseteq Handed
<1>1. /\ calls' \in Seq(Frames) /\ DOMAIN calls' = DOMAIN calls \cup {Len(calls) + 1}
      /\ \A j \in DOMAIN calls : calls'[j] = calls[j]
      /\ calls'[Len(calls) + 1] = f
  BY DEF MapTyped
<1> QED  BY <1>1 DEF Handed

(* The call on top, and those below it. *)
LEMMA TopIs ==
  ASSUME MapTyped, calls # <<>>
  PROVE  /\ Len(calls) \in DOMAIN calls /\ Shared!Top = calls[Len(calls)] /\ Shared!Top \in Frames
         /\ Shared!Front(calls) \in Seq(Frames)
         /\ Len(Shared!Front(calls)) = Len(calls) - 1
         /\ DOMAIN Shared!Front(calls) = DOMAIN calls \ {Len(calls)}
         /\ \A j \in DOMAIN Shared!Front(calls) : Shared!Front(calls)[j] = calls[j]
<1>1. calls \in Seq(Frames) /\ Len(calls) \in Nat /\ Len(calls) > 0 /\ DOMAIN calls = 1 .. Len(calls)
  BY DEF MapTyped
<1>2. Shared!Top = calls[Len(calls)]
  BY <1>1 DEF Shared!Top, Shared!Last
<1>3. Shared!Front(calls) = SubSeq(calls, 1, Len(calls) - 1)
  BY DEF Shared!Front
<1> QED  BY <1>1, <1>2, <1>3

(* What its callers have is kept when a call goes on. *)
LEMMA GoesOn ==
  ASSUME HandlesFit, calls # <<>>, calls[Len(calls)].at # "building",
         NEW g \in Frames, Handle(g) = Handle(calls[Len(calls)]), g.op = calls[Len(calls)].op,
         calls' = [calls EXCEPT ![Len(calls)] = g], UNCHANGED <<entries, nodes, returned, era>>
  PROVE  HandlesFit'
<1>1. MapTyped /\ calls \in Seq(Frames) /\ Len(calls) \in DOMAIN calls
  BY TopIs DEF HandlesFit, MapTyped
<1>2. /\ calls' \in Seq(Frames) /\ Len(calls') = Len(calls)
      /\ \A j \in 1 .. Len(calls) : calls'[j] = IF j = Len(calls) THEN g ELSE calls[j]
  <2>1. Len(calls) \in 1 .. Len(calls)
    BY <1>1
  <2> QED  BY <1>1, <2>1, ExceptSeq
<1>3. Handed' \subseteq Handed
  <2>1. DOMAIN calls' = DOMAIN calls /\ DOMAIN calls = 1 .. Len(calls)
    BY <1>1, <1>2
  <2>2. calls'[Len(calls)] = g /\ \A j \in DOMAIN calls : j # Len(calls) => calls'[j] = calls[j]
    BY <1>1, <1>2, <2>1
  <2>3. ASSUME NEW j \in DOMAIN calls, calls'[j].op = "mint", calls'[j].at # "building"
        PROVE  Handle(calls'[j]) \in Handed
    <3>1. CASE j = Len(calls)
      <4>1. calls[j].op = "mint" /\ calls[j].at # "building" /\ Handle(calls'[j]) = Handle(calls[j])
        BY <2>2, <2>3, <3>1
      <4> QED  BY <4>1 DEF Handed
    <3>2. CASE j # Len(calls)
      BY <2>2, <2>3, <3>2 DEF Handed
    <3> QED  BY <3>1, <3>2
  <2> QED  BY <2>1, <2>3 DEF Handed
<1>4. MapTyped'
  BY <1>1, <1>2 DEF MapTyped
<1> QED  BY <1>3, <1>4 DEF HandlesFit

(* First writer wins: the call hands out what the map has, its own or not. *)
LEMMA CommitFits ==
  ASSUME HandlesFit, Shared!Commit
  PROVE  HandlesFit'
<1> DEFINE top == calls[Len(calls)]
           won == Shared!Winner(top)
           g == [won EXCEPT !.era = era[won.key]]
<1>1. /\ MapTyped /\ calls # <<>> /\ Shared!Top = top /\ top \in Frames
      /\ calls' = Append(Shared!Front(calls), g) /\ UNCHANGED <<nodes, returned, era>>
  BY TopIs DEF HandlesFit, Shared!Commit, Shared!At
<1>2. /\ won \in Frames /\ won.key = top.key
      /\ top.key \in DOMAIN entries => won.node = entries[top.key]
  BY <1>1 DEF Shared!Winner, Frames, MapTyped
<1>3. /\ DOMAIN entries' = DOMAIN entries \cup {top.key} /\ entries'[top.key] = won.node
      /\ \A l \in DOMAIN entries : entries'[l] = entries[l]
  <2>1. entries' = [k \in DOMAIN entries \cup {won.key} |-> IF k = won.key THEN won.node ELSE entries[k]]
    BY <1>1 DEF Shared!Commit
  <2> HIDE DEF won
  <2> QED  BY <1>2, <2>1
<1>4. g \in Frames /\ Handle(g) = <<top.key, entries'[top.key], era[top.key]>> /\ top.key \in Keys
  BY <1>1, <1>2, <1>3 DEF Frames, Handle, MapTyped
<1> HIDE DEF g, won
<1>5. /\ calls' \in Seq(Frames) /\ DOMAIN calls' = DOMAIN calls
      /\ \A j \in DOMAIN calls : j # Len(calls) => calls'[j] = calls[j]
      /\ calls'[Len(calls)] = g
  <2> DEFINE front == Shared!Front(calls)
  <2>1. /\ front \in Seq(Frames) /\ Len(front) = Len(calls) - 1 /\ calls \in Seq(Frames)
        /\ Len(calls) \in DOMAIN calls /\ calls' = Append(front, g)
        /\ \A j \in DOMAIN front : front[j] = calls[j]
    BY <1>1, TopIs DEF MapTyped
  <2> HIDE DEF front
  <2> QED  BY <1>4, <2>1
<1>6. Handed' \subseteq Handed \cup {<<top.key, entries'[top.key], era[top.key]>>}
  <2>1. ASSUME NEW j \in DOMAIN calls, calls'[j].op = "mint", calls'[j].at # "building"
        PROVE  Handle(calls'[j]) \in Handed \cup {Handle(g)}
    <3>1. CASE j = Len(calls)
      BY <1>5, <3>1
    <3>2. CASE j # Len(calls)
      BY <1>5, <2>1, <3>2 DEF Handed
    <3> QED  BY <3>1, <3>2
  <2> QED  BY <1>1, <1>4, <1>5, <2>1 DEF Handed
<1>7. MapTyped'
  BY <1>1, <1>2, <1>3, <1>4, <1>5 DEF MapTyped, Frames
<1> QED  BY <1>1, <1>3, <1>4, <1>6, <1>7, OneMoreHandle

(* A key that is removed opens a new round: what was given before is of the  *)
(* round that ended.                                                         *)
LEMMA RemoveFits ==
  ASSUME HandlesFit, NEW k \in Keys, Shared!RemoveEntry(k)
  PROVE  HandlesFit'
<1> DEFINE f == [op |-> "remove", key |-> k, node |-> 0, at |-> "bump membership", era |-> 0]
<1>1. /\ MapTyped /\ f \in Frames /\ f.op = "remove" /\ UNCHANGED <<nodes, returned>>
      /\ calls' = Append(calls, f) /\ era' = [era EXCEPT ![k] = @ + 1]
  BY DEF HandlesFit, Shared!RemoveEntry, Frames
<1>2. /\ DOMAIN entries' = DOMAIN entries \ {k}
      /\ \A l \in DOMAIN entries' : entries'[l] = entries[l]
  BY DEF Shared!RemoveEntry, Shared!Restrict
<1> HIDE DEF f
<1>3. calls' \in Seq(Frames) /\ Handed' \subseteq Handed
  BY <1>1, CallComes
<1>4. era' \in [Keys -> Nat] /\ era'[k] = era[k] + 1 /\ \A l \in Keys : l # k => era'[l] = era[l]
  BY <1>1 DEF MapTyped
<1>5. MapTyped'
  BY <1>1, <1>2, <1>3, <1>4 DEF MapTyped
<1>6. ASSUME NEW h \in Handed'
      PROVE  h[3] <= era'[h[1]] /\ (h[3] = era'[h[1]] => h[1] \in DOMAIN entries' /\ h[2] = entries'[h[1]])
  <2>1. /\ h \in Handed /\ h[1] \in Keys /\ h[3] \in Nat /\ era[h[1]] \in Nat /\ h[3] <= era[h[1]]
        /\ h[3] = era[h[1]] => h[1] \in DOMAIN entries /\ h[2] = entries[h[1]]
    BY <1>1, <1>3, HandedTyped DEF HandlesFit, MapTyped
  <2>2. CASE h[1] = k
    BY <1>4, <2>1, <2>2
  <2>3. CASE h[1] # k
    BY <1>2, <1>4, <2>1, <2>3
  <2> QED  BY <2>2, <2>3
<1> QED  BY <1>3, <1>5, <1>6 DEF HandlesFit

(* Any step of any call. *)
LEMMA SharedStep ==
  ASSUME HandlesFit, [Shared!Next]_(Shared!sharedVars)
  PROVE  HandlesFit'
<1>0. MapTyped
  BY DEF HandlesFit
<1>1. CASE Shared!Commit
  BY <1>1, CommitFits
<1>2. ASSUME NEW to \in {"membership set", "order set"}, calls # <<>>, Shared!Top.at # "building",
             Shared!Goes(to), UNCHANGED <<entries, nodes, returned, era>>
      PROVE  HandlesFit'
  <2> DEFINE g == [calls[Len(calls)] EXCEPT !.at = to]
  <2>1. calls[Len(calls)] \in Frames /\ calls[Len(calls)].at # "building"
    BY <1>0, <1>2, TopIs
  <2>2. g \in Frames /\ Handle(g) = Handle(calls[Len(calls)]) /\ g.op = calls[Len(calls)].op
    BY <2>1 DEF Frames, Handle
  <2>3. calls' = [calls EXCEPT ![Len(calls)] = g]
    BY <1>2 DEF Shared!Goes
  <2> HIDE DEF g
  <2> QED  BY <1>2, <2>1, <2>2, <2>3, GoesOn
<1>3. CASE Shared!BumpMembership \/ Shared!BumpOrder
  BY <1>2, <1>3 DEF Shared!BumpMembership, Shared!BumpOrder, Shared!At
<1>4. CASE Shared!Return
  <2> DEFINE top == calls[Len(calls)]
  <2>1. /\ calls # <<>> /\ Shared!Top = top /\ top.at # "building" /\ Len(calls) \in DOMAIN calls
        /\ calls' = Shared!Front(calls) /\ UNCHANGED <<entries, nodes, era>>
        /\ returned' = IF top.op = "mint" THEN returned \cup {Handle(top)} ELSE returned
    BY <1>0, <1>4, TopIs DEF Shared!Return, Shared!At, Handle
  <2>2. top.op = "mint" => Handle(top) \in Handed
    BY <2>1 DEF Handed
  <2>3. calls' \in Seq(Frames) /\ Handed' \subseteq Handed
    BY <1>0, <2>1, <2>2, TopIs DEF Handed
  <2>4. MapTyped'
    BY <1>0, <2>1, <2>2, <2>3, HandedTyped DEF MapTyped
  <2> QED  BY <2>1, <2>3, <2>4 DEF HandlesFit
<1>5. ASSUME NEW k \in Keys, Shared!Found(k)
      PROVE  HandlesFit'
  <2>1. /\ k \in DOMAIN entries /\ returned' = returned \cup {<<k, entries[k], era[k]>>}
        /\ UNCHANGED <<entries, nodes, calls, era>>
    BY <1>5 DEF Shared!Found
  <2>2. Handed' \subseteq Handed \cup {<<k, entries'[k], era[k]>>}
    BY <2>1 DEF Handed
  <2>3. MapTyped'
    BY <1>0, <2>1 DEF MapTyped
  <2> QED  BY <2>1, <2>2, <2>3, OneMoreHandle
<1>6. ASSUME NEW k \in Keys, Shared!Build(k)
      PROVE  HandlesFit'
  <2> DEFINE f == [op |-> "mint", key |-> k, node |-> Len(nodes'), at |-> "building", era |-> 0]
  <2>1. /\ nodes' = Append(nodes, k) /\ calls' = Append(calls, f)
        /\ UNCHANGED <<entries, returned, era>>
    BY <1>6 DEF Shared!Build
  <2>2. nodes' \in Seq(Keys) /\ Len(nodes') \in Nat
    BY <1>0, <2>1 DEF MapTyped
  <2>3. f \in Frames /\ f.at = "building"
    BY <2>2 DEF Frames
  <2> HIDE DEF f
  <2>4. calls' \in Seq(Frames) /\ Handed' \subseteq Handed
    BY <1>0, <2>1, <2>3, CallComes
  <2>5. MapTyped'
    BY <1>0, <2>1, <2>2, <2>4 DEF MapTyped
  <2> QED  BY <2>1, <2>4, <2>5 DEF HandlesFit
<1>7. ASSUME NEW k \in Keys, Shared!Move(k)
      PROVE  HandlesFit'
  <2> DEFINE f == [op |-> "move", key |-> k, node |-> 0, at |-> "bump order", era |-> 0]
  <2>1. calls' = Append(calls, f) /\ UNCHANGED <<entries, nodes, returned, era>>
    BY <1>7 DEF Shared!Move, Shared!ApplyMove
  <2>2. f \in Frames /\ f.op = "move"
    BY DEF Frames
  <2> HIDE DEF f
  <2>3. calls' \in Seq(Frames) /\ Handed' \subseteq Handed
    BY <1>0, <2>1, <2>2, CallComes
  <2>4. MapTyped'
    BY <1>0, <2>1, <2>3 DEF MapTyped
  <2> QED  BY <2>1, <2>3, <2>4 DEF HandlesFit
<1>8. CASE UNCHANGED Shared!sharedVars
  BY <1>8 DEF Shared!sharedVars, HandlesFit, MapTyped, Handed
<1> QED  BY <1>1, <1>3, <1>4, <1>5, <1>6, <1>7, <1>8, RemoveFits DEF Shared!Next

(* For any keys and any calls inside each other: all who raced for the       *)
(* handle of a key were given the same one until the key was removed, and    *)
(* while it has not been, it is the one the map has.                         *)
THEOREM OneHandleAlways == Shared!Spec => []Shared!OneHandle
<1>1. Shared!Init => HandlesFit
  <2> SUFFICES ASSUME Shared!Init PROVE HandlesFit
    OBVIOUS
  <2>1. calls = <<>> /\ nodes = <<>> /\ returned = {} /\ DOMAIN entries = {} /\ era \in [Keys -> Nat]
    BY DEF Shared!Init
  <2>2. Handed = {}
    BY <2>1 DEF Handed
  <2> QED  BY <2>1, <2>2 DEF HandlesFit, MapTyped
<1>2. HandlesFit /\ [Shared!Next]_(Shared!sharedVars) => HandlesFit'
  BY SharedStep
<1>3. HandlesFit => Shared!OneHandle
  BY DEF HandlesFit, Handed, Shared!OneHandle
<1> QED  BY <1>1, <1>2, <1>3, PTL DEF Shared!Spec
=============================================================================
