---------------------------- MODULE LosslessTree ----------------------------
(* The lossless document tree of src/src/lossless-tree-crdt.js: operations   *)
(* with Lamport ids, applied locally at once and remotely in whatever order  *)
(* they arrive; an operation whose target, or the last operation it saw on   *)
(* its leaf, is still missing waits in a buffer.  Leaves hold the texts of   *)
(* OrderedOps, and siblings are ordered by its position keys.                *)
(*                                                                           *)
(* Wire offsets in bytes are offsets in characters here (one byte each).  An *)
(* operation carries the ids its author had seen (past), for the properties. *)
EXTENDS OrderedOps

CONSTANTS Replicas,   \* peer ids, natural numbers from 1
          First,      \* the replica the others are forked from
          Seed,       \* the text of the leaf it starts with
          Inserted,   \* texts a leaf edit may insert
          MaxOps      \* bound on operations

VARIABLES nodes,      \* replica -> its tree: node id -> record
          lamport,    \* replica -> counter of the newest operation seen
          log,        \* replica -> operations recorded
          buffered    \* replica -> operations waiting, in order of arrival

treeVars == <<nodes, lamport, log, buffered>>

ROOT == <<0, 0>>
AtFront == ROOT   \* "after" for the first place
Element == <<>>

Ids(ops) == {op.id : op \in ops}
frontier(r) == Ids(log[r])

Leaf(elems, counter) == [elems |-> elems, counter |-> counter]
SeededLeaf(peer, str) == Leaf(FromStr(peer, str), Len(str))
IsLeaf(tree, n) == n \in DOMAIN tree /\ tree[n].body # Element

LiveChildren(tree, parent) ==
  SetToSortSeq({n \in DOMAIN tree \ {ROOT} : tree[n].parent = parent /\ tree[n].tomb = Null},
               LAMBDA a, b : Before(tree[a].sort, tree[b].sort))

Rendered(tree) ==
  LET render[n \in DOMAIN tree] ==
        IF IsLeaf(tree, n) THEN TextOf(tree[n].body.elems)
        ELSE LET kids == LiveChildren(tree, n)
             IN FlattenSeq([i \in 1..Len(kids) |-> render[kids[i]]])
  IN render[ROOT]

\* The place after a sibling; at the end if the sibling is gone.
KeyAfter(tree, parent, after, peer) ==
  LET order == LiveChildren(tree, parent)
      i == IF after = AtFront THEN 0
           ELSE IF after \in ToSet(order) THEN CHOOSE k \in DOMAIN order : order[k] = after
           ELSE Len(order)
      lo == IF i = 0 THEN <<>> ELSE tree[order[i]].sort.frac
      hi == IF i = Len(order) THEN Open ELSE tree[order[i + 1]].sort.frac
  IN [frac |-> KeyBetween(lo, hi), peer |-> peer]

----------------------------------------------------------------------------
(* Applying an operation to a tree. *)

Node(parent, sort, body, id) ==
  [parent |-> parent, sort |-> sort, sortStamp |-> id, body |-> body, tomb |-> Null, textHead |-> id]

Halved(tree, op, text) ==
  LET at == Min({op.at, Len(text)})
      left == SeededLeaf(op.node[2], SubSeq(text, 1, at))
      right == SeededLeaf(op.id[2], SubSeq(text, at + 1, Len(text)))
  IN [tree EXCEPT ![op.node].body = left, ![op.node].textHead = op.id]
       @@ (op.id :> Node(tree[op.node].parent, op.sort, right, op.id))

ApplySplit(tree, op) ==
  IF ~IsLeaf(tree, op.node) THEN tree
  ELSE Halved(tree, op, TextOf(tree[op.node].body.elems))

ApplyMerge(tree, op) ==
  IF ~IsLeaf(tree, op.node) \/ ~IsLeaf(tree, op.right) THEN tree
  ELSE LET text == TextOf(tree[op.node].body.elems) \o TextOf(tree[op.right].body.elems)
       IN [tree EXCEPT ![op.node].body = SeededLeaf(op.node[2], text),
                       ![op.node].textHead = op.id,
                       ![op.right].tomb = MergeDeleted(@, op.id)]

ApplyEdit(tree, op) ==
  IF ~IsLeaf(tree, op.node) THEN tree
  ELSE [tree EXCEPT ![op.node].body = Leaf(Join(@.elems, op.ops), Max({@.counter, MaxCounter(op.ops)})),
                    ![op.node].textHead = op.id]

ApplyOp(tree, op) ==
  CASE op.type = "CreateNode" -> tree @@ (op.id :> Node(op.node, op.sort, op.body, op.id))
    [] op.type = "Tombstone"  -> [tree EXCEPT ![op.node].tomb = MergeDeleted(@, op.id)]
    [] op.type = "Reorder"    -> IF Less(tree[op.node].sortStamp, op.id)
                                 THEN [tree EXCEPT ![op.node].sort = op.sort, ![op.node].sortStamp = op.id]
                                 ELSE tree
    [] op.type = "LeafEdit"   -> ApplyEdit(tree, op)
    [] op.type = "SplitLeaf"  -> ApplySplit(tree, op)
    [] op.type = "MergeLeaves" -> ApplyMerge(tree, op)

\* Mutant: nothing waits for the last operation seen on its leaf.
ReadyWithoutPrev(tree, seen, op) ==
  /\ op.node \in DOMAIN tree
  /\ op.type = "MergeLeaves" => op.right \in DOMAIN tree

DependenciesReady(tree, seen, op) ==
  /\ op.node \in DOMAIN tree
  /\ op.type = "MergeLeaves" => op.right \in DOMAIN tree
  /\ op.type \in {"LeafEdit", "SplitLeaf", "MergeLeaves"} => op.prev \subseteq seen

\* One pass over the buffer, and passes until one brings nothing: as each one
\* that brings something shortens the buffer, as many as it is long.
Pass(state, op) ==
  IF op \in state.log THEN state
  ELSE IF DependenciesReady(state.tree, Ids(state.log), op)
  THEN [state EXCEPT !.tree = ApplyOp(@, op), !.log = @ \cup {op}]
  ELSE [state EXCEPT !.wait = Append(@, op)]

PassOver(state) == FoldLeft(Pass, [state EXCEPT !.wait = <<>>], state.wait)

DrainBuffered(state) ==
  LET after[n \in 0..Len(state.wait)] == IF n = 0 THEN state ELSE PassOver(after[n - 1])
  IN after[Len(state.wait)]

----------------------------------------------------------------------------
FirstOp ==
  [id |-> <<1, First>>, type |-> "CreateNode", node |-> ROOT, sort |-> [frac |-> <<128>>, peer |-> First],
   body |-> SeededLeaf(First, Seed), past |-> {}]

RootTree == (ROOT :> Node(ROOT, [frac |-> <<>>, peer |-> 0], Element, ROOT))

\* First has created a leaf, the others are forks of it.
Init ==
  /\ nodes = [r \in Replicas |-> ApplyOp(RootTree, FirstOp)]
  /\ lamport = [r \in Replicas |-> 1]
  /\ log = [r \in Replicas |-> {FirstOp}]
  /\ buffered = [r \in Replicas |-> <<>>]

NewId(r) == <<lamport[r] + 1, r>>

\* commitLocal: applied and recorded under the next Lamport id.
Commit(r, op) ==
  LET full == op @@ [id |-> NewId(r), past |-> frontier(r)]
  IN /\ Cardinality(UNION {log[p] : p \in Replicas}) <= MaxOps
     /\ nodes' = [nodes EXCEPT ![r] = ApplyOp(@, full)]
     /\ lamport' = [lamport EXCEPT ![r] = @ + 1]
     /\ log' = [log EXCEPT ![r] = @ \cup {full}]
     /\ UNCHANGED buffered

CreateNode(r, parent, after, body) ==
  /\ parent \in DOMAIN nodes[r]
  /\ Commit(r, [type |-> "CreateNode", node |-> parent, body |-> body,
                sort |-> KeyAfter(nodes[r], parent, after, r)])

TombstoneNode(r, n) ==
  /\ n \in DOMAIN nodes[r] \ {ROOT}
  /\ Commit(r, [type |-> "Tombstone", node |-> n])

ReorderChild(r, n, after) ==
  /\ n \in DOMAIN nodes[r] \ {ROOT}
  /\ Commit(r, [type |-> "Reorder", node |-> n, sort |-> KeyAfter(nodes[r], nodes[r][n].parent, after, r)])

\* Leaves are edited and cut while they are shown.
IsLiveLeaf(r, n) == IsLeaf(nodes[r], n) /\ nodes[r][n].tomb = Null

\* The leaf's text goes on under this peer's ids; the delta goes in the op.
EditLeaf(r, n, at, deleted, inserted) ==
  LET leaf == nodes[r][n].body
      cut == [k \in 0..deleted |-> IF k = 0 THEN leaf.elems
                ELSE Delete(leaf.elems, leaf.counter, r, at)]
      edited == Insert(cut[deleted], leaf.counter + deleted, r, at, inserted)
  IN /\ IsLiveLeaf(r, n)
     /\ at + deleted <= Len(TextOf(leaf.elems))
     /\ Commit(r, [type |-> "LeafEdit", node |-> n, prev |-> {nodes[r][n].textHead},
                   ops |-> DeltaSince(edited, VersionVector(leaf.elems))])

SplitLeaf(r, n, at) ==
  /\ IsLiveLeaf(r, n)
  /\ at <= Len(TextOf(nodes[r][n].body.elems))
  /\ Commit(r, [type |-> "SplitLeaf", node |-> n, at |-> at, prev |-> {nodes[r][n].textHead},
                sort |-> KeyAfter(nodes[r], nodes[r][n].parent, n, r)])

MergeAdjacentLeaves(r, left, right) ==
  LET tree == nodes[r]
      order == LiveChildren(tree, tree[left].parent)
  IN /\ IsLeaf(tree, left) /\ IsLeaf(tree, right)
     /\ \E i \in 1..Len(order) - 1 : order[i] = left /\ order[i + 1] = right
     /\ Commit(r, [type |-> "MergeLeaves", node |-> left, right |-> right,
                   prev |-> {tree[left].textHead, tree[right].textHead}])

(* applyUpdate with an operation of another replica, new to this one or not: *)
(* a batch is a sequence of these.                                           *)
ApplyUpdate(r, s, op) ==
  LET state == DrainBuffered([tree |-> nodes[r], log |-> log[r], wait |-> Append(buffered[r], op)])
  IN /\ op \in log[s] \ (log[r] \cup ToSet(buffered[r]))
     /\ nodes' = [nodes EXCEPT ![r] = state.tree]
     /\ log' = [log EXCEPT ![r] = state.log]
     /\ buffered' = [buffered EXCEPT ![r] = state.wait]
     /\ lamport' = [lamport EXCEPT ![r] = Max({@, op.id[1]})]

Next ==
  \/ \E r \in Replicas : \E n \in DOMAIN nodes[r] :
       \/ TombstoneNode(r, n)
       \/ \E m \in DOMAIN nodes[r] : ReorderChild(r, n, m) \/ MergeAdjacentLeaves(r, n, m)
       \/ \E after \in {AtFront} \cup ToSet(LiveChildren(nodes[r], n)), body \in {Element, SeededLeaf(r, Seed)} :
            CreateNode(r, n, after, body)
       \/ \E at \in 0..Len(Seed) : \/ SplitLeaf(r, n, at)
                                   \/ \E d \in 0..1, str \in Inserted : EditLeaf(r, n, at, d, str)
  \/ \E r, s \in Replicas : \E op \in log[s] : ApplyUpdate(r, s, op)

Spec == Init /\ [][Next]_treeVars

----------------------------------------------------------------------------
TypeOK ==
  \A r \in Replicas :
    /\ ROOT \in DOMAIN nodes[r]
    /\ \A n \in DOMAIN nodes[r] : nodes[r][n].parent \in DOMAIN nodes[r]
    /\ lamport[r] \in 0..MaxOps + 1
    /\ ToSet(buffered[r]) \cap log[r] = {}

(* Operations on a leaf, and whether on every leaf they are in one causal    *)
(* line or, as far as they are concurrent, all leaf edits.                   *)
OnLeaf(ops, n) ==
  {op \in ops : \/ op.type \in {"LeafEdit", "SplitLeaf", "MergeLeaves"} /\ op.node = n
                \/ op.type = "MergeLeaves" /\ op.right = n
                \/ op.type = "SplitLeaf" /\ op.id = n}
Concurrent(a, b) == a # b /\ a.id \notin b.past /\ b.id \notin a.past
Uncontested(ops) ==
  \A n \in Ids(ops) : \/ \A op \in OnLeaf(ops, n) : op.type = "LeafEdit"
                      \/ \A a, b \in OnLeaf(ops, n) : ~Concurrent(a, b)

Skeleton(tree) == [n \in DOMAIN tree |-> <<tree[n].parent, tree[n].sort, tree[n].tomb, tree[n].body = Element>>]

(* Replicas that recorded the same operations, in whatever order they came,  *)
(* have the same nodes in the same order, and render the same document if no *)
(* leaf was cut or joined concurrently with another operation on it.         *)
TreesConverge ==
  \A r, s \in Replicas : frontier(r) = frontier(s) =>
    /\ Skeleton(nodes[r]) = Skeleton(nodes[s])
    /\ Uncontested(log[r]) => Rendered(nodes[r]) = Rendered(nodes[s])

(* An operation waits in the buffer only while something it needs is         *)
(* missing: with everything recorded elsewhere delivered, nothing waits.     *)
NothingWaitsForever ==
  \A r \in Replicas :
    /\ \A i \in DOMAIN buffered[r] : ~DependenciesReady(nodes[r], frontier(r), buffered[r][i])
    /\ (\A s \in Replicas : log[s] \subseteq log[r] \cup ToSet(buffered[r])) => buffered[r] = <<>>

(* "both replicas store byte-identical keys and converge": the same          *)
(* operations render the same document.                                      *)
RendersConverge ==
  \A r, s \in Replicas : frontier(r) = frontier(s) => Rendered(nodes[r]) = Rendered(nodes[s])
=============================================================================
