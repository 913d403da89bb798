---------------------------- MODULE Collections ----------------------------
(* The keyed collections of src/src/collections.js.  Keyed reconciliation    *)
(* (reconcileCollections): the operations that turn one keyed sequence into  *)
(* another, and the SourceMap they are applied to, one at a time.  And the   *)
(* ordered keyed tree (SourceTree): every node has a value and a SourceMap   *)
(* of children, and every operation returns a report of what it touched,     *)
(* scoped to a path.  Nodes are objects: a subtree taken out of the tree may *)
(* be put back elsewhere, as it is.  (Two places for one object at once are  *)
(* the caller's mistake: an edit at one of them would show at the other      *)
(* without a report.)                                                        *)
EXTENDS OrderedOps, FiniteSets, Functions

CONSTANTS Values,
          ListKeys,   \* keys of the list
          TreeKeys,   \* keys in each collection of the tree
          MaxNodes,   \* bound: nodes built
          MaxHandles, \* bound: handles given by one collection of the tree
          MaxDepth    \* bound: length of a path

VARIABLES prior, target,   \* [order, values]: from, and to
          todo,            \* operations not applied yet
          listOrder, listValues, listHandles,   \* the collection
          moves,           \* operations applied that moved an entry (history)
          listReport       \* what the last operation said it touched: [value, membership, order]

VARIABLES treeValue,    \* node -> value
          treeOrder,    \* node -> the keys of its children
          child,        \* node -> key -> node
          treeHandle,   \* node -> key -> handle
          given,        \* node -> handles given out
          treeReport    \* [path, value, membership, order]

listVars == <<prior, target, todo, listOrder, listValues, listHandles, moves, listReport>>
treeVars == <<treeValue, treeOrder, child, treeHandle, given, treeReport>>

Sequences == UNION {{s \in [1..n -> ListKeys] : \A i, j \in 1..n : i # j => s[i] # s[j]} : n \in 0..Cardinality(ListKeys)}
NoKey == "none"   \* stands for null: at the start

----------------------------------------------------------------------------
(* The longest increasing subsequence, by patience: tails[n] is the place of *)
(* the smallest value that ends one of length n, prev the place before it.   *)

\* Mutant: a value may follow an equal or a larger one.
AnyLength(seq, tails, value) == Len(tails) + 1

PileOf(seq, tails, value) ==
  Min({n \in 1..(Len(tails) + 1) : n = Len(tails) + 1 \/ ~(seq[tails[n]] < value)})

Patience(seq) ==
  LET step[i \in 0..Len(seq)] ==
        IF i = 0 THEN [tails |-> <<>>, prev |-> <<>>]
        ELSE LET before == step[i - 1]
                 n == PileOf(seq, before.tails, seq[i])
             IN [tails |-> IF n > Len(before.tails) THEN Append(before.tails, i) ELSE [before.tails EXCEPT ![n] = i],
                 prev |-> Append(before.prev, IF n > 1 THEN before.tails[n - 1] ELSE 0)]
  IN step[Len(seq)]

Lis(seq) ==
  LET p == Patience(seq)
      chain[i \in 0..Len(seq)] == IF i = 0 THEN {} ELSE {i} \cup chain[p.prev[i]]
  IN IF seq = <<>> THEN {} ELSE chain[Last(p.tails)]

----------------------------------------------------------------------------
Common(p, t) == SelectSeq(t.order, LAMBDA k : Has(p.order, k))

StableKeys(p, t) ==
  LET common == Common(p, t)
  IN {common[i] : i \in Lis([j \in DOMAIN common |-> Place(p.order, common[j])])}

NotInvalidated(p, t) == {k \in StableKeys(p, t) : p.values[k] = t.values[k]}

\* Removals in the old order, then moves and insertions in the new one, each
\* after the entry placed before it.
Operations(p, t) ==
  LET gone == SelectSeq(p.order, LAMBDA k : ~Has(t.order, k))
      placing == [i \in DOMAIN t.order |->
                    [type |-> IF Has(p.order, t.order[i]) THEN "move" ELSE "insert", key |-> t.order[i],
                     after |-> IF i = 1 THEN NoKey ELSE t.order[i - 1]]]
  IN [i \in DOMAIN gone |-> [type |-> "remove", key |-> gone[i], after |-> NoKey]]
       \o SelectSeq(placing, LAMBDA op : op.key \notin StableKeys(p, t))

----------------------------------------------------------------------------
(* The collection. *)

KeyedLists(from) == UNION {[order : {s}, values : [ToSet(s) -> from]] : s \in Sequences}

ListInit ==
  /\ prior \in KeyedLists(Values) /\ target \in KeyedLists(Values)
  /\ todo = Operations(prior, target)
  /\ listOrder = prior.order /\ listValues = prior.values
  /\ listHandles = [k \in ToSet(listOrder) |-> Place(listOrder, k)]
  /\ moves = 0
  /\ listReport = [value |-> {}, membership |-> FALSE, order |-> FALSE]

InsertEntry(key, value, after) ==
  /\ ~Has(listOrder, key)
  /\ listOrder' = InsertAt(listOrder, IF after = NoKey THEN 1 ELSE Place(listOrder, after) + 1, key)
  /\ listValues' = (key :> value) @@ listValues
  /\ listHandles' = (key :> Cardinality(ListKeys) + Place(listOrder', key)) @@ listHandles   \* a new one
  /\ listReport' = [value |-> {}, membership |-> TRUE, order |-> TRUE]
  /\ UNCHANGED moves

Remove1(key) ==
  /\ Has(listOrder, key)
  /\ listOrder' = RemoveKey(listOrder, key)
  /\ listValues' = Restrict(listValues, DOMAIN listValues \ {key})
  /\ listHandles' = Restrict(listHandles, DOMAIN listHandles \ {key})
  /\ listReport' = [value |-> {}, membership |-> TRUE, order |-> TRUE]
  /\ UNCHANGED moves

\* reorderBefore: the slot is counted in the list without the key.
SlotAfter(key, after) ==
  IF after = NoKey THEN 1
  ELSE Place(listOrder, after) + (IF Place(listOrder, key) <= Place(listOrder, after) THEN 0 ELSE 1)

\* Mutant: a moved entry is a new one.
MoveRemints(key, after) ==
  /\ listOrder' = InsertAt(RemoveKey(listOrder, key), SlotAfter(key, after), key)
  /\ moves' = moves + 1
  /\ listReport' = [value |-> {}, membership |-> FALSE, order |-> TRUE]
  /\ listHandles' = [listHandles EXCEPT ![key] = 2 * Cardinality(ListKeys) + moves']
  /\ UNCHANGED listValues

\* A move keeps value and handle.
MoveKey(key, after) ==
  /\ listOrder' = InsertAt(RemoveKey(listOrder, key), SlotAfter(key, after), key)
  /\ moves' = moves + 1
  /\ listReport' = [value |-> {}, membership |-> FALSE, order |-> TRUE]
  /\ UNCHANGED <<listValues, listHandles>>

Apply ==
  /\ todo # <<>>
  /\ todo' = Tail(todo)
  /\ LET op == Head(todo)
     IN \/ op.type = "remove" /\ Remove1(op.key)
        \/ op.type = "insert" /\ InsertEntry(op.key, target.values[op.key], op.after)
        \/ op.type = "move" /\ MoveKey(op.key, op.after)
  /\ UNCHANGED <<prior, target>>

\* The values are the caller's to set; what did not change is not reported.
SetEntry(key) ==
  /\ todo = <<>> /\ Has(listOrder, key)
  /\ listValues[key] # target.values[key]
  /\ listValues' = [listValues EXCEPT ![key] = target.values[key]]
  /\ listReport' = [value |-> {key}, membership |-> FALSE, order |-> FALSE]
  /\ UNCHANGED <<prior, target, todo, listOrder, listHandles, moves>>

ListNext == Apply \/ \E k \in ListKeys : SetEntry(k)

ListSpec == ListInit /\ [][ListNext]_listVars

----------------------------------------------------------------------------
ListTypeOK ==
  /\ listOrder \in Sequences
  /\ DOMAIN listValues = ToSet(listOrder) /\ DOMAIN listHandles = ToSet(listOrder)

(* The operations lead from the old collection to the new one; an entry that *)
(* is in both keeps its handle, and one that is reported as not invalidated  *)
(* has not been touched at all.                                              *)
Reconciled ==
  /\ todo = <<>> => listOrder = target.order
  /\ \A k \in ToSet(prior.order) \cap ToSet(listOrder) \cap ToSet(target.order) : listHandles[k] = Place(prior.order, k)
  /\ \A k \in NotInvalidated(prior, target) : listValues[k] = prior.values[k] /\ \A i \in DOMAIN todo : todo[i].key # k

(* No shorter way: with fewer moves some two entries would have to pass each *)
(* other without either of them moving.                                      *)
InOrder(s) == \A a, b \in s : (Place(prior.order, a) < Place(prior.order, b)) = (Place(target.order, a) < Place(target.order, b))
MovesAreFewest ==
  todo = <<>> => LET common == ToSet(Common(prior, target))
                 IN moves = Min({Cardinality(common \ s) : s \in {x \in SUBSET common : InOrder(x)}})

(* What an operation reports covers all that it changed.                     *)
ReportCovers ==
  /\ listOrder' # listOrder => listReport'.order
  /\ DOMAIN listValues' # DOMAIN listValues => listReport'.membership
  /\ \A k \in DOMAIN listValues \cap DOMAIN listValues' : listValues'[k] # listValues[k] => k \in listReport'.value

----------------------------------------------------------------------------
(* The tree. *)

Root == 1
Nodes == DOMAIN treeValue
NoReport == [path |-> <<>>, value |-> {}, membership |-> FALSE, order |-> FALSE]

\* The nodes at every path.
At ==
  LET level[n \in 0..MaxDepth] ==
        IF n = 0 THEN <<>> :> Root
        ELSE LET up == level[n - 1]
             IN [p \in UNION {{Append(q, k) : k \in ToSet(treeOrder[up[q]])} : q \in DOMAIN up} |->
                   child[up[Front(p)]][Last(p)]]
  IN FoldFunction(LAMBDA one, all : one @@ all, <<>>, [n \in 0..MaxDepth |-> level[n]])

Reachable == Range(At)

TreeInit ==
  /\ treeValue = <<CHOOSE v \in Values : TRUE>>
  /\ treeOrder = << <<>> >> /\ child = << <<>> >> /\ treeHandle = << <<>> >> /\ given = <<0>>
  /\ treeReport = NoReport

----------------------------------------------------------------------------
\* setValue: the key is reported by its parent's level only when it changed.
SetValue(path, v) ==
  /\ path # <<>>
  /\ treeValue' = [treeValue EXCEPT ![At[path]] = v]
  /\ treeReport' = [NoReport EXCEPT !.path = path, !.value = IF treeValue[At[path]] # v THEN {Last(path)} ELSE {}]
  /\ UNCHANGED <<treeOrder, child, treeHandle, given>>

\* Where SourceMap.insert puts a key: at the end or start, at a clamped index,
\* or after an anchor.
Places(n) == 1..(Len(treeOrder[n]) + 1)

\* Mutant: the handle is the place of the key.
PlaceAsHandle(n, key, node, at) ==
  /\ treeOrder' = [treeOrder EXCEPT ![n] = InsertAt(@, at, key)]
  /\ child' = [child EXCEPT ![n] = (key :> node) @@ @]
  /\ treeHandle' = [treeHandle EXCEPT ![n] = [k \in DOMAIN @ \cup {key} |-> Place(treeOrder'[n], k)]]
  /\ given' = [given EXCEPT ![n] = @ + 1]

Inserted(n, key, node, at) ==
  /\ treeOrder' = [treeOrder EXCEPT ![n] = InsertAt(@, at, key)]
  /\ child' = [child EXCEPT ![n] = (key :> node) @@ @]
  /\ treeHandle' = [treeHandle EXCEPT ![n] = (key :> given[n]) @@ @]
  /\ given' = [given EXCEPT ![n] = @ + 1]

\* insertChild of a subtree that was taken out before.
InsertChild(path, key, at) ==
  LET n == At[path] IN
  /\ Len(path) < MaxDepth /\ given[n] < MaxHandles
  /\ key \notin ToSet(treeOrder[n]) /\ at \in Places(n)
  /\ treeReport' = [NoReport EXCEPT !.path = path, !.membership = TRUE, !.order = TRUE]
  /\ \E node \in Nodes \ Reachable :
       /\ \A other \in Nodes : node \notin Range(child[other])
       /\ Inserted(n, key, node, at)
  /\ UNCHANGED treeValue

\* insertChild of the node that buildNode makes of a new specification.
InsertNew(path, key, v, at) ==
  LET n == At[path] new == Len(treeValue) + 1 IN
  /\ Len(path) < MaxDepth /\ given[n] < MaxHandles /\ new <= MaxNodes
  /\ key \notin ToSet(treeOrder[n]) /\ at \in Places(n)
  /\ treeReport' = [NoReport EXCEPT !.path = path, !.membership = TRUE, !.order = TRUE]
  /\ treeValue' = Append(treeValue, v)
  /\ treeOrder' = Append([treeOrder EXCEPT ![n] = InsertAt(@, at, key)], <<>>)
  /\ child' = Append([child EXCEPT ![n] = (key :> new) @@ @], <<>>)
  /\ treeHandle' = Append([treeHandle EXCEPT ![n] = (key :> given[n]) @@ @], <<>>)
  /\ given' = Append([given EXCEPT ![n] = @ + 1], 0)

RemoveChild(path, key) ==
  LET n == At[path] IN
  /\ treeOrder' = [treeOrder EXCEPT ![n] = RemoveKey(@, key)]
  /\ child' = [child EXCEPT ![n] = Restrict(@, DOMAIN @ \ {key})]
  /\ treeHandle' = [treeHandle EXCEPT ![n] = Restrict(@, DOMAIN @ \ {key})]
  /\ treeReport' = [NoReport EXCEPT !.path = path, !.membership = TRUE, !.order = TRUE]
  /\ UNCHANGED <<treeValue, given>>

\* moveChildTo, moveChildBefore and moveChildAfter; also a move to the same
\* place reports the order.
Moved(path, keys) ==
  /\ treeOrder' = [treeOrder EXCEPT ![At[path]] = keys]
  /\ treeReport' = [NoReport EXCEPT !.path = path, !.order = TRUE]
  /\ UNCHANGED <<treeValue, child, treeHandle, given>>

MoveChild(path, key) ==
  LET keys == treeOrder[At[path]] IN
  \/ \E index \in 1..Len(keys) : Moved(path, MoveTo(keys, key, index))
  \/ \E anchor \in ToSet(keys) : Moved(path, MoveBefore(keys, key, anchor)) \/ Moved(path, MoveAfter(keys, key, anchor))

TreeNext ==
  \E path \in DOMAIN At :
    \/ \E v \in Values : SetValue(path, v)
    \/ \E key \in TreeKeys, v \in Values, at \in 1..(Cardinality(TreeKeys) + 1) :
         InsertNew(path, key, v, at)
    \/ \E key \in TreeKeys, at \in 1..(Cardinality(TreeKeys) + 1) : InsertChild(path, key, at)
    \/ \E key \in ToSet(treeOrder[At[path]]) : RemoveChild(path, key) \/ MoveChild(path, key)

TreeSpec == TreeInit /\ [][TreeNext]_treeVars

----------------------------------------------------------------------------
TreeTypeOK ==
  /\ \A n \in Nodes : /\ ToSet(treeOrder[n]) = DOMAIN child[n] /\ DOMAIN treeHandle[n] = DOMAIN child[n]
                      /\ Len(treeOrder[n]) = Cardinality(DOMAIN child[n])
  /\ \A p \in DOMAIN At : Len(p) <= MaxDepth

(* The tree stays one: every node has at most one place.                     *)
OnePlace == \A p, q \in DOMAIN At : At[p] = At[q] => p = q

(* A handle names one entry of its collection as long as the entry is there. *)
HandlesAreUnique == \A n \in Nodes : \A j, k \in DOMAIN treeHandle[n] : treeHandle[n][j] = treeHandle[n][k] => j = k

(* What an operation reports covers what it changed, at that path and        *)
(* nowhere else: a reader of any other value or level sees no change, and an *)
(* entry that stays keeps its handle.                                        *)
ReportedOnly ==
  /\ \A p \in DOMAIN At \cap DOMAIN At' :
       /\ At'[p] = At[p]
       /\ treeValue'[At'[p]] # treeValue[At[p]] => p = treeReport'.path /\ Last(p) \in treeReport'.value
       /\ treeOrder'[At'[p]] # treeOrder[At[p]] => p = treeReport'.path /\ treeReport'.order
       /\ ToSet(treeOrder'[At'[p]]) # ToSet(treeOrder[At[p]]) => treeReport'.membership
  /\ \A n \in Reachable : \A k \in DOMAIN treeHandle[n] \cap DOMAIN treeHandle'[n] : treeHandle'[n][k] = treeHandle[n][k]
=============================================================================
