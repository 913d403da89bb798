----------------------------- MODULE OrderedOps -----------------------------
(* The pure parts the keyed maps and the document CRDTs are built from.      *)
(*                                                                           *)
(* A key order (src/src/keyed-order.js) is a list of keys without            *)
(* repetitions, and the moves on it.  Places start at 1 here, at 0 in the    *)
(* code.                                                                     *)
(*                                                                           *)
(* A position is a fractional-index key of src/src/seq-crdt.js and           *)
(* src/src/lossless-tree-crdt.js: a byte sequence, a missing byte reading as *)
(* 0, compared with the peer that made it as a tie-break.                    *)
(*                                                                           *)
(* A text is the character CRDT of src/src/text-crdt.js: a set of elements   *)
(* named by an OpId <<counter, peer>>, each with a character, the            *)
(* left-origin it was typed after and the id of its deletion, if any.        *)
(* TextCrdt makes replicas of it, LosslessTree embeds it in its leaves.      *)
EXTENDS Integers, FiniteSets, Sequences, SequencesExt, FiniteSetsExt

----------------------------------------------------------------------------
(* Key orders. *)

Place(order, key) == SelectInSeq(order, LAMBDA k : k = key)
Has(order, key) == key \in ToSet(order)

InsertKey(order, key) == IF Has(order, key) THEN order ELSE Append(order, key)
RemoveKey(order, key) == SelectSeq(order, LAMBDA k : k # key)

\* Mutant: a negative index counts from the end, as splice counts it.
UnclampedMoveTo(order, key, index) ==
  LET rest == RemoveKey(order, key)
      at == IF index < 1 THEN Max({Len(rest) + index, 1}) ELSE Min({index, Len(order)})
  IN IF Has(order, key) THEN InsertAt(rest, at, key) ELSE order

\* The index is clamped at both ends.
MoveTo(order, key, index) ==
  IF Has(order, key) THEN InsertAt(RemoveKey(order, key), Max({1, Min({index, Len(order)})}), key) ELSE order

\* Mutant: the anchor's place is taken after the removal for a key before it.
BeforeUnshifted(order, key, anchor) == Place(order, anchor)

\* A key in front of its anchor makes room when it is lifted out.
PlaceBefore(order, key, anchor) ==
  IF Place(order, key) < Place(order, anchor) THEN Place(order, anchor) - 1 ELSE Place(order, anchor)

MoveBefore(order, key, anchor) ==
  IF Has(order, key) /\ Has(order, anchor) THEN MoveTo(order, key, PlaceBefore(order, key, anchor)) ELSE order

MoveAfter(order, key, anchor) ==
  IF ~Has(order, key) \/ ~Has(order, anchor) THEN order
  ELSE MoveTo(order, key, IF Place(order, key) <= Place(order, anchor) THEN Place(order, anchor)
                          ELSE Place(order, anchor) + 1)

----------------------------------------------------------------------------
(* Positions. *)

Open == <<256>>   \* no right neighbour: beyond every byte

Byte(k, i) == IF i <= Len(k) THEN k[i] ELSE 0
Bytes(k, n) == [i \in 1..n |-> Byte(k, i)]

\* keyBetween(lo, null): half-way from the first byte that leaves room.
Above(lo) ==
  LET i == Min({n \in 1..Len(lo) + 1 : Byte(lo, n) < 255})
  IN Append(Bytes(lo, i - 1), (Byte(lo, i) + 256) \div 2)

\* At the first byte where lo drops below hi: half-way if there is room, else
\* stay on lo's byte and go above the rest of lo.
KeyBetween(lo, hi) ==
  IF hi = Open THEN Above(lo)
  ELSE LET n == Len(lo) + Len(hi) + 3
           drops == {i \in 1..n : Byte(lo, i) < Byte(hi, i)}
           i == Min(drops)
       IN IF drops = {} THEN Append(Bytes(lo, n), 128)
          ELSE IF Byte(lo, i) + 1 < Byte(hi, i)
               THEN Append(Bytes(lo, i - 1), (Byte(lo, i) + Byte(hi, i)) \div 2)
               ELSE Bytes(lo, i) \o Above(SubSeq(lo, i + 1, Len(lo)))

\* By bytes, then length, then peer.
Before(p, q) ==
  LET n == Min({Len(p.frac), Len(q.frac)})
      differ == {i \in 1..n : p.frac[i] # q.frac[i]}
  IN IF differ # {} THEN p.frac[Min(differ)] < q.frac[Min(differ)]
     ELSE \/ Len(p.frac) < Len(q.frac)
          \/ Len(p.frac) = Len(q.frac) /\ p.peer < q.peer

----------------------------------------------------------------------------
(* Texts. *)

Null == <<>>   \* no origin (the document's start), not deleted

\* OpId.compareTo.
Less(a, b) == a[1] < b[1] \/ (a[1] = b[1] /\ a[2] < b[2])
Descending(ids) == SetToSortSeq(ids, LAMBDA a, b : Less(b, a))
Ascending(ids) == SetToSortSeq(ids, Less)

Children(elems, origin) == {id \in DOMAIN elems : elems[id].origin = origin}

Joined(ids, parts) == FlattenSeq([i \in DOMAIN ids |-> parts[ids[i]]])

(* Each element's subtree in visiting order: the element, then its children  *)
(* from the newest to the oldest.                                            *)
Subtrees(elems) ==
  LET visit[id \in DOMAIN elems] ==
        <<id>> \o Joined(Descending(Children(elems, id)), visit)
  IN visit

(* The roots are taken from the end of an array sorted in descending order,  *)
(* so from the oldest to the newest.                                         *)
OrderedAll(elems) == Joined(Ascending(Children(elems, Null)), Subtrees(elems))

IsLive(elems, id) == elems[id].deleted = Null
OrderedLive(elems) == SelectSeq(OrderedAll(elems), LAMBDA id : IsLive(elems, id))
Spelled(ids, elems) == [i \in DOMAIN ids |-> elems[ids[i]].ch]
TextOf(elems) == Spelled(OrderedLive(elems), elems)

----------------------------------------------------------------------------
(* Local edits by a peer whose last operation had the given counter.         *)

\* insertStr: every character's origin is the one before it.
Insert(elems, counter, peer, index, str) ==
  LET visible == OrderedLive(elems)
      start == IF index = 0 \/ index > Len(visible) THEN Null ELSE visible[index]
      new == {<<counter + i, peer>> : i \in 1..Len(str)}
  IN elems @@ [id \in new |->
       LET i == id[1] - counter
       IN [ch |-> str[i],
           origin |-> IF i = 1 THEN start ELSE <<id[1] - 1, peer>>,
           deleted |-> Null]]

FromStr(peer, str) == Insert(<<>>, 0, peer, 0, str)

Delete(elems, counter, peer, index) ==
  LET id == OrderedLive(elems)[index + 1]
  IN [elems EXCEPT ![id].deleted = <<counter + 1, peer>>]

----------------------------------------------------------------------------
(* Joining: new elements are adopted, a deletion sticks, of two deletions    *)
(* the smaller id stays.                                                     *)


MergeDeleted(a, b) ==
  IF b = Null THEN a
  ELSE IF a = Null THEN b
  ELSE IF Less(b, a) THEN b ELSE a

Join(mine, theirs) ==
  [id \in DOMAIN mine \cup DOMAIN theirs |->
     IF id \notin DOMAIN theirs THEN mine[id]
     ELSE IF id \notin DOMAIN mine THEN theirs[id]
     ELSE [mine[id] EXCEPT !.deleted = MergeDeleted(@, theirs[id].deleted)]]

\* Every operation id in a text, insertions and deletions.
OpIds(elems) == DOMAIN elems \cup ({elems[id].deleted : id \in DOMAIN elems} \ {Null})
MaxCounter(elems) == Max({0} \cup {id[1] : id \in OpIds(elems)})

\* Per peer the greatest counter seen.
VersionVector(elems) ==
  [p \in {id[2] : id \in OpIds(elems)} |-> Max({id[1] : id \in {o \in OpIds(elems) : o[2] = p}})]

Seen(vv, id) == id[2] \in DOMAIN vv /\ id[1] <= vv[id[2]]

\* Mutant: a delta that carries only new insertions.
InsertionsSince(elems, vv) == Restrict(elems, {id \in DOMAIN elems : ~Seen(vv, id)})

DeltaSince(elems, vv) ==
  Restrict(elems, {id \in DOMAIN elems :
    ~Seen(vv, id) \/ (~IsLive(elems, id) /\ ~Seen(vv, elems[id].deleted))})

(* Collecting in passes, leaves first, removes a stable tombstone exactly if *)
(* its whole subtree consists of them.                                       *)
Collect(elems, stable) ==
  LET visit == Subtrees(elems)
      gone == {id \in DOMAIN elems : ~IsLive(elems, id) /\ elems[id].deleted \in stable}
  IN Restrict(elems, {id \in DOMAIN elems : ~(ToSet(visit[id]) \subseteq gone)})
=============================================================================
