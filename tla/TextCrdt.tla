------------------------------ MODULE TextCrdt ------------------------------
(* Replicas of the free-text CRDT of src/src/text-crdt.js: typing, deleting, *)
(* forking, merging whole states, syncing by version vector and delta, and   *)
(* collecting tombstones, with the cache of the visible order.               *)
EXTENDS OrderedOps

CONSTANTS Replicas,   \* peer ids, natural numbers from 1
          First,      \* the replica that exists from the start
          Chars,      \* characters
          MaxLen,     \* bound on the length of one inserted string
          MaxEdits    \* bound on local edits and collections

VARIABLES texts,      \* replica -> its elements
          counters,   \* replica -> the counter of its last operation
          cache,      \* replica -> the cached visible order, or Cold
          peers,      \* the replicas that exist
          typed       \* local edits and collections so far

textVars == <<texts, counters, cache, peers, typed>>

Cold == <<"cold">>

Init ==
  /\ peers = {First}
  /\ texts = [r \in Replicas |-> <<>>]
  /\ counters = [r \in Replicas |-> 0]
  /\ cache = [r \in Replicas |-> Cold]
  /\ typed = 0

\* orderedIds: the cache if it is warm.
Visible(r) == IF cache[r] = Cold THEN OrderedLive(texts[r]) ELSE cache[r]

Edit(r) == r \in peers /\ typed < MaxEdits /\ typed' = typed + 1 /\ UNCHANGED peers

\* insert and insertStr at an index of the visible text.
Type(r, index, str) ==
  /\ Edit(r)
  /\ index <= Len(Visible(r))
  /\ texts' = [texts EXCEPT ![r] = Insert(@, counters[r], r, index, str)]
  /\ counters' = [counters EXCEPT ![r] = @ + Len(str)]
  /\ cache' = [cache EXCEPT ![r] = Cold]

Erase(r, index) ==
  /\ Edit(r)
  /\ index < Len(Visible(r))
  /\ texts' = [texts EXCEPT ![r] = Delete(@, counters[r], r, index)]
  /\ counters' = [counters EXCEPT ![r] = @ + 1]
  /\ cache' = [cache EXCEPT ![r] = Cold]

Fork(r, new) ==
  /\ r \in peers
  /\ new \in Replicas \ peers
  /\ peers' = peers \cup {new}
  /\ texts' = [texts EXCEPT ![new] = texts[r]]
  /\ counters' = [counters EXCEPT ![new] = counters[r]]
  /\ UNCHANGED <<cache, typed>>

(* merge and applyDelta read the text before and after, which warms the      *)
(* cache, and drop the cache in between only if an element changed.          *)
Absorb(r, ops) ==
  LET before == Visible(r)
      joined == Join(texts[r], ops)
  IN /\ texts' = [texts EXCEPT ![r] = joined]
     /\ counters' = [counters EXCEPT ![r] = Max({@, MaxCounter(ops)})]
     /\ cache' = [cache EXCEPT ![r] = IF joined = texts[r] THEN before ELSE OrderedLive(joined)]
     /\ UNCHANGED <<peers, typed>>

Merge(r, s) == r \in peers /\ s \in peers \ {r} /\ Absorb(r, texts[s])

ApplyDelta(r, s) ==
  /\ r \in peers /\ s \in peers \ {r}
  /\ Absorb(r, DeltaSince(texts[s], VersionVector(texts[r])))

(* gc: the caller's policy calls a deletion stable when every replica holds  *)
(* it and r holds what the others typed after the deleted element.           *)
Stable(r, id) ==
  \A p \in peers :
    /\ id \in DOMAIN texts[p] => ~IsLive(texts[p], id)
    /\ Children(texts[p], id) \subseteq DOMAIN texts[r]

Gc(r) ==
  LET stable == {texts[r][id].deleted : id \in {i \in DOMAIN texts[r] : Stable(r, i)}}
      kept == Collect(texts[r], stable)
  IN /\ Edit(r)
     /\ kept # texts[r]
     /\ texts' = [texts EXCEPT ![r] = kept]
     /\ cache' = [cache EXCEPT ![r] = Cold]
     /\ UNCHANGED counters

Strings == UNION {[1..n -> Chars] : n \in 1..MaxLen}

Next ==
  \/ \E r \in Replicas : \E i \in 0..Len(Visible(r)) :
       Erase(r, i) \/ \E str \in Strings : Type(r, i, str)
  \/ \E r, s \in Replicas : Fork(r, s) \/ Merge(r, s) \/ ApplyDelta(r, s)
  \/ \E r \in Replicas : Gc(r)

Spec == Init /\ [][Next]_textVars

----------------------------------------------------------------------------
TypeOK ==
  /\ First \in peers /\ peers \subseteq Replicas
  /\ \A r \in Replicas : /\ counters[r] \in Nat
                         /\ \A id \in DOMAIN texts[r] : id[2] \in peers /\ texts[r][id].ch \in Chars
  /\ typed \in 0..MaxEdits

(* Merging gives both replicas the same text whoever merges first, and the   *)
(* merged text shows every character that is not deleted: none hangs from an *)
(* origin that was collected.                                                *)
TextsMerge ==
  \A r, s \in peers :
    LET joined == Join(texts[r], texts[s])
    IN /\ joined = Join(texts[s], texts[r])
       /\ Len(OrderedLive(joined)) = Cardinality({id \in DOMAIN joined : IsLive(joined, id)})

(* A replica that answers with the delta for the other's version vector      *)
(* gives it what a merge of its whole state would: the greatest counter per  *)
(* peer stands for all operations of that peer, deletions included, although *)
(* of two concurrent deletions only one id is kept.                          *)
DeltaIsEnough ==
  \A r, s \in peers :
    OrderedLive(Join(texts[r], DeltaSince(texts[s], VersionVector(texts[r]))))
      = OrderedLive(Join(texts[r], texts[s]))

(* The cached order is the order of the elements, and a peer's next id is    *)
(* one that no replica has used.                                             *)
CacheCurrent ==
  \A r \in peers : /\ cache[r] # Cold => cache[r] = OrderedLive(texts[r])
                   /\ \A s \in peers : \A id \in OpIds(texts[s]) : id[2] = r => id[1] <= counters[r]

(* "siblings of the same origin are visited in DESCENDING OpId order         *)
(* (most-recent first)": so what is typed at the front comes out in front.   *)
SiblingsMostRecentFirst ==
  \A r \in peers :
    LET all == OrderedAll(texts[r])
    IN \A i, j \in DOMAIN all :
         i < j /\ texts[r][all[i]].origin = texts[r][all[j]].origin => Less(all[j], all[i])
=============================================================================
