------------------------------ MODULE SeqCrdt ------------------------------
(* The move-aware sequence CRDT of src/src/seq-crdt.js: an element is three  *)
(* independent last-writer-wins registers (value, position, deleted), a move *)
(* is one write of the position register, a removal one of the deleted       *)
(* register.  Replicas edit concurrently under wall clocks that disagree,    *)
(* fork, merge whole states and collect tombstones.                          *)
(*                                                                           *)
(* Elements are inserted and moved next to the neighbours the replica sees   *)
(* (insertFront, insertBack, moveAfter, moveBefore and insertBetween called  *)
(* with neighbours).  The order in which a Map lists its entries only        *)
(* matters between equal positions, which PositionsDistinct excludes.        *)
EXTENDS OrderedOps

CONSTANTS Replicas,   \* peer ids, natural numbers
          First,      \* the replica that exists from the start
          Ids,        \* element ids
          Values,     \* payloads
          Walls,      \* readings of nowMicros
          MaxEdits    \* bound on local edits and collections

VARIABLES replicas,   \* the replicas that exist
          entries,    \* replica -> (id known to it -> the three registers)
          hlc,        \* replica -> <<lastWall, lastLogical>>
          edits       \* local edits and collections so far

seqVars == <<replicas, entries, hlc, edits>>

----------------------------------------------------------------------------
(* Stamps: <<wall, logical, peer>> in lexicographic order. *)

\* Mutant: a comparison of stamps without the peer.
NewerWithoutPeer(s, t) == s[1] > t[1] \/ (s[1] = t[1] /\ s[2] > t[2])

Newer(s, t) ==
  \/ s[1] > t[1]
  \/ s[1] = t[1] /\ s[2] > t[2]
  \/ s[1] = t[1] /\ s[2] = t[2] /\ s[3] > t[3]

\* Hlc.send and Hlc.recv: the clock after a local event and after seeing s.
Send(c, now) == IF now > c[1] THEN <<now, 0>> ELSE <<c[1], c[2] + 1>>

Recv(c, s, now) ==
  LET wall == Max({c[1], s[1], now})
  IN <<wall,
       IF wall = c[1] /\ wall = s[1] THEN Max({c[2], s[2]}) + 1
       ELSE IF wall = c[1] THEN c[2] + 1
       ELSE IF wall = s[1] THEN s[2] + 1
       ELSE 0>>

----------------------------------------------------------------------------
(* A document: the registers of each element. *)

Live(elems) == {id \in DOMAIN elems : ~elems[id].deleted.val}
Order(elems) == SetToSortSeq(Live(elems), LAMBDA x, y : Before(elems[x].position.val, elems[y].position.val))

Register(val, s) == [val |-> val, stamp |-> s]
Written(reg, val, s) == IF Newer(s, reg.stamp) THEN Register(val, s) ELSE reg
Latest(a, b) == Written(a, b.val, b.stamp)

MaxStamp(e) ==
  LET stamps == {e.value.stamp, e.position.stamp, e.deleted.stamp}
  IN CHOOSE s \in stamps : \A t \in stamps : ~Newer(t, s)

MergeEntry(a, b) ==
  [value |-> Latest(a.value, b.value),
   position |-> Latest(a.position, b.position),
   deleted |-> Latest(a.deleted, b.deleted)]

Merged(a, b) ==
  [id \in DOMAIN a \cup DOMAIN b |->
     IF id \in DOMAIN a \cap DOMAIN b THEN MergeEntry(a[id], b[id])
     ELSE IF id \in DOMAIN a THEN a[id] ELSE b[id]]

----------------------------------------------------------------------------
Init ==
  /\ replicas = {First}
  /\ entries = [r \in Replicas |-> <<>>]
  /\ hlc = [r \in Replicas |-> <<0, 0>>]
  /\ edits = 0

\* A local edit of r: the clock sends, and its stamp goes into the registers.
Edit(r, now, Apply(_)) ==
  LET c == Send(hlc[r], now)
  IN /\ r \in replicas
     /\ edits < MaxEdits
     /\ edits' = edits + 1
     /\ hlc' = [hlc EXCEPT ![r] = c]
     /\ entries' = [entries EXCEPT ![r] = Apply(Append(c, r))]
     /\ UNCHANGED replicas

\* The key after the i-th live element of s (i = 0: before the first).
Gap(elems, s, i) ==
  KeyBetween(IF i = 0 THEN <<>> ELSE elems[s[i]].position.val.frac,
             IF i = Len(s) THEN Open ELSE elems[s[i + 1]].position.val.frac)

InsertBetween(r, id, v, i, now) ==
  LET elems == entries[r]
      at == [frac |-> Gap(elems, Order(elems), i), peer |-> r]
  IN /\ id \notin DOMAIN elems
     /\ Edit(r, now, LAMBDA s : elems @@ (id :>
          [value |-> Register(v, s), position |-> Register(at, s), deleted |-> Register(FALSE, s)]))

SetValue(r, id, v, now) ==
  LET elems == entries[r]
  IN /\ id \in DOMAIN elems
     /\ Edit(r, now, LAMBDA s : [elems EXCEPT ![id].value = Written(@, v, s)])

\* moveAfter and moveBefore the anchor at place i of the order, the moved
\* element still being listed; a removed element may be moved as well.
MoveBetween(r, id, i, now) ==
  LET elems == entries[r]
      at == [frac |-> Gap(elems, Order(elems), i), peer |-> r]
  IN /\ id \in DOMAIN elems
     /\ Edit(r, now, LAMBDA s : [elems EXCEPT ![id].position = Written(@, at, s)])

RemoveElement(r, id, now) ==
  LET elems == entries[r]
  IN /\ id \in DOMAIN elems
     /\ Edit(r, now, LAMBDA s : [elems EXCEPT ![id].deleted = Written(@, TRUE, s)])

\* Mutant: a fork that starts a fresh clock.
ForkFreshClock(r, new) ==
  /\ r \in replicas
  /\ new \in Replicas \ replicas
  /\ replicas' = replicas \cup {new}
  /\ entries' = [entries EXCEPT ![new] = entries[r]]
  /\ UNCHANGED <<hlc, edits>>

\* A fork takes the entries and the position of the clock under a new peer id.
Fork(r, new) ==
  /\ r \in replicas
  /\ new \in Replicas \ replicas
  /\ replicas' = replicas \cup {new}
  /\ entries' = [entries EXCEPT ![new] = entries[r]]
  /\ hlc' = [hlc EXCEPT ![new] = hlc[r]]
  /\ UNCHANGED edits

\* merge: the clock receives the newest stamp of every entry, then each
\* register takes the newer write.
Merge(r, other, now) ==
  LET seen == {MaxStamp(entries[other][id]) : id \in DOMAIN entries[other]}
  IN /\ r \in replicas /\ other \in replicas \ {r}
     /\ Merged(entries[r], entries[other]) # entries[r]
     /\ hlc' = [hlc EXCEPT ![r] = FoldSet(LAMBDA s, c : Recv(c, s, now), @, seen)]
     /\ entries' = [entries EXCEPT ![r] = Merged(@, entries[other])]
     /\ UNCHANGED <<replicas, edits>>

\* gc: tombstones at or below a watermark go.  The caller supplies a watermark
\* that is causally stable: every replica holds the tombstones it covers.
Gc(r, watermark) ==
  LET covered == {id \in DOMAIN entries[r] :
                    entries[r][id].deleted.val /\ ~Newer(entries[r][id].deleted.stamp, watermark)}
  IN /\ r \in replicas
     /\ covered # {}
     /\ edits < MaxEdits
     /\ edits' = edits + 1
     /\ \A id \in covered, p \in replicas : id \in DOMAIN entries[p] => entries[p][id].deleted.val
     /\ entries' = [entries EXCEPT ![r] = Restrict(@, DOMAIN @ \ covered)]
     /\ UNCHANGED <<replicas, hlc>>

Places(r) == 0..Cardinality(Live(entries[r]))

Next ==
  \/ \E r \in Replicas, id \in Ids, now \in Walls :
       \/ \E v \in Values : SetValue(r, id, v, now)
       \/ \E i \in Places(r) : MoveBetween(r, id, i, now) \/ \E v \in Values : InsertBetween(r, id, v, i, now)
       \/ RemoveElement(r, id, now)
  \/ \E r, s \in Replicas, now \in Walls : Merge(r, s, now)
  \/ \E r, s \in Replicas : Fork(r, s)
  \/ \E r \in Replicas : \E id \in DOMAIN entries[r] : Gc(r, entries[r][id].deleted.stamp)

Spec == Init /\ [][Next]_seqVars

----------------------------------------------------------------------------
IsDoc(elems) ==
  \A id \in DOMAIN elems : /\ elems[id].value.val \in Values
                           /\ elems[id].position.val.peer \in Replicas
                           /\ elems[id].deleted.val \in BOOLEAN

TypeOK ==
  /\ First \in replicas /\ replicas \subseteq Replicas
  /\ \A r \in Replicas : IsDoc(entries[r]) /\ hlc[r] \in Nat \X Nat
  /\ edits \in 0..MaxEdits

(* Whichever replica merges the other first, two replicas end with the same  *)
(* registers: no two different writes ever carry stamps neither of which     *)
(* beats the other, in spite of forks and of wall clocks that disagree.      *)
MergeCommutes ==
  \A r, s \in replicas : Merged(entries[r], entries[s]) = Merged(entries[s], entries[r])

(* No two elements a replica shows sit at the same position, so all replicas *)
(* with the same registers show the same order.                              *)
PositionsDistinct ==
  \A r, s \in replicas : LET elems == Merged(entries[r], entries[s]) IN
    \A x, y \in Live(elems) : x # y => elems[x].position.val # elems[y].position.val

(* A replica's clock is at or past every stamp its document holds, so the    *)
(* next local edit always takes: nobody's own write is dropped as old.       *)
ClockCoversDocument ==
  \A r \in replicas : \A id \in DOMAIN entries[r] : ~Newer(MaxStamp(entries[r][id]), Append(hlc[r], r))
=============================================================================
