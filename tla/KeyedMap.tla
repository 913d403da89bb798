------------------------------ MODULE KeyedMap ------------------------------
(* The keyed reactive maps: reactive-family.js, and with it its thread-safe  *)
(* and asynchronous flavours, on a graph that is reduced to what a map needs *)
(* of it: signals and entry nodes are sources, and every reader of the map   *)
(* is a computed with a cached value, the sources it read, and a dirty flag. *)
(* A write of the map changes the bookkeeping first and bumps its signals one*)
(* after the other (the version each shows never repeats); effects run after each set, so "after the first set" is  *)
(* a state a reader can see.                                                 *)
(*                                                                           *)
(* Readers: <<"len">>, <<"keys">>, <<"has", k>>, <<"get", k>> (no edge when  *)
(* the key is absent) and <<"dependency", k>>, which mints an unavailable    *)
(* entry for an absent key.  A dependency is published and unpublished, the  *)
(* other entries are set and removed.                                        *)
EXTENDS OrderedOps, FiniteSets, Functions

CONSTANTS Keys,          \* entries that are set and removed
          Dependencies,  \* entries of the dependency map
          Values,
          MaxMints,      \* bound: nodes minted
          MaxReaders     \* bound: readers that ever run

VARIABLES order,       \* KeyedOrder._order
          entries,     \* key -> node
          nodes,       \* node -> value
          bumping,     \* signals the running call still has to set
          cache        \* reader -> [value, deps, dirty], for readers that ran

keyedVars == <<order, entries, nodes, bumping, cache>>

Membership == -1
OrderSignal == -2
Absent == 0
Unavailable == -1
Readers == {<<"len">>, <<"keys">>} \cup ({"has", "get"} \X Keys) \cup ({"dependency"} \X Dependencies)

Init ==
  /\ order = <<>> /\ entries = <<>> /\ nodes = <<>>
  /\ bumping = <<>>
  /\ cache = <<>>

Idle == bumping = <<>>

\* A set of a source: its readers go dirty.
Invalidated(read, source) ==
  [r \in DOMAIN read |-> IF source \in read[r].deps THEN [read[r] EXCEPT !.dirty = TRUE] ELSE read[r]]

----------------------------------------------------------------------------
(* Writes. *)

\* Mutant: a new key bumps only its membership.
BumpMembershipOnly == bumping' = <<Membership>>

BumpMembership == bumping' = <<Membership, OrderSignal>>
BumpOrder == bumping' = <<OrderSignal>>

\* One signal of the running call is set.
SetSignal ==
  /\ bumping # <<>>
  /\ cache' = Invalidated(cache, Head(bumping))
  /\ bumping' = Tail(bumping)
  /\ UNCHANGED <<order, entries, nodes>>

\* Mutant: a removed key finds its old node again.
MintRecycled(key, value) ==
  /\ Len(nodes) < MaxMints
  /\ nodes' = IF entries = <<>> /\ nodes # <<>> THEN [nodes EXCEPT ![1] = value] ELSE Append(nodes, value)
  /\ entries' = (key :> (IF entries = <<>> THEN 1 ELSE Len(nodes'))) @@ entries
  /\ order' = InsertKey(order, key)

\* A node for a key that has none.
Mint(key, value) ==
  /\ key \notin DOMAIN entries /\ Len(nodes) < MaxMints
  /\ nodes' = Append(nodes, value)
  /\ entries' = (key :> Len(nodes')) @@ entries
  /\ order' = InsertKey(order, key)

\* SourceMap.set, and entry for a key that is absent; publish and unpublish
\* of a dependency come to the same.
SetEntry(key, value) ==
  /\ Idle
  /\ IF key \in DOMAIN entries
     THEN /\ nodes[entries[key]] # value
          /\ nodes' = [nodes EXCEPT ![entries[key]] = value]
          /\ cache' = Invalidated(cache, entries[key])
          /\ UNCHANGED <<order, entries, bumping>>
     ELSE Mint(key, value) /\ BumpMembership /\ UNCHANGED cache

\* The node stays with those who read it.
RemoveEntry(key) ==
  /\ Idle /\ key \in DOMAIN entries
  /\ entries' = Restrict(entries, DOMAIN entries \ {key})
  /\ order' = RemoveKey(order, key)
  /\ BumpMembership
  /\ UNCHANGED <<nodes, cache>>

ApplyMove(moved) ==
  /\ Idle
  /\ order' = moved
  /\ IF moved # order THEN BumpOrder ELSE UNCHANGED bumping
  /\ UNCHANGED <<entries, nodes, cache>>

Move(key) ==
  \/ \E index \in -1..(Len(order) + 1) : ApplyMove(MoveTo(order, key, index))
  \/ \E anchor \in ToSet(order) : ApplyMove(MoveBefore(order, key, anchor)) \/ ApplyMove(MoveAfter(order, key, anchor))

----------------------------------------------------------------------------
(* Reads. *)

Entered(key) == IF key \in DOMAIN entries THEN nodes[entries[key]] ELSE Absent

Shows(r) ==
  CASE r[1] = "len" -> Len(order)
    [] r[1] = "keys" -> order
    [] r[1] = "has" -> Has(order, r[2])
    [] OTHER -> Entered(r[2])

\* Mutant: the key list is tracked by the membership.
KeysByMembership(r) ==
  CASE r[1] \in {"len", "has", "keys"} -> {Membership}
    [] OTHER -> IF r[2] \in DOMAIN entries THEN {entries[r[2]]} ELSE {}

DepsOf(r) ==
  CASE r[1] \in {"len", "has"} -> {Membership}
    [] r[1] = "keys" -> {OrderSignal}
    [] OTHER -> IF r[2] \in DOMAIN entries THEN {entries[r[2]]} ELSE {}

Stale(r) ==
  /\ ~(r \in DOMAIN cache /\ ~cache[r].dirty)
  /\ Cardinality(DOMAIN cache \cup {r}) <= MaxReaders

\* A reader runs, between calls or in an effect of one.
Read(r) ==
  /\ Stale(r)
  /\ r[1] = "dependency" => r[2] \in DOMAIN entries
  /\ cache' = (r :> [value |-> Shows(r), deps |-> DepsOf(r), dirty |-> FALSE]) @@ cache
  /\ UNCHANGED <<order, entries, nodes, bumping>>

\* observeDependency of an absent key mints in the middle of the reader's run:
\* the next step of the call bumps the signals.
ReadMinting(key) ==
  /\ Idle /\ Stale(<<"dependency", key>>)
  /\ Mint(key, Unavailable) /\ BumpMembership
  /\ cache' = (<<"dependency", key>> :> [value |-> Unavailable, deps |-> {Len(nodes')}, dirty |-> FALSE]) @@ cache

Next ==
  \/ SetSignal
  \/ \E k \in Keys : RemoveEntry(k) \/ \E v \in Values : SetEntry(k, v)
  \/ \E d \in Dependencies : ReadMinting(d) \/ \E v \in Values \cup {Unavailable} : SetEntry(d, v)
  \/ \E k \in ToSet(order) : Move(k)
  \/ \E r \in Readers : Read(r)

Spec == Init /\ [][Next]_keyedVars

----------------------------------------------------------------------------
TypeOK ==
  /\ ToSet(order) = DOMAIN entries /\ Len(order) = Cardinality(DOMAIN entries)
  /\ \A k \in DOMAIN entries : entries[k] \in DOMAIN nodes
  /\ DOMAIN cache \subseteq Readers

(* Between calls a reader that is not dirty shows what it would compute now; *)
(* the exception is get, which does not hear of its key's removal or return. *)
(* A dependency's reader misses nothing, published before or after.          *)
ReadersAreFresh ==
  Idle => \A r \in DOMAIN cache : ~cache[r].dirty /\ r[1] # "get" => cache[r].value = Shows(r)

(* A present key keeps its node, a node belongs to one key at a time, and a  *)
(* cached read of an entry that is still there is fresh.                     *)
NodesAreStable ==
  /\ \A j, k \in DOMAIN entries : entries[j] = entries[k] => j = k
  /\ \A k \in Keys : <<"get", k>> \in DOMAIN cache /\ ~cache[<<"get", k>>].dirty /\ k \in DOMAIN entries
       /\ entries[k] \in cache[<<"get", k>>].deps => cache[<<"get", k>>].value = Entered(k)

(* Writes invalidate no more than they have to: a value only its own         *)
(* readers, a move only the key list, and nothing else changes a node.       *)
NarrowWrite ==
  /\ \A r \in DOMAIN cache : r \in DOMAIN cache' /\ ~cache[r].dirty /\ cache'[r].dirty =>
       \/ Len(bumping) = 2 /\ r[1] \in {"len", "has"}
       \/ bumping = <<OrderSignal>> /\ r[1] = "keys"
       \/ bumping = <<>> /\ ToSet(order') = ToSet(order) /\ r[1] \in {"get", "dependency"}
  /\ \A k \in DOMAIN entries \cap DOMAIN entries' : entries'[k] = entries[k]

WritesAreNarrow == [][NarrowWrite]_keyedVars

(* The moves, against what they are for: the key lands next to its anchor or *)
(* at its index, and no other two keys change places.                        *)
MovesLand ==
  \A key \in ToSet(order) :
    /\ \A index \in -1..(Len(order) + 1) :
         LET moved == MoveTo(order, key, index)
         IN RemoveKey(moved, key) = RemoveKey(order, key)
            /\ Place(moved, key) = (IF index < 1 THEN 1 ELSE Min({index, Len(order)}))
    /\ \A anchor \in ToSet(order) \ {key} :
         LET before == MoveBefore(order, key, anchor) after == MoveAfter(order, key, anchor)
         IN /\ RemoveKey(before, key) = RemoveKey(order, key) /\ Place(before, anchor) = Place(before, key) + 1
            /\ RemoveKey(after, key) = RemoveKey(order, key) /\ Place(after, key) = Place(after, anchor) + 1
=============================================================================
