----------------------------- MODULE NodeArena -----------------------------
(* The arena of the Cell kernel (src/src/reactive.js) and its teardown: ids  *)
(* are recycled, a handle remembers the allocation it was made for, edges    *)
(* are kept at both ends, an eager computed owns a puller effect, and a      *)
(* teardown scope disposes what it owns.  What values are computed is        *)
(* ReactiveGraph's matter; here a body only reads, creates and disposes.     *)
(* The functions take and return the arena as a record.  Cleanup callbacks   *)
(* are left out.                                                             *)
EXTENDS Integers, Sequences, SequencesExt, FiniteSets, FiniteSetsExt, Functions

CONSTANTS Mishaps,   \* what may go wrong: a subset of {"own teardown", "puller throws"}
          MaxIds,    \* bound: ids
          MaxGen     \* bound: allocations

VARIABLES arena,     \* [kind, gen, has, up, down, free, puller, next]
          handles,   \* handles given out: <<class, id, gen>>
          owned,     \* TeardownScope.#owned, in order of creation
          ended,
          running,   \* the node whose body runs, NoBody between runs
          asked      \* allocations someone asked to be torn down (history)

arenaVars == <<arena, handles, owned, ended, running, asked>>

Ids == 1..MaxIds
NoBody == <<0, 0>>
Owner(a, id) == <<id, a.gen[id]>>

\* up: <<reader, what it read>>, down: <<what is read, reader>>; each end with
\* the allocation it was at the time.
Init ==
  /\ arena = [kind |-> [i \in Ids |-> "none"], gen |-> [i \in Ids |-> 0], has |-> [i \in Ids |-> 0],
              up |-> {}, down |-> {}, free |-> <<>>, puller |-> <<>>, next |-> 1]
  /\ handles = {} /\ owned = <<>> /\ ended = FALSE /\ running = NoBody /\ asked = {}

Allocations == {h[3] : h \in handles} \cup {arena.gen[i] : i \in Ids}
Fresh == 1 + Max({0} \cup Allocations)

\* allocId and the constructors: the flags of the id start anew.
CanAllocate(a) == Fresh <= MaxGen /\ (a.free # <<>> \/ a.next <= MaxIds)
NewId(a) == IF a.free # <<>> THEN Last(a.free) ELSE a.next
Allocated(a, kind) ==
  [a EXCEPT !.kind[NewId(a)] = kind, !.gen[NewId(a)] = Fresh, !.has[NewId(a)] = 0,
            !.free = IF @ = <<>> THEN @ ELSE Front(@),
            !.next = IF a.free = <<>> THEN @ + 1 ELSE @]

\* registerDependency, for a body that was started as reader.
WithEdge(a, reader, id) ==
  [a EXCEPT !.down = IF a.kind[id] \in {"source", "slot"} THEN @ \cup {<<Owner(a, id), reader>>} ELSE @,
            !.up = IF a.kind[reader[1]] \in {"slot", "effect"} THEN @ \cup {<<reader, Owner(a, id)>>} ELSE @]

\* Edges are found by id, at the other end.
WithoutReads(a, id) ==
  [a EXCEPT !.down = {e \in @ : ~(e[2][1] = id /\ \E r \in a.up : r[1][1] = id /\ r[2][1] = e[1][1])},
            !.up = {e \in @ : e[1][1] # id}]

WithoutReaders(a, id) ==
  [a EXCEPT !.up = {e \in @ : ~(e[2][1] = id /\ \E d \in a.down : d[1][1] = id /\ d[2][1] = e[1][1])},
            !.down = {e \in @ : e[1][1] # id}]

Freed(a, id) == [a EXCEPT !.kind[id] = "none", !.has[id] = 0, !.free = Append(@, id)]

DisposedEffect(a, id) == IF a.kind[id] = "effect" THEN Freed(WithoutReads(a, id), id) ELSE a
DisposedSource(a, id) == Freed(WithoutReaders(a, id), id)

\* Mutant: the entry goes, the effect stays.
PullerForgotten(a, id) == [a EXCEPT !.puller = Restrict(@, DOMAIN @ \ {id})]

WithoutPuller(a, id) ==
  IF id \in DOMAIN a.puller
  THEN [DisposedEffect(a, a.puller[id]) EXCEPT !.puller = Restrict(@, DOMAIN @ \ {id})]
  ELSE a

DisposedSlot(a, id) ==
  Freed(WithoutReaders(WithoutReads(WithoutPuller(a, id), id), id), id)

\* Mutant: only the kind is checked.
NamesKind(a, h) == a.kind[h[2]] = h[1]

\* A handle names its node as long as the id is of its kind and allocation.
Names(a, h) == a.kind[h[2]] = h[1] /\ a.gen[h[2]] = h[3]

DisposedNode(a, h) ==
  IF ~Names(a, h) THEN a
  ELSE CASE h[1] = "source" -> DisposedSource(a, h[2])
         [] h[1] = "slot" -> DisposedSlot(a, h[2])
         [] OTHER -> DisposedEffect(a, h[2])

----------------------------------------------------------------------------
Idle == running = NoBody
Calls == Idle \/ arena.kind[running[1]] # "none"

\* source, computed and effect, on the context or on the scope.
Create(kind, scoped) ==
  LET h == <<kind, NewId(arena), Fresh>> IN
  /\ CanAllocate(arena)
  /\ arena' = Allocated(arena, kind)
  /\ handles' = handles \cup {h}
  /\ owned' = IF scoped /\ ~ended THEN Append(owned, h) ELSE owned
  /\ UNCHANGED <<ended, running, asked>>

Adopt(h) ==
  /\ ~ended /\ h \notin ToSet(owned)
  /\ owned' = Append(owned, h)
  /\ UNCHANGED <<arena, handles, ended, running, asked>>

Disarm ==
  /\ owned # <<>>
  /\ owned' = <<>>
  /\ UNCHANGED <<arena, handles, ended, running, asked>>

\* The body that runs may tear down its own node only as a mishap.
Spared(hs) == "own teardown" \in Mishaps \/ \A h \in hs : <<h[2], h[3]>> # running

Dispose(h) ==
  /\ Spared({h})
  /\ arena' = DisposedNode(arena, h)
  /\ asked' = asked \cup {<<h[2], h[3]>>}
  /\ UNCHANGED <<handles, owned, ended, running>>

\* In reverse order of creation.
End ==
  /\ ~ended /\ Spared(ToSet(owned))
  /\ arena' = FoldLeft(DisposedNode, arena, Reverse(owned))
  /\ asked' = asked \cup {<<h[2], h[3]>> : h \in ToSet(owned)}
  /\ ended' = TRUE /\ owned' = <<>>
  /\ UNCHANGED <<handles, running>>

\* makeEager; the puller's first run may throw what the computed throws.
\* A handle whose id was given to another computed makes that one eager.
MakeEager(h) ==
  LET id == h[2] IN
  /\ Idle /\ h[1] = "slot" /\ arena.kind[id] = "slot" /\ id \notin DOMAIN arena.puller
  /\ CanAllocate(arena)
  /\ LET pulled == WithEdge(Allocated(arena, "effect"), <<NewId(arena), Fresh>>, id)
     IN \/ arena' = [pulled EXCEPT !.puller = (id :> NewId(arena)) @@ @, !.has[id] = pulled.gen[id]]
        \/ "puller throws" \in Mishaps /\ arena' = pulled
  /\ UNCHANGED <<handles, owned, ended, running, asked>>

MakeLazy(h) ==
  /\ h[1] = "slot" /\ h[2] \in DOMAIN arena.puller
  /\ <<arena.puller[h[2]], arena.gen[arena.puller[h[2]]]>> # running
  /\ arena' = WithoutPuller(arena, h[2])
  /\ UNCHANGED <<handles, owned, ended, running, asked>>

----------------------------------------------------------------------------
\* A body starts: what it read last time is forgotten.  (A puller's body only
\* reads its computed, and is not run here.)
Start(id) ==
  /\ Idle /\ arena.kind[id] \in {"slot", "effect"} /\ id \notin Range(arena.puller)
  /\ <<arena.kind[id], id, arena.gen[id]>> \in handles
  /\ arena' = WithoutReads(arena, id)
  /\ running' = Owner(arena, id)
  /\ UNCHANGED <<handles, owned, ended, asked>>

\* The view reads for the id the body was started with.  A node that is gone
\* throws before an edge is made.
BodyReads(h) ==
  /\ ~Idle /\ h[1] # "effect" /\ h[2] # running[1]
  /\ arena.kind[h[2]] \in {"source", "slot"}
  /\ h[3] < running[2]   \* no circles: a body reads what is older
  /\ arena.gen[h[2]] < running[2]
  /\ arena' = WithEdge(arena, running, h[2])
  /\ UNCHANGED <<handles, owned, ended, running, asked>>

\* The flags of the id are set, whatever it names by now.
Finish ==
  /\ ~Idle
  /\ running' = NoBody
  /\ \/ arena' = [arena EXCEPT !.has[running[1]] = running[2]] /\ <<"slot", running[1], running[2]>> \in handles
     \/ UNCHANGED arena   \* an effect, or a throw
  /\ UNCHANGED <<handles, owned, ended, asked>>

Next ==
  \/ \E kind \in {"source", "slot", "effect"}, scoped \in BOOLEAN : Create(kind, scoped)
  \/ \E h \in handles : Adopt(h) \/ Dispose(h) \/ MakeEager(h) \/ MakeLazy(h) \/ BodyReads(h)
  \/ Disarm \/ End \/ Finish
  \/ \E id \in Ids : Start(id)

Spec == Init /\ [][Next]_arenaVars

----------------------------------------------------------------------------
Live == {i \in Ids : arena.kind[i] # "none"}

TypeOK ==
  /\ \A i \in Ids : arena.kind[i] \in {"none", "source", "slot", "effect"} /\ arena.gen[i] <= MaxGen
  /\ ToSet(arena.free) \cap Live = {} /\ Cardinality(ToSet(arena.free)) = Len(arena.free)
  /\ ToSet(arena.free) \cup Live = 1..(arena.next - 1)

(* A recycled id inherits nothing: every edge is known at both ends and was  *)
(* made by and for the nodes that are there now, and a cached value was      *)
(* computed by the node's own body.                                          *)
InheritsNothing ==
  /\ arena.down = {<<e[2], e[1]>> : e \in arena.up}
  /\ \A e \in arena.up : \A end \in {e[1], e[2]} : end[1] \in Live /\ end = Owner(arena, end[1])
  /\ \A i \in Live : arena.has[i] # 0 => arena.kind[i] = "slot" /\ arena.has[i] = arena.gen[i]

(* Nothing dies by mistake: a node is there until its own handle, or a scope *)
(* that owns it, tears it down, however often its id had another meaning.    *)
NothingElseDies == \A h \in handles : <<h[2], h[3]>> \notin asked => Names(arena, h)

(* No puller survives its computed, and no computed its end of the bargain:  *)
(* an effect nobody holds a handle of is the puller of the computed it reads.*)
NoStrayPuller ==
  /\ \A i \in Live : (\A h \in handles : <<h[2], h[3]>> # Owner(arena, i)) => i \in Range(arena.puller)
  /\ \A s \in DOMAIN arena.puller :
       /\ arena.kind[s] = "slot" /\ arena.kind[arena.puller[s]] = "effect"
       /\ <<Owner(arena, arena.puller[s]), Owner(arena, s)>> \in arena.up
=============================================================================
