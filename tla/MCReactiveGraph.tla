-------------------------- MODULE MCReactiveGraph --------------------------
(***************************************************************************)
(* Model-checking instances of the synchronous graph and of what is built  *)
(* on its nodes: their recycled ids, the keyed maps, collections and       *)
(* source trees, and the shared context's mutex and keyed map.  The system *)
(* that runs is picked by `which`, the others stay at rest.                *)
(***************************************************************************)
EXTENDS ReactiveGraph, TLC

CONSTANTS Parts, src, sel, a, b, c, watch, copy

VARIABLES
  which,
  mapOrder, mapEntries, mapNodes, bumping, cache,
  prior, target, todo, listOrder, listValues, listHandles, moves, listReport,
  treeValue, treeOrder, child, treeHandle, given, treeReport,
  arena, handles, owned, ended, running, asked,
  word, depth, pc, parked,
  order, entries, nodes, version, orderVersion, membership, orderSignal, calls, returned, era

(* a follows src; b reads src and a, which a torn read would tell apart; c *)
(* reads a or b, as sel says, and throws when sel and src are 1; watch     *)
(* reads c, copy writes a into sel.                                        *)
Program(n, seen) ==
  LET k == Len(seen) IN
  CASE n = a -> IF k = 0 THEN Reads(src) ELSE Returns(seen[1])
    [] n = b -> IF k = 0 THEN Reads(src) ELSE IF k = 1 THEN Reads(a)
                ELSE Returns(IF seen[1] = seen[2] THEN 0 ELSE 1)
    [] n = c -> IF k = 0 THEN Reads(sel)
                ELSE IF k = 1 THEN Reads(IF seen[1] = 0 THEN a ELSE src)
                ELSE IF seen = <<1, 1>> THEN Throws
                ELSE IF k = 2 /\ seen[1] = 1 THEN Reads(b)
                ELSE Returns(Last(seen))
    [] n = watch -> IF k = 0 THEN Reads(c) ELSE Returns(0)
    [] n = copy -> IF k = 0 THEN Reads(a)
                ELSE IF k = 1 THEN Writes(sel, seen[1]) ELSE Returns(0)

(* b tells nothing of a but reads it, and c reads b before it reads a. *)
Backwards(n, seen) ==
  LET k == Len(seen) IN
  CASE n = a -> IF k = 0 THEN Reads(src) ELSE Returns(seen[1])
    [] n = b -> IF k = 0 THEN Reads(a) ELSE Returns(0)
    [] n = c -> IF k = 0 THEN Reads(b) ELSE IF k = 1 THEN Reads(a) ELSE Returns(seen[2])

-----------------------------------------------------------------------------
(* The other instances and their bounds. *)

Map == INSTANCE KeyedMap WITH
  Keys <- {"a", "b"}, Dependencies <- {"d"}, Values <- {1, 2}, MaxMints <- 3, MaxReaders <- 1,
  order <- mapOrder, entries <- mapEntries, nodes <- mapNodes

Collected == INSTANCE Collections WITH
  Values <- {1, 2}, ListKeys <- {"a", "b", "c"}, TreeKeys <- {"a", "b"},
  MaxNodes <- 3, MaxHandles <- 3, MaxDepth <- 2

Arena == INSTANCE NodeArena WITH Mishaps <- {}, MaxIds <- 3, MaxGen <- 3

Mutex == INSTANCE SharedMutex WITH
  Realms <- {"main", "w1", "w2"}, Workers <- {"w1", "w2"}, MaxDepth <- 2

Shared == INSTANCE SharedKeyedMap WITH
  Keys <- {"a", "b"}, MaxNodes <- 4, MaxCalls <- 3, MaxVersion <- 5

-----------------------------------------------------------------------------
(* One system runs. *)

mapVars == <<mapOrder, mapEntries, mapNodes, bumping, cache>>
listVars == <<prior, target, todo, listOrder, listValues, listHandles, moves, listReport>>
treeVars == <<treeValue, treeOrder, child, treeHandle, given, treeReport>>
arenaVars == <<arena, handles, owned, ended, running, asked>>
mutexVars == <<word, depth, pc, parked>>
sharedVars ==
  <<order, entries, nodes, version, orderVersion, membership, orderSignal, calls, returned, era>>

keyedVars == <<mapVars, listVars, treeVars>>
heldVars == <<arenaVars, mutexVars, sharedVars>>
systemVars == <<which, vars, keyedVars, heldVars>>

SystemInit ==
  /\ which \in Parts
  /\ Init /\ (which # "graph" => \A s \in Sources : source[s] = 0)
  /\ Map!Init /\ Collected!TreeInit /\ Arena!Init /\ Mutex!Init /\ Shared!Init
  /\ Collected!ListInit /\ (which # "list" => prior.order = <<>> /\ target.order = <<>>)

(* Bound: the nodes that get disposed, one of each kind. *)
Disposable == {src, a, watch}

GraphStep ==
  /\ which = "graph" /\ Next /\ live \ live' \subseteq Disposable
  /\ UNCHANGED <<which, keyedVars, heldVars>>

KeyedStep ==
  /\ \/ which = "map" /\ Map!Next /\ UNCHANGED <<listVars, treeVars>>
     \/ which = "list" /\ Collected!ListNext /\ UNCHANGED <<mapVars, treeVars>>
     \/ which = "tree" /\ Collected!TreeNext /\ UNCHANGED <<mapVars, listVars>>
  /\ UNCHANGED <<which, vars, heldVars>>

HeldStep ==
  /\ \/ which = "arena" /\ Arena!Next /\ UNCHANGED <<mutexVars, sharedVars>>
     \/ which = "mutex" /\ Mutex!Next /\ UNCHANGED <<arenaVars, sharedVars>>
     \/ which = "shared" /\ Shared!Next /\ UNCHANGED <<arenaVars, mutexVars>>
  /\ UNCHANGED <<which, vars, keyedVars>>

SystemNext == GraphStep \/ KeyedStep \/ HeldStep

SystemSpec == SystemInit /\ [][SystemNext]_systemVars

-----------------------------------------------------------------------------
(* A collection, its order and its readers say the same: readers of a keyed *)
(* map are fresh between calls, moves land where they aim, reconciliation   *)
(* arrives at the new collection by the fewest moves, and a source tree     *)
(* stays one tree.                                                          *)
CollectionsAgree ==
  CASE which = "map" ->
         Map!TypeOK /\ Map!ReadersAreFresh /\ Map!NodesAreStable /\ Map!MovesLand
    [] which = "list" -> Collected!ListTypeOK /\ Collected!Reconciled /\ Collected!MovesAreFewest
    [] which = "tree" -> Collected!TreeTypeOK /\ Collected!OnePlace /\ Collected!HandlesAreUnique
    [] OTHER -> TRUE

(* No write touches, or goes unreported to, a reader it should not: keyed   *)
(* maps, reconciled collections and source trees report exactly what moved, *)
(* and a signal of the shared map never goes back.                          *)
WritesAreNarrow ==
  [][CASE which = "map" -> Map!NarrowWrite
       [] which = "list" -> Collected!ReportCovers
       [] which = "tree" -> Collected!ReportedOnly
       [] which = "shared" -> Shared!SignalAdvance
       [] OTHER -> TRUE]_systemVars


(* Realms that share a context: one at a time is inside, nobody parked is   *)
(* forgotten, racing factories agree on one handle, and the signals catch   *)
(* up with the last version.                                                *)
SharedStateAgrees ==
  /\ which = "mutex" => Mutex!TypeOK /\ Mutex!OneInside /\ Mutex!ParkedWillWake
  /\ which = "shared" => Shared!TypeOK /\ Shared!OneHandle /\ Shared!SignalsCatchUp
=============================================================================
