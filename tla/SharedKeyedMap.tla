--------------------------- MODULE SharedKeyedMap ---------------------------
(* The keyed map of the thread-safe and of the asynchronous context          *)
(* (thread-safe-reactive-family.js, async-reactive-family.js).  The key      *)
(* order is touched only under the map's mutex; what may call back is done   *)
(* off it: building a node (a factory) and setting a signal (the effects of  *)
(* its readers).  In one realm such a callback is the only way for two calls *)
(* to overlap, so the calls form a stack.                                    *)
EXTENDS OrderedOps, FiniteSets, Functions, TLC

CONSTANTS Keys,
          MaxNodes,   \* bound: nodes built
          MaxCalls,   \* bound: calls inside each other
          MaxVersion  \* bound: changes of the order

VARIABLES order,      \* KeyedOrder._order
          entries,    \* key -> node
          nodes,      \* node -> key it was built for
          version, orderVersion,      \* counters
          membership, orderSignal,    \* what the signals show
          calls,      \* the stack: [op, key, node, at, era]
          returned,   \* handles that were returned: <<key, node, era>> (history)
          era         \* key -> how often it was removed (history)

sharedVars == <<order, entries, nodes, version, orderVersion, membership, orderSignal, calls, returned, era>>

Init ==
  /\ order = <<>> /\ entries = <<>> /\ nodes = <<>>
  /\ version = 0 /\ orderVersion = 0 /\ membership = 0 /\ orderSignal = 0
  /\ calls = <<>> /\ returned = {}
  /\ era = [k \in Keys |-> 0]

Top == Last(calls)
At(places) == calls # <<>> /\ Top.at \in places
Goes(to) == calls' = [calls EXCEPT ![Len(calls)].at = to]

\* Code outside, a factory, or an effect of a signal that was just set.
MayCall == calls # <<>> => Len(calls) < MaxCalls /\ Top.at \in {"building", "membership set", "order set"}

MayBump == orderVersion + Len(calls) < MaxVersion

\* _mintWith of a key that is there, and the non-minting handle, observe and
\* resolve: what resolve awaits is this handle, whatever becomes of the key.
Found(key) ==
  /\ MayCall /\ key \in DOMAIN entries
  /\ returned' = returned \cup {<<key, entries[key], era[key]>>}
  /\ UNCHANGED <<order, entries, nodes, version, orderVersion, membership, orderSignal, calls, era>>

\* Otherwise the node is built off the lock: also materializeAll, set,
\* observeDependency.
Build(key) ==
  /\ MayCall /\ MayBump /\ key \notin DOMAIN entries /\ Len(nodes) < MaxNodes
  /\ nodes' = Append(nodes, key)
  /\ calls' = Append(calls, [op |-> "mint", key |-> key, node |-> Len(nodes'), at |-> "building", era |-> 0])
  /\ UNCHANGED <<order, entries, version, orderVersion, membership, orderSignal, returned, era>>

\* Mutant: the last writer wins.
LastWriter(frame) == [frame EXCEPT !.at = "bump membership"]

\* First writer wins: a node that comes late is nobody's.
Winner(frame) ==
  IF frame.key \in DOMAIN entries THEN [frame EXCEPT !.node = entries[frame.key], !.at = "return"]
  ELSE [frame EXCEPT !.at = "bump membership"]

Commit ==
  /\ At({"building"})
  /\ LET won == Winner(Top) IN
     /\ calls' = Append(Front(calls), [won EXCEPT !.era = era[won.key]])
     /\ order' = InsertKey(order, won.key)
     /\ entries' = [k \in DOMAIN entries \cup {won.key} |-> IF k = won.key THEN won.node ELSE entries[k]]
  /\ UNCHANGED <<nodes, version, orderVersion, membership, orderSignal, returned, era>>

RemoveEntry(key) ==
  /\ MayCall /\ MayBump /\ key \in DOMAIN entries
  /\ order' = RemoveKey(order, key) /\ entries' = Restrict(entries, DOMAIN entries \ {key})
  /\ era' = [era EXCEPT ![key] = @ + 1]
  /\ calls' = Append(calls, [op |-> "remove", key |-> key, node |-> 0, at |-> "bump membership", era |-> 0])
  /\ UNCHANGED <<nodes, version, orderVersion, membership, orderSignal, returned>>

\* A move that changes nothing bumps nothing.
ApplyMove(key, moved) ==
  /\ MayCall /\ MayBump /\ moved # order
  /\ order' = moved
  /\ calls' = Append(calls, [op |-> "move", key |-> key, node |-> 0, at |-> "bump order", era |-> 0])
  /\ UNCHANGED <<entries, nodes, version, orderVersion, membership, orderSignal, returned, era>>

Move(key) ==
  \/ \E index \in 1..Len(order) : ApplyMove(key, MoveTo(order, key, index))
  \/ \E anchor \in ToSet(order) : ApplyMove(key, MoveBefore(order, key, anchor)) \/ ApplyMove(key, MoveAfter(order, key, anchor))

\* The version is taken under the mutex and set off it: no callback can come
\* between the two.
BumpMembership ==
  /\ At({"bump membership"})
  /\ version' = version + 1 /\ membership' = version'
  /\ Goes("membership set")
  /\ UNCHANGED <<order, entries, nodes, orderVersion, orderSignal, returned, era>>

\* Mutant: the version was taken when the membership was bumped.
BumpOrderEarly ==
  /\ At({"membership set", "bump order"})
  /\ orderVersion' = orderVersion + 1 /\ orderSignal' = IF Top.at = "bump order" THEN orderVersion' ELSE version
  /\ Goes("order set")
  /\ UNCHANGED <<order, entries, nodes, version, membership, returned, era>>

BumpOrder ==
  /\ At({"membership set", "bump order"})
  /\ orderVersion' = orderVersion + 1 /\ orderSignal' = orderVersion'
  /\ Goes("order set")
  /\ UNCHANGED <<order, entries, nodes, version, membership, returned, era>>

Return ==
  /\ At({"order set", "return"})
  /\ calls' = Front(calls)
  /\ returned' = IF Top.op = "mint" THEN returned \cup {<<Top.key, Top.node, Top.era>>} ELSE returned
  /\ UNCHANGED <<order, entries, nodes, version, orderVersion, membership, orderSignal, era>>

Next ==
  \/ Commit \/ BumpMembership \/ BumpOrder \/ Return
  \/ \E k \in Keys : Found(k) \/ Build(k) \/ RemoveEntry(k) \/ Move(k)

Spec == Init /\ [][Next]_sharedVars

----------------------------------------------------------------------------
TypeOK ==
  /\ ToSet(order) = DOMAIN entries /\ Len(order) = Cardinality(DOMAIN entries)
  /\ \A k \in DOMAIN entries : nodes[entries[k]] = k
  /\ Len(calls) <= MaxCalls

(* A key keeps one handle: whoever raced for it, all were given the same one *)
(* until the key is removed, and it is the one the map has.                  *)
OneHandle ==
  \A h \in returned :
    /\ \A i \in returned : h[1] = i[1] /\ h[3] = i[3] => h[2] = i[2]
    /\ h[3] = era[h[1]] => h[1] \in DOMAIN entries /\ h[2] = entries[h[1]]

(* Between calls the signals show the last version: no set of a call that    *)
(* went around another one is left behind.                                   *)
SignalsCatchUp == calls = <<>> => membership = version /\ orderSignal = orderVersion

(* A signal never goes back, so that no reader takes a change for none.      *)
SignalAdvance == membership' >= membership /\ orderSignal' >= orderSignal

SignalsAdvance == [][SignalAdvance]_sharedVars
=============================================================================
