----------------------------- MODULE StateChart -----------------------------
(* The state charts of src/src/statechart.js: compound and parallel states,  *)
(* shallow and deep history, internal and external transitions, guards.      *)
(* The tree of states is a constant; the transitions of the chart are chosen *)
(* at the start, so that one run covers every chart over the tree.  A guard  *)
(* passes or not at each send.                                               *)
(*                                                                           *)
(* The active configuration is a JavaScript Set, which lists its members in  *)
(* the order in which they were added: it is a sequence here, because the    *)
(* order of the active leaves reaches the choice between transitions.        *)
EXTENDS Integers, Sequences, FiniteSets, SequencesExt, Folds

CONSTANTS Doc,       \* the states in document order
          Root,
          Parent,    \* state -> its parent (the root's is itself)
          Kind,      \* state -> "atomic", "compound", "parallel", "shallow" or "deep"
          Initial,   \* compound state, or history state with a default -> descendant
          Options    \* <<state, event>> -> the transitions that may be its, [target, internal]

VARIABLES chart,     \* slot -> [target, internal]
          config,    \* the active states
          history    \* history state -> what it recorded

chartVars == <<chart, config, history>>

ChartStates == ToSet(Doc)
Events == {slot[2] : slot \in DOMAIN Options}
Order(s) == CHOOSE i \in DOMAIN Doc : Doc[i] = s
IsHistory(s) == Kind[s] \in {"shallow", "deep"}
IsLeaf(s) == Kind[s] = "atomic"
ChildrenOf(s) == SelectSeq(Doc, LAMBDA c : c # Root /\ Parent[c] = s)

AncestorsInclusive ==
  LET up[s \in ChartStates] == IF s = Root THEN <<s>> ELSE <<s>> \o up[Parent[s]] IN up
Ancestors(s) == ToSet(AncestorsInclusive[s])
DepthOf(s) == Len(AncestorsInclusive[s])
IsProperDescendant(d, a) == d # a /\ a \in Ancestors(d)
Lca(a, b) == SelectSeq(AncestorsInclusive[b], LAMBDA s : s \in Ancestors(a))[1]

----------------------------------------------------------------------------
(* What a transition leaves and enters. *)

\* The states entered with s, itself first: the initial one of a compound
\* state, every region of a parallel one.
EnterSubtree ==
  LET down[s \in ChartStates] ==
        <<s>> \o CASE Kind[s] = "compound" -> down[Initial[s]]
                   [] Kind[s] = "parallel" -> LET cs == ChildrenOf(s)
                                              IN FlattenSeq([i \in DOMAIN cs |-> down[cs[i]]])
                   [] OTHER -> <<>>
  IN down

\* From just below l down to t.
PathBelow(l, t) == Reverse(SelectSeq(AncestorsInclusive[t], LAMBDA s : s \notin Ancestors(l)))

\* A Set to which more members are added.
AddAll(set, more) == FoldLeft(LAMBDA acc, s : IF s \in ToSet(acc) THEN acc ELSE Append(acc, s), set, more)

RestoreViaHistory(h, region) ==
  IF h \notin DOMAIN history
  THEN LET start == IF h \in DOMAIN Initial THEN Initial[h] ELSE Initial[region]
       IN PathBelow(region, start) \o EnterSubtree[start]
  ELSE IF Kind[h] = "shallow" THEN EnterSubtree[history[h]] ELSE history[h]

ExitEnter(active, source, t, leaf) ==
  LET stays == t.internal /\ source \in Ancestors(t.target)
      lca == IF stays THEN source ELSE Lca(leaf, t.target)
      region == Parent[t.target]
  IN [exit |-> {s \in ToSet(active) : IsProperDescendant(s, lca)},
      enter |-> AddAll(<<>>, IF IsHistory(t.target)
                             THEN PathBelow(lca, region) \o RestoreViaHistory(t.target, region)
                             ELSE PathBelow(lca, t.target) \o EnterSubtree[t.target])]

----------------------------------------------------------------------------
(* Choosing the transitions for an event: the innermost one of each leaf     *)
(* whose guard passes, then from the deepest source up, those that leave no  *)
(* state another one left already.                                           *)

Candidates(active, event, passing) ==
  LET enabled(leaf) == SelectSeq(AncestorsInclusive[leaf], LAMBDA s : <<s, event>> \in DOMAIN chart \cap passing)
      leaves == SelectSeq(active, LAMBDA s : IsLeaf(s) /\ enabled(s) # <<>>)
  IN [i \in DOMAIN leaves |-> [source |-> enabled(leaves[i])[1], leaf |-> leaves[i], place |-> i]]

\* Mutant: transitions taken in the order of their leaves.
ByPlace(a, b) == a.place < b.place

Earlier(a, b) ==
  \/ DepthOf(a.source) > DepthOf(b.source)
  \/ /\ DepthOf(a.source) = DepthOf(b.source)
     /\ \/ Order(a.source) < Order(b.source)
        \/ a.source = b.source /\ a.place < b.place

\* Mutant: no check whether another transition left the same states.
NeverClashes(taken, step) == FALSE

Clashes(taken, step) == taken.exit \cap step.exit # {}

Take(active, event, taken, cand) ==
  LET step == ExitEnter(active, cand.source, chart[<<cand.source, event>>], cand.leaf)
  IN IF Clashes(taken, step) THEN taken
     ELSE [exit |-> taken.exit \cup step.exit, enter |-> AddAll(taken.enter, step.enter)]

Taken(active, event, passing) ==
  FoldLeft(LAMBDA taken, cand : Take(active, event, taken, cand), [exit |-> {}, enter |-> <<>>],
           SortSeq(Candidates(active, event, passing), Earlier))

After(active, taken) == AddAll(SelectSeq(active, LAMBDA s : s \notin taken.exit), taken.enter)

\* Mutant: a deep history that records the leaves only.
RecordsLeaves(active, exit) ==
  LET h(s) == SelectSeq(ChildrenOf(s), IsHistory)
      shallow(s) == SelectSeq(ChildrenOf(s), LAMBDA c : c \in ToSet(active) /\ ~IsHistory(c))
      recording == {h(s)[1] : s \in {x \in exit : h(x) # <<>>}}
  IN [g \in DOMAIN history \cup recording |->
        IF g \notin recording THEN history[g]
        ELSE IF Kind[g] = "shallow" THEN shallow(Parent[g])[1]
        ELSE SelectSeq(active, LAMBDA s : IsLeaf(s) /\ IsProperDescendant(s, Parent[g]))]

\* The first history child of each state left records what was active.
Recorded(active, exit) ==
  LET h(s) == SelectSeq(ChildrenOf(s), IsHistory)
      shallow(s) == SelectSeq(ChildrenOf(s), LAMBDA c : c \in ToSet(active) /\ ~IsHistory(c))
      recording == {h(s)[1] : s \in {x \in exit : h(x) # <<>>}}
  IN [g \in DOMAIN history \cup recording |->
        IF g \notin recording THEN history[g]
        ELSE IF Kind[g] = "shallow" THEN shallow(Parent[g])[1]
        ELSE SelectSeq(active, LAMBDA s : IsProperDescendant(s, Parent[g]))]

----------------------------------------------------------------------------
Init ==
  /\ chart \in FoldSet(LAMBDA slot, charts : charts \cup {c @@ (slot :> t) : c \in charts, t \in Options[slot]},
                      {<<>>}, DOMAIN Options)
  /\ config = EnterSubtree[Root]
  /\ history = <<>>

SendEvent(event, passing) ==
  LET taken == Taken(config, event, passing)
  IN /\ config' = After(config, taken)
     /\ history' = Recorded(config, taken.exit)
     /\ UNCHANGED chart

\* The slots of an event whose guards may pass.
On(event) == {slot \in DOMAIN chart : slot[2] = event}

Next == \E event \in Events : \E passing \in SUBSET On(event) : SendEvent(event, passing)

Spec == Init /\ [][Next]_chartVars

----------------------------------------------------------------------------
TypeOK ==
  /\ ToSet(config) \subseteq ChartStates
  /\ DOMAIN history \subseteq {s \in ChartStates : IsHistory(s)}

(* The configuration is one of the tree: the root is active, with a compound *)
(* state exactly one of its children, with a parallel state all its regions, *)
(* with any state its parent, and no history state ever is.                  *)
Legal(active) ==
  /\ Root \in active
  /\ \A s \in active :
       /\ Parent[s] \in active /\ ~IsHistory(s)
       /\ LET below == {c \in ToSet(ChildrenOf(s)) : ~IsHistory(c)}
          IN /\ Kind[s] = "compound" => Cardinality(below \cap active) = 1
             /\ Kind[s] = "parallel" => below \subseteq active
ConfigurationLegal == Legal(ToSet(config))

(* "a given (chart, history, configuration, event, guards) yields a unique   *)
(* result": in whatever order the active states were added.                  *)
Confluent ==
  \A event \in Events : \A passing \in SUBSET On(event) :
    LET result(c) == ToSet(After(c, Taken(c, event, passing)))
    IN result(Reverse(config)) = result(config)

(* What a history state recorded is a part of some legal configuration: the  *)
(* states at and above its region together with the recorded ones are legal  *)
(* once the regions beside it are entered afresh.                            *)
Fresh(s) == UNION {ToSet(EnterSubtree[c]) : c \in UNION {ToSet(ChildrenOf(a)) : a \in
              {x \in Ancestors(s) : Kind[x] = "parallel"}} \ Ancestors(s)}
RecordingsLegal ==
  \A h \in DOMAIN history :
    LET region == Parent[h]
        below == IF Kind[h] = "shallow" THEN EnterSubtree[history[h]] ELSE history[h]
    IN Legal(Ancestors(region) \cup ToSet(below) \cup Fresh(region))
=============================================================================
