---------------------------- MODULE MCCrdtPlane ----------------------------
(***************************************************************************)
(* Model-checking instances of everything that replicas edit apart and     *)
(* merge, and of the trees and keys that edits have to leave alone: the    *)
(* CRDT plane, the sequence, text and lossless tree documents, the stable  *)
(* block keys and the semantic tree.  The system that runs is picked by    *)
(* `which`, the others stay at rest.                                       *)
(***************************************************************************)
EXTENDS CrdtPlane, TLC

CONSTANTS Parts, doc, f, g, v1, v2

VARIABLES
  which,
  replicas, entries, hlc, edits,
  texts, counters, cache, peers, typed,
  nodes, lamport, log, buffered,
  old, new,
  value, kids, folds, mark, needless, due

(* Peers are ordered and so are not interchangeable; values and the keys   *)
(* of the family are, and only the plane uses them.                        *)
Symmetry == Permutations({v1, v2}) \cup Permutations({f, g})

-----------------------------------------------------------------------------
(* The instances and their bounds. *)

Sequenced == INSTANCE SeqCrdt WITH
  Replicas <- {1, 2}, First <- 1, Ids <- {"x", "y"}, Values <- {"v"}, Walls <- {1, 2},
  MaxEdits <- 3

Text == INSTANCE TextCrdt WITH
  Replicas <- {1, 2}, First <- 1, Chars <- {"c"}, MaxLen <- 2, MaxEdits <- 3

Tree == INSTANCE LosslessTree WITH
  Replicas <- {1, 2}, First <- 1, Seed <- <<"a", "b">>, Inserted <- {<<>>, <<"c">>}, MaxOps <- 2

(* Anchored and plain blocks that share words, all of them or none.        *)
Block(anchor, words) == [anchor |-> anchor, words |-> words]
MCBlocks ==
  {Block("none", <<"x", "y">>), Block("none", <<"x", "z">>), Block("none", <<"w">>),
   Block("p", <<"x", "y", "w">>), Block("q", <<"x", "z">>)}

Chain == [n \in {"r", "a", "c"} |->
            CASE n = "r" -> <<"a">> [] n = "a" -> <<"c">> [] OTHER -> <<>>]

Kept == INSTANCE BlockTree WITH
  Blocks <- MCBlocks, MaxBlocks <- 3,
  Nodes <- {"r", "a", "c"}, Built <- Chain, Values <- {1, 2}, cache <- folds

-----------------------------------------------------------------------------
(* One system runs. *)

sequenceVars == <<replicas, entries, hlc, edits>>
textVars == <<texts, counters, cache, peers, typed>>
treeVars == <<nodes, lamport, log, buffered>>
stableVars == <<old, new>>
semVars == <<value, kids, folds, mark, needless, due>>

documentVars == <<sequenceVars, textVars, treeVars>>
keyVars == <<stableVars, semVars>>
systemVars == <<which, vars, documentVars, keyVars>>

SystemInit ==
  /\ which \in Parts
  /\ Init /\ Sequenced!Init /\ Text!Init /\ Tree!Init
  /\ Kept!StableInit /\ (which # "stable" => old = <<>>)
  /\ Kept!TreeInit /\ (which # "sem" => value = [n \in DOMAIN Chain |-> 1])

PlaneStep ==
  /\ which = "plane" /\ Next
  /\ UNCHANGED <<which, documentVars, keyVars>>

DocumentStep ==
  /\ \/ which = "sequence" /\ Sequenced!Next /\ UNCHANGED <<textVars, treeVars>>
     \/ which = "text" /\ Text!Next /\ UNCHANGED <<sequenceVars, treeVars>>
     \/ which = "tree" /\ Tree!Next /\ UNCHANGED <<sequenceVars, textVars>>
  /\ UNCHANGED <<which, vars, keyVars>>

KeyStep ==
  /\ \/ which = "stable" /\ Kept!StableNext /\ UNCHANGED semVars
     \/ which = "sem" /\ Kept!TreeNext /\ UNCHANGED stableVars
  /\ UNCHANGED <<which, vars, documentVars>>

SystemNext == PlaneStep \/ DocumentStep \/ KeyStep

SystemSpec == SystemInit /\ [][SystemNext]_systemVars

-----------------------------------------------------------------------------

(* What is typed at one place of a text comes most recent first, also at    *)
(* its start.                                                               *)
SiblingsMostRecentFirst == Text!SiblingsMostRecentFirst

(* No edit is lost on the way: a text delta brings what the whole state     *)
(* would, a tree operation waits only for what is missing, and a replica's  *)
(* own next write beats all it has seen.                                    *)
NothingIsLost ==
  /\ Text!DeltaIsEnough
  /\ Tree!NothingWaitsForever
  /\ Sequenced!ClockCoversDocument

(* Identity and derived values survive edits around them: blocks told apart *)
(* stay apart and are taken for nobody else's, and a memoised answer of the *)
(* semantic tree is the fold of the tree as it is, run only with a cause.   *)
TreesKeep ==
  /\ Kept!TypeOK /\ Kept!KeysStayApart /\ Kept!InheritsFromKin
  /\ Kept!AnswersAreFolds /\ Kept!OnlyTheChainRuns
=============================================================================
