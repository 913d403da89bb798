------------------------------ MODULE BlockTree ------------------------------
(***************************************************************************)
(* What stays of a block structure when it is edited.                      *)
(*                                                                         *)
(* Manufactured identity for the blocks of a text, src/src/stable-id.js:   *)
(* align pairs the blocks of a new version with those of the old one, by   *)
(* key and then by similarity, and assignStableKeys gives each new block   *)
(* the key of its pair or its own.  A text is its words, so whitespace is  *)
(* already normalised; a content hash is taken to tell any two texts apart.*)
(*                                                                         *)
(* The memoised semantic tree of src/src/sem-tree.js: each node has a      *)
(* value cell, a cell with the list of its children, and a guarded         *)
(* computed that folds its value with the derived values of the children   *)
(* listed.  The kernel under it is the one of ReactiveGraph, here by what  *)
(* it promises: a write that changes a cell marks the computeds above it,  *)
(* and a pull runs a marked one only if something it read has changed.     *)
(* The fold is the free one: a node's value and its children's results.    *)
(***************************************************************************)
EXTENDS Integers, Sequences, FiniteSets, SequencesExt

CONSTANTS Blocks,     \* records [anchor, words], the anchor NoAnchor for none
          MaxBlocks,  \* of a version
          Nodes,
          Built,      \* [Nodes -> sequence of children]: the tree of build
          Values

VARIABLES old, new    \* two versions of the text

stableVars == <<old, new>>

VARIABLES value,    \* [Nodes -> its value cell]
          kids,     \* [Nodes -> its child list]
          cache,    \* [Nodes -> the derived value it memoises, None before]
          mark,     \* [Nodes -> "clean", "check" a child's, or "dirty"]
          needless, \* ghost: whether a fold ever ran without a cause
          due       \* ghost: the nodes of which a cell was written, or a
                    \* child seen to change, since they last ran

treeVars == <<value, kids, cache, mark, needless, due>>

------------------------------------------------------------------------------
\* Identities of blocks.

NoAnchor == "none"

Versions == UNION {[1..n -> Blocks] : n \in 0..MaxBlocks}

\* An anchor wins over the content.
BlockKey(b) == IF b.anchor # NoAnchor THEN <<b.anchor>> ELSE <<"content", b.words>>

(* The length of the longest common subsequence of two word sequences.     *)
Common(a, b) ==
    LET L[i \in 0..Len(a), j \in 0..Len(b)] ==
          IF i = 0 \/ j = 0 THEN 0
          ELSE IF a[i] = b[j] THEN L[i - 1, j - 1] + 1
          ELSE IF L[i - 1, j] > L[i, j - 1] THEN L[i - 1, j] ELSE L[i, j - 1]
    IN  L[Len(a), Len(b)]

\* Similarities are fractions <<numerator, denominator>>; two empty texts are equal.
Similarity(a, b) ==
    IF a.words = <<>> /\ b.words = <<>> THEN <<1, 1>>
    ELSE <<2 * Common(a.words, b.words), Len(a.words) + Len(b.words)>>
Above(s, t)   == s[1] * t[2] > t[1] * s[2]
Edits(s)      == 2 * s[1] >= s[2]
Apart(i, j)   == IF i > j THEN i - j ELSE j - i

\* Old blocks are taken in turn: matched is a function on the new blocks done.
Used(matched) == {matched[i] : i \in DOMAIN matched} \ {0}

\* Mutant: an old block may be paired twice.
FreeReused(matched) == 1..Len(old)

Free(matched) == 1..Len(old) \ Used(matched)

Least(S) == CHOOSE x \in S : \A y \in S : x <= y

\* Pass 1: the lowest unused old block of the same key.
Exact(matched, i) ==
    LET found == {o \in Free(matched) : BlockKey(old[o]) = BlockKey(new[i])}
    IN  IF found = {} THEN 0 ELSE Least(found)

ExactPass ==
    LET M[i \in 0..Len(new)] ==
          IF i = 0 THEN <<>>
          ELSE LET matched == M[i - 1] IN Append(matched, Exact(matched, i))
    IN  M[Len(new)]

\* Of two equally similar blocks the nearer wins, and then the earlier.
Better(i, o, p) ==
    LET s == Similarity(new[i], old[o]) t == Similarity(new[i], old[p])
    IN  \/ Above(s, t)
        \/ ~Above(t, s) /\ (Apart(o, i) < Apart(p, i) \/ (Apart(o, i) = Apart(p, i) /\ o < p))

\* Mutant: no threshold, the best of whatever is left is taken as an edit.
NearestAny(matched, i) ==
    LET free == Free(matched)
    IN  IF free = {} THEN 0 ELSE CHOOSE o \in free : \A p \in free \ {o} : Better(i, o, p)

\* Pass 2: the most similar unused old block, if it is similar enough.
Nearest(matched, i) ==
    LET best == {o \in Free(matched) : /\ \A p \in Free(matched) \ {o} : Better(i, o, p)
                                       /\ Edits(Similarity(new[i], old[o]))}
    IN  IF best = {} THEN 0 ELSE Least(best)

Align ==
    LET M[i \in 0..Len(new)] ==
          IF i = 0 THEN ExactPass
          ELSE LET matched == M[i - 1] IN
               IF matched[i] # 0 THEN matched
               ELSE [matched EXCEPT ![i] = Nearest(matched, i)]
    IN  M[Len(new)]

Removed == Free(Align)

AssignStableKeys ==
    LET matched == Align IN
    [i \in 1..Len(new) |-> IF matched[i] # 0 THEN BlockKey(old[matched[i]])
                           ELSE BlockKey(new[i])]
------------------------------------------------------------------------------
StableInit == old \in Versions /\ new = <<>>

\* The next version of the text is written, to be keyed against the old one.
WriteVersion(v) == /\ new = <<>> /\ new' = v /\ v # <<>>
                   /\ UNCHANGED old

StableNext == \E v \in Versions : WriteVersion(v)

------------------------------------------------------------------------------
Distinct(s) == \A i, j \in DOMAIN s : s[i] = s[j] => i = j
KeysOf(blocks) == [i \in DOMAIN blocks |-> BlockKey(blocks[i])]
------------------------------------------------------------------------------
\* The semantic tree.

None == <<>>
IsIn(x, s) == \E i \in DOMAIN s : s[i] = x

TreeInit ==
    /\ value \in [Nodes -> Values]
    /\ kids = Built
    /\ cache = [n \in Nodes |-> None] /\ mark = [n \in Nodes |-> "dirty"]
    /\ needless = FALSE /\ due = Nodes

\* The computeds that read n, directly or through others: the chain above it
\* as far as each link is in the list of its parent.
Readers(n) ==
    LET R[d \in 0..Cardinality(Nodes)] ==
          IF d = 0 THEN {p \in Nodes : IsIn(n, kids[p])}
          ELSE LET near == R[d - 1]
               IN  near \cup {p \in Nodes : \E m \in near : IsIn(m, kids[p])}
    IN  R[Cardinality(Nodes)]

\* Mutant: only the node's own computed is marked.
MarkedAlone(n) == [mark EXCEPT ![n] = "dirty"]

\* A write to a cell of n: its own computed is dirty, the chain above may be.
Marked(n) ==
    [m \in Nodes |-> IF m = n THEN "dirty"
                     ELSE IF m \in Readers(n) /\ mark[m] = "clean" THEN "check" ELSE mark[m]]

Write(n) == mark' = Marked(n) /\ due' = due \cup {n}

\* ctx.set on a value cell keeps its guard: the same value writes nothing.
SetValue(n, v) ==
    /\ v # value[n]
    /\ value' = [value EXCEPT ![n] = v]
    /\ Write(n)
    /\ UNCHANGED <<kids, cache, needless>>

\* The filtered list is a new array: the guard never stops it.
RemoveChild(p, c) ==
    /\ IsIn(c, Built[p])
    /\ kids' = [kids EXCEPT ![p] = SelectSeq(@, LAMBDA k : k # c)]
    /\ Write(p)
    /\ UNCHANGED <<value, cache, needless>>
------------------------------------------------------------------------------
Fold(n, derived) == <<value[n], [i \in DOMAIN kids[n] |-> derived[kids[n][i]]]>>

\* Mutant: the memo has no guard: every run is news to the node above.
NewsAlways(n, derived) == mark[n] # "clean"

\* A child's pull is news to the node above if the derived value changed.
News(n, derived) == derived # cache[n]

\* A node runs when a cell of its own was written or a child has news for it.
Runs(n, derived) ==
    \/ mark[n] = "dirty"
    \/ mark[n] = "check" /\ \E i \in DOMAIN kids[n] : News(kids[n][i], derived[kids[n][i]])

\* The derived values once a pull has come by, children before their parents.
Derived ==
    LET D[n \in Nodes] == IF Runs(n, D) THEN Fold(n, D) ELSE cache[n]
    IN  [n \in Nodes |-> D[n]]

Below(n) == {m \in Nodes : m = n \/ n \in Readers(m)}

\* value() at the root, nodeValue at any node: a pull leaves everything below
\* clean, and dirties a node above that was checking for what changed.
NodeValue(n) ==
    LET derived == Derived
        ran     == {m \in Below(n) : Runs(m, derived)}
        moved   == IF derived[n] = cache[n] THEN {} ELSE {m \in Nodes : IsIn(n, kids[m])}
        told    == {m \in Nodes \ Below(n) : /\ mark[m] = "check" /\ IsIn(n, kids[m])
                                            /\ News(n, derived[n])}
    IN  /\ mark[n] # "clean"
        /\ cache' = [m \in Nodes |-> IF m \in ran THEN derived[m] ELSE cache[m]]
        /\ mark' = [m \in Nodes |-> IF m \in Below(n) THEN "clean"
                                    ELSE IF m \in told THEN "dirty" ELSE mark[m]]
        /\ needless' = (needless \/ \E m \in ran : m \notin due /\ derived[m] = cache[m])
        /\ due' = (due \cup moved) \ ran
        /\ UNCHANGED <<value, kids>>

TreeNext ==
    \/ \E n \in Nodes : NodeValue(n) \/ \E v \in Values : SetValue(n, v)
    \/ \E p, c \in Nodes : RemoveChild(p, c)

------------------------------------------------------------------------------
Whole == LET W[n \in Nodes] == Fold(n, W) IN W

TypeOK ==
    /\ old \in Versions /\ new \in Versions
    /\ value \in [Nodes -> Values] /\ DOMAIN kids = Nodes
    /\ mark \in [Nodes -> {"clean", "check", "dirty"}]
    /\ needless \in BOOLEAN /\ due \subseteq Nodes

\* Keyed reconciliation needs one block per key: versions that tell their own
\* blocks apart are given keys that do, whichever blocks inherit, and none of
\* them is the key of a block that was removed.
KeysStayApart ==
    Distinct(KeysOf(old)) /\ Distinct(KeysOf(new)) =>
      /\ Distinct(AssignStableKeys)
      /\ \A r \in Removed : BlockKey(old[r]) \notin Range(AssignStableKeys)

\* A block that was there is never taken for another: it keeps its own key, and
\* one that inherits another's key has at least half of that one's words.
InheritsFromKin ==
    LET keys == AssignStableKeys IN
    \A i \in DOMAIN new :
      /\ (\E o \in DOMAIN old : BlockKey(old[o]) = BlockKey(new[i])) /\ Distinct(KeysOf(new))
           => keys[i] = BlockKey(new[i])
      /\ keys[i] # BlockKey(new[i]) =>
           \E o \in DOMAIN old : keys[i] = BlockKey(old[o]) /\ Edits(Similarity(new[i], old[o]))

\* "the highest-certainty identity and is never overridden by text"
\* (src/src/stable-id.js:79): an anchored block is keyed by its anchor.
AnchorIsKept ==
    LET keys == AssignStableKeys IN
    \A i \in DOMAIN new : new[i].anchor # NoAnchor => keys[i] = BlockKey(new[i])

\* What a node answers without running is the fold of the whole tree under it
\* as it is now, whatever was edited or taken out below.
AnswersAreFolds == \A n \in Nodes : mark[n] = "clean" => cache[n] = Whole[n]

\* "Editing one node recomputes only its ANCESTOR CHAIN": a pull runs a node
\* only if, since it last ran, a cell of its own was written or a pull saw a
\* child's derived value change: no node above an edit that ended where it began.
OnlyTheChainRuns == ~needless
==============================================================================
