--------------------------- MODULE ReactiveGraph ---------------------------
(***************************************************************************)
(* The Cell kernel: createContext()'s sources, computeds and effects.      *)
(* Everything is synchronous, and everything re-enters: a read refreshes   *)
(* what is below it, a refresh runs a body that reads, an effect's body    *)
(* writes while effects are being flushed, and an error unwinds all of it. *)
(* The call stack is therefore part of the state, one frame per activation *)
(* of refreshSlot, effectShouldRun, a body or flushEffects, and a step is  *)
(* one move of the frame on top.  Between calls the stack is empty.        *)
(*                                                                         *)
(* Bodies are parameters: what a body does next depends only on what it    *)
(* has read so far, so its dependencies may change from run to run.        *)
(* The order in which the effects one write reaches are queued is left     *)
(* open.  Not here: ids recycled as another kind, cleanup callbacks, custom *)
(* guards, calls a body makes other than get and set, teardown scopes.     *)
(***************************************************************************)
EXTENDS Integers, Sequences, FiniteSets, SequencesExt

CONSTANTS
  Sources, Slots, Effects,
  Values,
  Body(_, _),     \* what a body does next, given what it has read
  MaxReads,       \* bound: reads and writes of one body
  MaxDisposals    \* bound: nodes disposed

ASSUME BoundsAssumption ==
  /\ MaxReads \in Nat /\ MaxDisposals \in Nat
  /\ Values \subseteq Nat

(* An id is of one kind. *)
ASSUME KindsAssumption ==
  /\ Sources \cap Slots = {} /\ (Sources \cup Slots) \cap Effects = {}
  /\ IsFiniteSet(Slots) /\ IsFiniteSet(Effects)

(* Whatever a body has read, it goes on or ends: it reads a source or a    *)
(* slot, writes a value to a source, returns a value or throws.            *)
ASSUME BodiesAssumption ==
  \A c \in Slots \cup Effects : \A k \in 0 .. MaxReads : \A seen \in [1 .. k -> Values] :
    LET i == Body(c, seen) IN
    \/ i.do = "read" /\ i.node \in Sources \cup Slots /\ k < MaxReads
    \/ i.do = "set" /\ i.node \in Sources /\ i.value \in Values /\ k < MaxReads
    \/ i.do = "return" /\ i.value \in Values
    \/ i.do = "throw"

VARIABLES
  source,     \* source -> its value
  live,       \* the ids that name a node
  graph,      \* slots, edges, the effect queue
  batching,   \* batchDepth > 0
  batched,    \* batchedCells
  stack,      \* the activations of the running call, innermost last
  error,      \* how the last call ended
  observed,   \* effect -> what its last completed run read
  troubled,   \* some call has thrown, or a node that is read was disposed
  disposals

vars == <<source, live, graph, batching, batched, stack, error, observed,
          troubled, disposals>>

Nodes   == Sources \cup Slots \cup Effects
Readers == Slots \cup Effects
NoValue == -1

(* What a body may do next. *)
Reads(m)     == [do |-> "read", node |-> m]
Writes(s, v) == [do |-> "set", node |-> s, value |-> v]
Returns(v)   == [do |-> "return", value |-> v]
Throws       == [do |-> "throw"]

Init ==
  /\ source \in [Sources -> Values]
  /\ live = Sources \cup Slots
  /\ graph = [slot |-> [n \in Slots |-> [value |-> NoValue, has |-> FALSE,
                          dirty |-> FALSE, force |-> FALSE, busy |-> FALSE]],
              deps |-> [c \in Readers |-> <<>>],
              dependents |-> [m \in Sources \cup Slots |-> {}],
              pending |-> <<>>,
              forceRun |-> {}]
  /\ batching = FALSE /\ batched = {}
  /\ stack = <<>>
  /\ error = "none"
  /\ observed = [e \in Effects |-> <<>>]
  /\ troubled = FALSE
  /\ disposals = 0

Idle == stack = <<>>
Top == Last(stack)
Flushing == \E i \in DOMAIN stack : stack[i].op = "flush"
FlushFrame == [op |-> "flush"]
BodyFrame(c) == [op |-> "body", node |-> c, seen |-> <<>>]
ScanFrame(op, c, forced) ==
  [op |-> op, node |-> c, i |-> 1, changed |-> forced]

-----------------------------------------------------------------------------
(* markFrontier: everything below the roots goes dirty; the walk stops at a *)
(* slot that was dirty already, unless it is a root not forced before.     *)
Below(g, roots, R) ==
  roots \cup UNION {g.dependents[n] : n \in
                      {m \in R : ~g.slot[m].dirty \/ (m \in roots /\ ~g.slot[m].force)}}

(* The least set of slots that the walk does not leave. *)
Reached(g, roots) ==
  LET closed == {R \in SUBSET Slots : Below(g, roots, R) \cap Slots \subseteq R}
  IN Below(g, roots, {n \in Slots : \A R \in closed : n \in R})

Dirtied(s, forced) == [s EXCEPT !.dirty = TRUE, !.force = @ \/ forced]

Marked(g, roots) ==
  LET reached == Reached(g, roots) IN
  [g EXCEPT !.slot = [n \in Slots |->
     IF n \in reached THEN Dirtied(@[n], n \in roots) ELSE @[n]]]

(* Mutant: an effect on the source itself is queued like one further down. *)
ScheduledUnforced(g, es, forced) ==
  {[g EXCEPT !.pending = @ \o order] : order \in SetToSeqs(es \ ToSet(g.pending))}

(* scheduleEffect, for effects in any order. *)
Scheduled(g, es, forced) ==
  {[g EXCEPT !.pending = @ \o order, !.forceRun = @ \cup forced] :
     order \in SetToSeqs(es \ ToSet(g.pending))}

(* Mutant: every reader is queued, not only the effects. *)
InvalidatedAll(g, roots) == Scheduled(Marked(g, roots), Reached(g, roots), roots)

(* invalidateDependentsNow. *)
Invalidated(g, roots) ==
  Scheduled(Marked(g, roots), Reached(g, roots) \cap Effects, roots \cap Effects)

(* registerDependency and the edges a rerun drops. *)
WithEdge(g, c, m) ==
  [g EXCEPT !.dependents[m] = @ \cup {c},
            !.deps[c] = IF m \in ToSet(@) THEN @ ELSE Append(@, m)]

(* Mutant: the reader forgets its edges, the nodes it read do not. *)
WithoutOwnEdges(g, c) == [g EXCEPT !.deps[c] = <<>>]

WithoutEdges(g, c) ==
  [g EXCEPT !.deps[c] = <<>>,
            !.dependents = [m \in DOMAIN @ |-> @[m] \ {c}]]

-----------------------------------------------------------------------------
(* A refresh of n has returned to the frame that asked for it. *)
Absorb(g, frame, n, changed) ==
  IF frame.op = "body" THEN [frame EXCEPT !.seen = Append(@, g.slot[n].value)]
  ELSE [frame EXCEPT !.i = @ + 1, !.changed = @ \/ changed]

Replace(frame) == Append(Front(stack), frame)

Return(g, n, changed) ==
  LET below == Front(stack) IN
  IF below = <<>> THEN <<>>
  ELSE Append(Front(below), Absorb(g, Last(below), n, changed))

Kept == UNCHANGED <<source, live, batching, batched, observed, disposals>>

(* An error: every activation unwinds, through its finally. *)
Fail(g, kind) ==
  /\ stack' = <<>>
  /\ graph' = [g EXCEPT !.slot =
                 [n \in Slots |-> [@[n] EXCEPT !.busy = FALSE]]]
  /\ error' = kind
  /\ troubled' = TRUE
  /\ Kept

Quietly == UNCHANGED <<error, troubled>>

Cached(g, n) == g.slot[n].has /\ ~g.slot[n].dirty /\ ~g.slot[n].force

(* refreshSlot(n) is called by the frame on top: a cached value is         *)
(* returned at once, a slot in progress is a cycle, otherwise it starts.   *)
CallRefresh(g, n) ==
  \/ /\ Cached(g, n)
     /\ graph' = g
     /\ stack' = Replace(Absorb(g, Top, n, FALSE))
     /\ Quietly /\ Kept
  \/ /\ ~Cached(g, n) /\ g.slot[n].busy
     /\ Fail(g, "cycle")
  \/ /\ ~Cached(g, n) /\ ~g.slot[n].busy
     /\ graph' = [g EXCEPT !.slot[n].busy = TRUE]
     /\ stack' = Append(stack, ScanFrame("refresh", n,
                          ~g.slot[n].has \/ g.slot[n].force))
     /\ Quietly /\ Kept

(* The dependencies are refreshed in order: all of them for a slot, for an *)
(* effect up to the first that changed.                                    *)
Scanning ==
  /\ ~Idle
  /\ Top.op \in {"refresh", "should"}
  /\ Top.i <= Len(graph.deps[Top.node])
  /\ Top.op = "should" => ~Top.changed

ScanDependency ==
  /\ Scanning
  /\ LET m == graph.deps[Top.node][Top.i] IN
     \/ /\ m \in Slots \cap live
        /\ CallRefresh(graph, m)
     \/ /\ m \notin Slots \cap live
        /\ stack' = Replace([Top EXCEPT !.i = @ + 1])
        /\ UNCHANGED graph /\ Quietly /\ Kept

(* The end of the scan: the body runs if the slot was forced, has no value *)
(* or a dependency changed; otherwise what it holds is still right.        *)
ScanDone ==
  /\ ~Idle
  /\ Top.op \in {"refresh", "should"}
  /\ ~Scanning
  /\ \/ /\ Top.changed
        /\ graph' = [WithoutEdges(graph, Top.node) EXCEPT
                       !.forceRun = @ \ {Top.node}]
        /\ stack' = Replace(BodyFrame(Top.node))
     \/ /\ ~Top.changed /\ Top.op = "refresh"
        /\ LET g == [graph EXCEPT !.slot[Top.node] =
                       [@ EXCEPT !.dirty = FALSE, !.force = FALSE, !.busy = FALSE]]
           IN graph' = g /\ stack' = Return(g, Top.node, FALSE)
     \/ /\ ~Top.changed /\ Top.op = "should"
        /\ stack' = Front(stack)
        /\ UNCHANGED graph
  /\ Quietly /\ Kept

-----------------------------------------------------------------------------
InBody == ~Idle /\ Top.op = "body"
Instruction == Body(Top.node, Top.seen)

(* view.get(m): the edge first, then the value. *)
BodyReads ==
  /\ InBody
  /\ Instruction.do = "read"
  /\ LET m == Instruction.node
         g == WithEdge(graph, Top.node, m)
     IN
     \/ m \notin live /\ Fail(graph, "disposed")
     \/ /\ m \in live \cap Sources
        /\ graph' = g
        /\ stack' = Replace([Top EXCEPT !.seen = Append(@, source[m])])
        /\ Quietly /\ Kept
     \/ m \in live \cap Slots /\ CallRefresh(g, m)

BodyThrows == InBody /\ Instruction.do = "throw" /\ Fail(graph, "thrown")

(* Mutant: a changed value is not announced to the dependents. *)
StoreSilently(g, n, v) ==
  {[g EXCEPT !.slot[n] = [value |-> v, has |-> TRUE, dirty |-> FALSE,
                          force |-> FALSE, busy |-> FALSE]]}

(* recomputeSlotNow, after the compute: an equal value suppresses, a       *)
(* changed one invalidates the dependents.                                 *)
Store(g, n, v) ==
  LET s == [g.slot[n] EXCEPT !.dirty = FALSE, !.force = FALSE, !.busy = FALSE]
      h == [g EXCEPT !.slot[n] = [s EXCEPT !.value = v, !.has = TRUE]]
  IN IF s.has /\ s.value = v THEN {[g EXCEPT !.slot[n] = s]}
     ELSE IF s.has THEN Invalidated(h, h.dependents[n]) ELSE {h}

SlotReturns ==
  /\ InBody
  /\ Top.node \in Slots
  /\ Instruction.do = "return"
  /\ LET s == graph.slot[Top.node]
         v == Instruction.value
     IN \E g \in Store(graph, Top.node, v) :
          /\ graph' = g
          /\ stack' = Return(g, Top.node, s.has /\ s.value # v)
  /\ Quietly /\ Kept

EffectReturns ==
  /\ InBody
  /\ Top.node \in Effects
  /\ Instruction.do = "return"
  /\ observed' = [observed EXCEPT ![Top.node] = Top.seen]
  /\ stack' = Front(stack)
  /\ UNCHANGED <<source, live, graph, batching, batched, disposals>> /\ Quietly

(* setCellAny: an equal value is no write; in a batch the cascade waits; a *)
(* cascade that reaches an effect is flushed, unless a flush is running.   *)
Write(s, v, above) ==
  /\ source' = [source EXCEPT ![s] = v]
  /\ \/ /\ source[s] = v
        /\ stack' = above
        /\ UNCHANGED <<graph, batched>>
     \/ /\ source[s] # v /\ batching
        /\ batched' = batched \cup {s}
        /\ stack' = above
        /\ UNCHANGED graph
     \/ /\ source[s] # v /\ ~batching
        /\ graph' \in Invalidated(graph, graph.dependents[s])
        /\ stack' = IF Flushing \/ Reached(graph, graph.dependents[s]) \cap Effects = {}
                    THEN above ELSE Append(above, FlushFrame)
        /\ UNCHANGED batched
  /\ UNCHANGED <<live, batching, observed, disposals>>

BodyWrites ==
  /\ InBody
  /\ Instruction.do = "set"
  /\ LET s == Instruction.node
         frame == [Top EXCEPT !.seen = Append(@, Instruction.value)]
     IN \/ s \in live /\ Write(s, Instruction.value, Replace(frame)) /\ Quietly
        \/ s \notin live /\ Fail(graph, "disposed")

(* flushEffects: the next queued effect, if it is still there and has to   *)
(* run.                                                                    *)
FlushNext ==
  /\ ~Idle
  /\ Top.op = "flush"
  /\ \/ /\ graph.pending = <<>>
        /\ stack' = Front(stack)
        /\ UNCHANGED graph
     \/ /\ graph.pending # <<>>
        /\ LET e == Head(graph.pending) IN
           /\ graph' = [graph EXCEPT !.pending = Tail(@)]
           /\ stack' = IF e \notin live THEN stack
                       ELSE Append(stack, ScanFrame("should", e, e \in graph.forceRun))
  /\ Quietly /\ Kept

-----------------------------------------------------------------------------
(* set(), called by the host. *)
Set(s, v) ==
  /\ Idle
  /\ s \in live
  /\ source[s] # v
  /\ Write(s, v, <<>>)
  /\ error' = "none"
  /\ UNCHANGED troubled

(* get() of a slot, untracked. *)
Get(n) ==
  /\ Idle
  /\ n \in live
  /\ ~Cached(graph, n)
  /\ graph' = [graph EXCEPT !.slot[n].busy = TRUE]
  /\ stack' = <<ScanFrame("refresh", n, ~graph.slot[n].has \/ graph.slot[n].force)>>
  /\ error' = "none"
  /\ UNCHANGED troubled /\ Kept

BatchStart ==
  /\ Idle
  /\ ~batching
  /\ batching' = TRUE
  /\ error' = "none"
  /\ UNCHANGED <<source, live, graph, batched, stack, observed, troubled, disposals>>

(* Mutant: the end of a batch cascades from the last cell only. *)
BatchRootsOne ==
  UNION {graph.dependents[s] : s \in {CHOOSE c \in batched : TRUE} \cap live}

(* What the cells of a batch invalidate. *)
BatchRoots == UNION {graph.dependents[s] : s \in batched \cap live}

BatchEnd ==
  /\ Idle
  /\ batching
  /\ batching' = FALSE
  /\ batched' = {}
  /\ graph' \in IF batched = {} THEN {graph} ELSE Invalidated(graph, BatchRoots)
  /\ stack' = <<FlushFrame>>
  /\ error' = "none"
  /\ UNCHANGED <<source, live, observed, troubled, disposals>>

(* effect(run); eager() makes one whose body reads the slot. *)
CreateEffect(e) ==
  /\ Idle
  /\ e \notin live
  /\ live' = live \cup {e}
  /\ graph' = [graph EXCEPT !.pending = Append(@, e), !.forceRun = @ \cup {e}]
  /\ stack' = <<FlushFrame>>
  /\ error' = "none"
  /\ UNCHANGED <<source, batching, batched, observed, troubled, disposals>>

(* Mutant: disposal detaches the edges and leaves the readers their caches. *)
MarkedNothing(g, n) == g

(* Disposal marks what read the node, and schedules no effect. *)
MarkedReaders(g, n) ==
  IF n \in Effects THEN g ELSE Marked(g, g.dependents[n])

(* edgeRemoveIndexed: the last edge takes the place of the one removed. *)
SwapRemoved(edges, m) ==
  IF m \notin ToSet(edges) THEN edges
  ELSE Front([edges EXCEPT ![CHOOSE i \in DOMAIN edges : edges[i] = m] = Last(edges)])

(* Both directions are detached. *)
Detached(g, n) ==
  [g EXCEPT !.dependents = [m \in DOMAIN @ |-> IF m = n THEN {} ELSE @[m] \ {n}],
            !.deps = [c \in Readers |-> IF c = n THEN <<>>
                                        ELSE SwapRemoved(@[c], n)],
            !.forceRun = @ \ {n}]

(* disposeCell, disposeSlot, disposeEffect. *)
Dispose(n) ==
  /\ Idle
  /\ n \in live
  /\ disposals < MaxDisposals
  /\ disposals' = disposals + 1
  /\ live' = live \ {n}
  /\ graph' = Detached(MarkedReaders(graph, n), n)
  /\ observed' = [e \in Effects |-> IF e = n THEN <<>> ELSE observed[e]]
  /\ error' = "none"
  /\ troubled' = (troubled \/ n \notin Effects)
  /\ UNCHANGED <<source, batching, batched, stack>>

Next ==
  \/ ScanDependency \/ ScanDone
  \/ BodyReads \/ BodyThrows \/ SlotReturns \/ EffectReturns \/ BodyWrites
  \/ FlushNext
  \/ \E s \in Sources, v \in Values : Set(s, v)
  \/ \E n \in Slots : Get(n)
  \/ BatchStart \/ BatchEnd
  \/ \E e \in Effects : CreateEffect(e)
  \/ \E n \in Nodes : Dispose(n)

Spec == Init /\ [][Next]_vars

-----------------------------------------------------------------------------
(* What bodies read and return when every slot is computed afresh from the *)
(* sources: a slot is Unknown while it waits for itself, and Broken when   *)
(* it or what it reads throws or is gone.                                  *)
Unknown == -2
Broken == -3

Replay(c, env) ==
  LET value(m) == IF m \notin live THEN Broken
                  ELSE IF m \in Sources THEN source[m] ELSE env[m]
      step(seen) ==
        LET i == Body(c, seen) IN
        IF Broken \in ToSet(seen) \/ Unknown \in ToSet(seen) THEN seen
        ELSE IF i.do = "read" THEN Append(seen, value(i.node))
        ELSE IF i.do = "set" THEN Append(seen, i.value)
        ELSE IF i.do = "throw" THEN Append(seen, Broken)
        ELSE seen
      run[k \in 0 .. MaxReads] == IF k = 0 THEN <<>> ELSE step(run[k - 1])
  IN run[MaxReads]

Outcome(n, env) ==
  LET seen == Replay(n, env) IN
  IF n \notin live \/ Broken \in ToSet(seen) THEN Broken
  ELSE IF Unknown \in ToSet(seen) THEN Unknown
  ELSE Body(n, seen).value

Fresh ==
  LET env[k \in 0 .. Cardinality(Slots)] ==
        [n \in Slots |-> IF k = 0 THEN Unknown ELSE Outcome(n, env[k - 1])]
  IN env[Cardinality(Slots)]

(* Every variable has its type. *)
TypeOK ==
  /\ source \in [Sources -> Values]
  /\ live \subseteq Nodes
  /\ \A n \in Slots : graph.slot[n].value \in Values \cup {NoValue}
  /\ \A c \in Readers : ToSet(graph.deps[c]) \subseteq Sources \cup Slots
  /\ ToSet(graph.pending) \cup graph.forceRun \subseteq Effects
  /\ batched \subseteq Sources

(* No glitch: outside a batch a computed that answers from its cache       *)
(* answers what a computation from scratch would, between calls and at     *)
(* every step of one, whatever was batched, disposed or thrown before.     *)
(* That is so when bodies read upwards: whoever reads n and what n is made *)
(* of reads the latter first.                                              *)
CacheIsFresh ==
  ~batching => \A n \in Slots \cap live :
    Cached(graph, n) => graph.slot[n].value = Fresh[n]

(* Between calls, outside a batch, every effect has seen the current       *)
(* state, until some call has thrown or a node was disposed.               *)
EffectsAreCurrent ==
  Idle /\ ~batching /\ ~troubled =>
    \A e \in Effects \cap live : observed[e] = Replay(e, Fresh)

(* Both ends of an edge know it, and no edge ends at a node that is gone,  *)
(* also while bodies run and after errors unwound them.                    *)
EdgesMirror ==
  \A c \in Readers, m \in Sources \cup Slots :
    /\ m \in ToSet(graph.deps[c]) <=> c \in graph.dependents[m]
    /\ c \in graph.dependents[m] => c \in live /\ m \in live

(* A call never gets stuck half way, whatever its bodies read and throw:    *)
(* some step of the frame on top is always possible.                       *)
CallsGetOn == TypeOK /\ (stack # <<>> => ENABLED Next)
=============================================================================
