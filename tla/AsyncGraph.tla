---------------------------- MODULE AsyncGraph ----------------------------
(***************************************************************************)
(* AsyncContext: sources, async computed slots, effects and getAsync       *)
(* waiters.  A synchronous section between two awaits is one action, and   *)
(* the continuations of the running tasks interleave in every order: a     *)
(* compute may await anything between two reads, and aborting one does not *)
(* stop it, it only keeps it from publishing.                              *)
(*                                                                         *)
(* A source holds the number of writes it has seen.  A derived value is    *)
(* the set of versions of every source it was computed from, so a value is *)
(* right exactly when that is the current version of each source it        *)
(* depends on and nothing else.                                            *)
(***************************************************************************)
EXTENDS Integers, Sequences, FiniteSets

CONSTANTS
  Sources, Slots, Effects,
  Readers,      \* callers of getAsync outside the graph, each of one slot
  Settlers,     \* callers of settle()
  Reads,        \* slot, effect or reader -> the nodes its body reads, in order
  None,
  MaxWrites,    \* bound: writes to the sources
  MaxSpawns,    \* bound: computes spawned per slot
  MaxMishaps    \* bound: bodies that reject and slots disposed

VARIABLES
  version,     \* source -> how often it was written
  slot,        \* slot -> its AsyncSlotNode
  dependents,  \* node -> the ids in its dependents list
  inflight,    \* slot -> the compute in the #inflight map, or None
  task,        \* compute, effect or reader -> where its body is
  pending,     \* effect -> a rerun is queued
  observed,    \* effect -> what its last completed body saw
  asked,       \* reader -> the versions when getAsync was called
  settler,     \* settler -> what its settle() waits for
  writes, mishaps

graphVars  == <<version, slot, dependents, inflight>>
countVars  == <<writes, mishaps>>
clientVars == <<task, pending, observed, asked, settler>>
asyncVars == <<graphVars, clientVars, countVars>>

Computes == Slots \X (1 .. MaxSpawns)
Clients  == Computes \cup Effects \cup Readers
Nodes    == Sources \cup Slots

(* Nodes are of one kind, bodies read nodes, and a caller of getAsync reads *)
(* one slot.                                                                *)
ASSUME GraphAssumption ==
  /\ Sources \cap Slots = {} /\ Nodes \cap Effects = {}
  /\ Readers \cap (Slots \cup Effects) = {}
  /\ Computes \cap (Effects \cup Readers) = {} /\ None \notin Computes
  /\ IsFiniteSet(Slots) /\ MaxSpawns \in Nat
  /\ \A n \in Slots \cup Effects \cup Readers : Reads[n] \in Seq(Nodes)
  /\ \A r \in Readers : Len(Reads[r]) = 1 /\ Reads[r][1] \in Slots

NoValue == [s \in Sources |-> {}]
Join(u, v) == [s \in Sources |-> u[s] \cup v[s]]
SourceValue(s) == [x \in Sources |-> IF x = s THEN {version[s]} ELSE {}]

(* The node a client's reads register edges to; a reader has none. *)
Owner(c) == IF c \in Computes THEN c[1] ELSE c
Program(c) == Reads[Owner(c)]

IdleTask == [phase |-> "off", rev |-> 0, read |-> 0, value |-> NoValue,
             on |-> None, event |-> "none"]
RunningTask(rev) == [IdleTask EXCEPT !.phase = "run", !.rev = rev]

GraphInit ==
  /\ version = [s \in Sources |-> 0]
  /\ slot = [n \in Slots |-> [alive |-> TRUE, state |-> "empty",
                              value |-> NoValue, revision |-> 0, spawns |-> 0]]
  /\ dependents = [n \in Nodes |-> {}]
  /\ inflight = [n \in Slots |-> None]
  /\ task = [c \in Clients |->
               IF c \in Effects THEN [IdleTask EXCEPT !.phase = "loop"]
               ELSE IdleTask]
  /\ pending = [e \in Effects |-> TRUE]
  /\ observed = [e \in Effects |-> NoValue]
  /\ asked = [r \in Readers |-> version]
  /\ settler = [w \in Settlers |-> [phase |-> "idle", on |-> {}]]
  /\ writes = 0 /\ mishaps = 0

-----------------------------------------------------------------------------
(* Mutant: a notifier serves a single waiter. *)
SettleSingle(tasks, t, event, value) ==
  [c \in Clients |->
     IF {d \in Clients : tasks[d].on = t} # {c} THEN tasks[c]
     ELSE IF event = "resolved"
          THEN [tasks[c] EXCEPT !.on = None, !.read = @ + 1, !.event = "none",
                                !.value = Join(@, value)]
          ELSE [tasks[c] EXCEPT !.on = None, !.event = event]]

(* Mutant: a rejection does not reach the waiters. *)
SettleValuesOnly(tasks, t, event, value) ==
  [c \in Clients |->
     IF tasks[c].on # t \/ event # "resolved" THEN tasks[c]
     ELSE [tasks[c] EXCEPT !.on = None, !.read = @ + 1, !.event = "none",
                           !.value = Join(@, value)]]

(* Mutant: the awaited read is counted twice. *)
SettleTwice(tasks, t, event, value) ==
  [c \in Clients |->
     IF tasks[c].on # t THEN tasks[c]
     ELSE [tasks[c] EXCEPT !.on = None, !.read = @ + 2]]

(* notifier.settle: whoever awaits compute t receives the event. *)
Settle(tasks, t, event, value) ==
  [c \in Clients |->
     IF tasks[c].on # t THEN tasks[c]
     ELSE IF event = "resolved"
          THEN [tasks[c] EXCEPT !.on = None, !.read = @ + 1, !.event = "none",
                                !.value = Join(@, value)]
          ELSE [tasks[c] EXCEPT !.on = None, !.event = event]]

(* The compute a slot's token names. *)
Current(n) == <<n, slot[n].spawns>>

(* Every node the cascade reaches over the dependents lists. *)
Cone(roots) ==
  LET reach[k \in 0 .. Cardinality(Slots)] ==
        IF k = 0 THEN roots
        ELSE reach[k - 1] \cup
             UNION {dependents[n] : n \in reach[k - 1] \cap Slots}
  IN reach[Cardinality(Slots)]

LiveSlots(ns) == {n \in ns \cap Slots : slot[n].alive}

(* Superseding the computes in flight of some slots releases their waiters. *)
Supersede(tasks, ns) ==
  [c \in Clients |->
     IF \E n \in ns : slot[n].state = "computing" /\ tasks[c].on = Current(n)
     THEN [tasks[c] EXCEPT !.on = None, !.event = "superseded"]
     ELSE tasks[c]]

(* #invalidateSlot over the cone: bump the revision, supersede, go empty. *)
Emptied(ns) ==
  [n \in Slots |->
     IF n \in ns
     THEN [slot[n] EXCEPT !.state = "empty", !.value = NoValue,
                          !.revision = @ + 1]
     ELSE slot[n]]

Released(ns) ==
  [n \in Slots |->
     IF n \in ns /\ slot[n].state = "computing" THEN None ELSE inflight[n]]

(* #scheduleEffect: queue a rerun; start the run loop if it is not active. *)
Scheduled(tasks, es) ==
  [c \in Clients |->
     IF c \in es /\ tasks[c].phase = "off"
     THEN [tasks[c] EXCEPT !.phase = "loop"] ELSE tasks[c]]

(* set(), or a batch of several: the values change in one synchronous      *)
(* section and their cones are invalidated before anything else runs.      *)
WriteSources(ss) ==
  LET cone == Cone(UNION {dependents[s] : s \in ss})
      hit  == LiveSlots(cone)
      es   == cone \cap Effects
  IN
  /\ ss # {}
  /\ writes < MaxWrites
  /\ writes' = writes + 1
  /\ version' = [s \in Sources |-> IF s \in ss THEN version[s] + 1 ELSE version[s]]
  /\ slot' = Emptied(hit)
  /\ inflight' = Released(hit)
  /\ task' = Scheduled(Supersede(task, hit), es)
  /\ pending' = [e \in Effects |-> pending[e] \/ e \in es]
  /\ UNCHANGED <<dependents, observed, asked, settler, mishaps>>

(* Mutant: disposal forgets to mark the surviving cone stale. *)
DisposeSlotOnly(n) ==
  /\ slot[n].alive
  /\ mishaps < MaxMishaps
  /\ mishaps' = mishaps + 1
  /\ slot' = [slot EXCEPT ![n].alive = FALSE, ![n].state = "empty",
                          ![n].value = NoValue]
  /\ inflight' = Released({n})
  /\ task' = Supersede(task, {n})
  /\ dependents' = [m \in Nodes |-> IF m = n THEN {} ELSE dependents[m] \ {n}]
  /\ UNCHANGED <<version, pending, observed, asked, settler, writes>>

(* disposeSlot: mark the cone stale without scheduling effects, supersede  *)
(* the compute in flight, detach both edge directions, drop the node.      *)
DisposeSlot(n) ==
  LET hit == LiveSlots(Cone(dependents[n])) IN
  /\ slot[n].alive
  /\ mishaps < MaxMishaps
  /\ mishaps' = mishaps + 1
  /\ slot' = [Emptied(hit) EXCEPT ![n].alive = FALSE, ![n].state = "empty",
                                  ![n].value = NoValue]
  /\ inflight' = Released(hit \cup {n})
  /\ task' = Supersede(task, hit \cup {n})
  /\ dependents' = [m \in Nodes |-> IF m = n THEN {} ELSE dependents[m] \ {n}]
  /\ UNCHANGED <<version, pending, observed, asked, settler, writes>>

-----------------------------------------------------------------------------
(* A body at its next read: not suspended, and with reads left. *)
AtRead(c) ==
  /\ task[c].phase = "run"
  /\ task[c].on = None
  /\ task[c].event # "error"
  /\ task[c].read < Len(Program(c))

NextRead(c) == Program(c)[task[c].read + 1]

(* #registerDependency, before the awaited read; a dead node gets no edge, *)
(* a dead owner does.                                                      *)
Register(deps, c, n) ==
  IF c \in Readers \/ (n \in Slots /\ ~slot[n].alive) THEN deps
  ELSE [deps EXCEPT ![n] = @ \cup {Owner(c)}]

(* cctx.get of a source. *)
ReadSource(c) ==
  LET s == NextRead(c) IN
  /\ AtRead(c)
  /\ s \in Sources
  /\ dependents' = Register(dependents, c, s)
  /\ task' = [task EXCEPT ![c].read = @ + 1,
                          ![c].value = Join(@, SourceValue(s))]
  /\ UNCHANGED <<version, slot, inflight, pending, observed, asked, settler,
                 countVars>>

(* cctx.getAsync of a slot: register the edge once, then look at the slot  *)
(* and again after each superseded compute.                                *)
RegisterFirst(c, n) ==
  IF task[c].event = "none" THEN Register(dependents, c, n) ELSE dependents

GetResolved(c, n) ==
  /\ slot[n].state = "resolved"
  /\ dependents' = RegisterFirst(c, n)
  /\ task' = [task EXCEPT ![c].read = @ + 1, ![c].event = "none",
                          ![c].value = Join(@, slot[n].value)]
  /\ UNCHANGED <<slot, inflight>>

GetComputing(c, n) ==
  /\ slot[n].state = "computing"
  /\ dependents' = RegisterFirst(c, n)
  /\ task' = [task EXCEPT ![c].on = Current(n)]
  /\ UNCHANGED <<slot, inflight>>

(* #spawnCompute: clear the slot's own edges and start a compute. *)
GetSpawns(c, n) ==
  LET t == <<n, slot[n].spawns + 1>> IN
  /\ slot[n].state \in {"empty", "error"}
  /\ slot[n].spawns < MaxSpawns
  /\ slot' = [slot EXCEPT ![n].state = "computing", ![n].value = NoValue,
                          ![n].spawns = @ + 1]
  /\ dependents' = [m \in Nodes |-> RegisterFirst(c, n)[m] \ {n}]
  /\ inflight' = [inflight EXCEPT ![n] = t]
  /\ task' = [task EXCEPT ![c].on = t, ![t] = RunningTask(slot[n].revision)]

GetDisposed(c, n) ==
  /\ dependents' = RegisterFirst(c, n)
  /\ task' = [task EXCEPT ![c].event = "error"]
  /\ UNCHANGED <<slot, inflight>>

ReadSlot(c) ==
  LET n == NextRead(c) IN
  /\ AtRead(c)
  /\ n \in Slots
  /\ IF slot[n].alive
     THEN GetResolved(c, n) \/ GetComputing(c, n) \/ GetSpawns(c, n)
     ELSE GetDisposed(c, n)
  /\ UNCHANGED <<version, pending, observed, asked, settler, countVars>>

-----------------------------------------------------------------------------
Finished(c) ==
  /\ task[c].phase = "run"
  /\ task[c].on = None
  /\ task[c].event # "error"
  /\ task[c].read = Len(Program(c))

(* Mutant: a completion is published whatever the revision. *)
MayPublishAlways(t) == slot[t[1]].alive

(* The guard of #publishResolved and #publishError. *)
MayPublish(t) ==
  /\ slot[t[1]].alive
  /\ slot[t[1]].revision = task[t].rev

(* #publishResolved: publish, or discard a stale completion. *)
Publish(t) ==
  LET done == [task EXCEPT ![t].phase = "published"] IN
  /\ Finished(t)
  /\ IF MayPublish(t)
     THEN /\ slot' = [slot EXCEPT ![t[1]].state = "resolved",
                                  ![t[1]].value = task[t].value]
          /\ task' = Settle(done, t, "resolved", task[t].value)
     ELSE /\ task' = Settle(done, t, "superseded", NoValue)
          /\ UNCHANGED slot
  /\ UNCHANGED <<version, dependents, inflight, pending, observed, asked,
                 settler, countVars>>

(* A body that rejects: by itself, or because a read found a dead node. *)
Rejects(c) ==
  \/ task[c].event = "error" /\ UNCHANGED mishaps
  \/ /\ task[c].on = None
     /\ task[c].event # "error"
     /\ mishaps < MaxMishaps
     /\ mishaps' = mishaps + 1

(* #publishError. *)
PublishError(t) ==
  LET done == [task EXCEPT ![t].phase = "published"] IN
  /\ task[t].phase = "run"
  /\ Rejects(t)
  /\ IF MayPublish(t)
     THEN /\ slot' = [slot EXCEPT ![t[1]].state = "error",
                                  ![t[1]].value = NoValue]
          /\ task' = Settle(done, t, "error", NoValue)
     ELSE /\ task' = Settle(done, t, "superseded", NoValue)
          /\ UNCHANGED slot
  /\ UNCHANGED <<version, dependents, inflight, pending, observed, asked,
                 settler, writes>>

(* A promise a settle() awaits has settled. *)
NoLongerAwaited(x) ==
  settler' = [w \in Settlers |-> [settler[w] EXCEPT !.on = @ \ {x}]]

(* Mutant: a compute that ends keeps its slot's entry in #inflight. *)
FinallyKeepsEntry(t) ==
  /\ task[t].phase = "published"
  /\ task' = [task EXCEPT ![t] = IdleTask]
  /\ NoLongerAwaited(t)
  /\ UNCHANGED <<version, slot, dependents, inflight, pending, observed, asked,
                 countVars>>

(* The compute's finally: forget the slot's entry in #inflight, whichever  *)
(* compute it names by now.                                                *)
Finally(t) ==
  /\ task[t].phase = "published"
  /\ task' = [task EXCEPT ![t] = IdleTask]
  /\ inflight' = [inflight EXCEPT ![t[1]] = None]
  /\ NoLongerAwaited(t)
  /\ UNCHANGED <<version, slot, dependents, pending, observed, asked, countVars>>

-----------------------------------------------------------------------------
(* The run loop: take the queued rerun, drop the old edges, run the body.  *)
EffectStart(e) ==
  /\ task[e].phase = "loop"
  /\ pending[e]
  /\ pending' = [pending EXCEPT ![e] = FALSE]
  /\ task' = [task EXCEPT ![e] = RunningTask(0)]
  /\ dependents' = [n \in Nodes |-> dependents[n] \ {e}]
  /\ UNCHANGED <<version, slot, inflight, observed, asked, settler, countVars>>

(* The body completed, or rejected and its error was kept. *)
EffectFinish(e) ==
  /\ \/ Finished(e) /\ observed' = [observed EXCEPT ![e] = task[e].value]
     \/ task[e].event = "error" /\ UNCHANGED observed
  /\ task' = [task EXCEPT ![e] = [IdleTask EXCEPT !.phase = "loop"]]
  /\ UNCHANGED <<graphVars, pending, asked, settler, countVars>>

(* Mutant: the loop ends without looking at the queued rerun again. *)
EffectStopEarly(e) ==
  /\ task[e].phase = "loop"
  /\ pending' = [pending EXCEPT ![e] = FALSE]
  /\ task' = [task EXCEPT ![e] = IdleTask]
  /\ NoLongerAwaited(e)
  /\ UNCHANGED <<graphVars, observed, asked, countVars>>

(* Nothing queued: the loop ends. *)
EffectStop(e) ==
  /\ task[e].phase = "loop"
  /\ ~pending[e]
  /\ task' = [task EXCEPT ![e] = IdleTask]
  /\ NoLongerAwaited(e)
  /\ UNCHANGED <<graphVars, pending, observed, asked, countVars>>

(* A caller outside the graph. *)
ReaderCall(r) ==
  /\ task[r].phase = "off"
  /\ task' = [task EXCEPT ![r] = RunningTask(0)]
  /\ asked' = [asked EXCEPT ![r] = version]
  /\ UNCHANGED <<graphVars, pending, observed, settler, countVars>>

(* Its promise settles; the value it was given stays in task[r].value. *)
ReaderReturn(r) ==
  /\ task[r].phase = "run"
  /\ Finished(r) \/ task[r].event = "error"
  /\ task' = [task EXCEPT ![r].phase = "returned"]
  /\ UNCHANGED <<graphVars, pending, observed, asked, settler, countVars>>

(* settle(): while anything is registered, await all of it. *)
Awaited ==
  ({inflight[n] : n \in Slots} \ {None})
    \cup {e \in Effects : task[e].phase # "off"}

SettleCheck(w) ==
  /\ settler[w].phase \in {"idle", "wait"}
  /\ settler[w].on = {}
  /\ settler' = [settler EXCEPT ![w] =
       [phase |-> IF Awaited = {} THEN "returned" ELSE "wait", on |-> Awaited]]
  /\ UNCHANGED <<graphVars, task, pending, observed, asked, countVars>>

-----------------------------------------------------------------------------
Progress(c) ==
  \/ ReadSource(c) \/ ReadSlot(c)
  \/ c \in Computes /\ (Publish(c) \/ PublishError(c) \/ Finally(c))
  \/ c \in Effects /\ (EffectStart(c) \/ EffectFinish(c) \/ EffectStop(c))
  \/ c \in Readers /\ ReaderReturn(c)

GraphNext ==
  \/ \E ss \in SUBSET Sources : WriteSources(ss)
  \/ \E n \in Slots : DisposeSlot(n)
  \/ \E c \in Clients : Progress(c)
  \/ \E r \in Readers : ReaderCall(r)
  \/ \E w \in Settlers : SettleCheck(w)

GraphSpec == GraphInit /\ [][GraphNext]_asyncVars

(* Every runnable continuation is eventually run by the event loop. *)
Fairness ==
  /\ \A c \in Clients : WF_asyncVars(Progress(c))
  /\ \A w \in Settlers : WF_asyncVars(SettleCheck(w))

FairGraphSpec == GraphSpec /\ Fairness

-----------------------------------------------------------------------------
(* The sources a node is computed from. *)
Origins(n) ==
  LET origin[k \in 0 .. Cardinality(Slots) + 1] ==
        IF k = 0 THEN {n}
        ELSE origin[k - 1] \cup
             UNION {{Reads[m][i] : i \in DOMAIN Reads[m]} :
                      m \in origin[k - 1] \ Sources}
  IN origin[Cardinality(Slots) + 1] \cap Sources

(* What a body would see if it ran now, with nothing in the way. *)
Fresh(n) ==
  [s \in Sources |-> IF s \in Origins(n) THEN {version[s]} ELSE {}]

(* Every variable has its type. *)
GraphTypeOK ==
  /\ \A n \in Slots :
       /\ slot[n].state \in {"empty", "computing", "resolved", "error"}
       /\ slot[n].spawns \in 0 .. MaxSpawns
       /\ inflight[n] \in Computes \cup {None}
  /\ \A c \in Clients :
       /\ task[c].phase \in {"off", "loop", "run", "published", "returned"}
       /\ task[c].on \in Computes \cup {None}
       /\ task[c].read \in 0 .. Len(Program(c))

(* A resolved slot holds what its inputs say now: no interleaving of       *)
(* suspended computes, writes and disposals lets a stale or torn result be *)
(* published, or a published one survive a change below it.                *)
ResolvedIsFresh ==
  \A n \in Slots : slot[n].alive /\ slot[n].state = "resolved" =>
    /\ slot[n].value = Fresh(n)
    /\ \A i \in DOMAIN Reads[n] :
         Reads[n][i] \in Slots => slot[Reads[n][i]].alive

(* A body suspended on a compute is suspended on the one that will settle  *)
(* its notifier: the compute is still running, so nobody waits for a       *)
(* promise that no one holds.                                              *)
WaitersAreServed ==
  \A c \in Clients : task[c].on # None => task[task[c].on].phase = "run"

(* getAsync never answers with a value older than its call, and never with *)
(* a mix of versions.                                                      *)
AnswersAreRecent ==
  \A r \in Readers :
    task[r].phase = "returned" /\ task[r].event # "error" =>
      \A s \in Sources :
        /\ Cardinality(task[r].value[s]) <= 1
        /\ \A x \in task[r].value[s] : x >= asked[r][s]

(* Nothing stale is kept or handed out. *)
NothingStale == GraphTypeOK /\ ResolvedIsFresh /\ AnswersAreRecent

(* Once the writes stop, every effect has seen the final state. *)
EffectsCatchUp ==
  \A e \in Effects : []<>(observed[e] = Fresh(e) \/ writes < MaxWrites)

(* Every getAsync call settles. *)
ReadersReturn ==
  \A r \in Readers : (task[r].phase = "run") ~> (task[r].phase = "returned")

(* settle() returns: once the bounded writes stop, nothing it awaits is     *)
(* forgotten and nothing keeps being registered.                           *)
SettleReturns ==
  \A w \in Settlers : (settler[w].phase = "wait") ~> (settler[w].phase = "returned")

(* Everything that waits on the graph gets on. *)
GraphProgresses == EffectsCatchUp /\ ReadersReturn /\ SettleReturns

(* What settle's comment says: it returns when the graph has quiesced. *)
SettleQuiesces ==
  [][\A w \in Settlers :
       settler[w].phase # "returned" /\ settler'[w].phase = "returned" =>
         /\ \A n \in Slots : slot[n].state # "computing"
         /\ \A e \in Effects : task[e].phase = "off"]_asyncVars
=============================================================================
