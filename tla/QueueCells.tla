----------------------------- MODULE QueueCells ----------------------------
(***************************************************************************)
(* The queue and the topic of queue-core.js under their shells.            *)
(*                                                                         *)
(* The FIFO: QueueCell (queue.js), AsyncQueueCell (async-queue.js) and     *)
(* ThreadSafeQueueCell (thread-safe-queue.js).  The core changes its       *)
(* storage and says which reader kinds the change dirtied; a shell clears  *)
(* those readers on its graph.  The synchronous shell does both at once.   *)
(* The asynchronous one too, but its readers are computed across a         *)
(* suspension.  The thread-safe one changes the core under the core lock,  *)
(* releases it, and clears under the lock of the context, which a          *)
(* computing reader holds while it takes the core lock.                    *)
(*                                                                         *)
(* The topic: TopicCore, a log of which a prefix may have been collected,  *)
(* and a cursor per subscriber.  An element is its absolute offset, so the *)
(* retained log is the interval base .. end - 1.  A host restarts by       *)
(* taking a snapshot and building a topic from it.                         *)
(***************************************************************************)
EXTENDS Naturals, Sequences, FiniteSets, FiniteSetsExt

CONSTANTS Values,     \* what a producer pushes
          Capacity,   \* 0 for an unbounded storage
          Realms,     \* callers of the thread-safe shell
          MaxPushes,  \* bound on the pushes of a behaviour
          Nil,        \* null, and a reader or realm that is not there
          Subscribers,
          MaxOffset,  \* bound on the elements published to a topic
          Gone        \* a subscriber or a memoised stream that is not there

VARIABLES flavour, store, prev, memo, task, realm, coreLock, ctxLock, pushes

queueVars == <<flavour, store, prev, memo, task, realm, coreLock, ctxLock, pushes>>

Kinds == {"head", "len", "is_empty", "is_full", "closed"}
Labels == {"Full", "Empty", "Closed"}

IsFull(s) == Capacity # 0 /\ Len(s.elements) >= Capacity

\* What the reader of a kind derives from the storage.
Derive(s, kind) ==
  CASE kind = "head" -> IF s.elements = <<>> THEN Nil ELSE Head(s.elements)
    [] kind = "len" -> Len(s.elements)
    [] kind = "is_empty" -> s.elements = <<>>
    [] kind = "is_full" -> IsFull(s)
    [] kind = "closed" -> s.closed

Observe(s) == [k \in Kinds \ {"head"} |-> Derive(s, k)]

\* For mutants: head reported on pops only; fullness never compared.
DirtyHeadOnPop(headChanged, s) ==
  {k \in Kinds \ {"head"} : prev[k] # Observe(s)[k]}
    \cup IF headChanged /\ Len(s.elements) < prev["len"] THEN {"head"} ELSE {}

\* The kinds the core reports: head by the direction of the operation, the
\* others by comparison with the last observation.
Dirty(headChanged, s) ==
  {k \in Kinds \ {"head"} : prev[k] # Observe(s)[k]}
    \cup IF headChanged THEN {"head"} ELSE {}

----------------------------------------------------------------------------
(* The core: an operation changes store and prev; `dirty` is what it       *)
(* reports to the shell.                                                    *)

TryPush(v, dirty) ==
  \/ /\ store.closed \/ IsFull(store)
     /\ dirty = {}
     /\ UNCHANGED <<store, prev>>
  \/ /\ ~store.closed /\ ~IsFull(store)
     /\ store' = [store EXCEPT !.elements = Append(@, v)]
     /\ dirty = Dirty(store.elements = <<>>, store')
     /\ prev' = Observe(store')

\* A popped element that is itself one of the labels is taken for a
\* rejection: the storage has moved, the observation has not.
TryPop(dirty) ==
  \/ /\ store.elements = <<>>
     /\ dirty = {}
     /\ UNCHANGED <<store, prev>>
  \/ /\ store.elements # <<>>
     /\ store' = [store EXCEPT !.elements = Tail(@)]
     /\ IF Head(store.elements) \in {"Empty", "Closed"}
        THEN dirty = {} /\ UNCHANGED prev
        ELSE dirty = Dirty(TRUE, store') /\ prev' = Observe(store')

CloseQueue(dirty) ==
  \/ store.closed /\ dirty = {} /\ UNCHANGED <<store, prev>>
  \/ /\ ~store.closed
     /\ store' = [store EXCEPT !.closed = TRUE]
     /\ dirty = Dirty(FALSE, store')
     /\ prev' = Observe(store')

Mutate(dirty) ==
  \/ /\ pushes < MaxPushes
     /\ pushes' = pushes + 1
     /\ \E v \in Values : TryPush(v, dirty)
  \/ TryPop(dirty) /\ UNCHANGED pushes
  \/ CloseQueue(dirty) /\ UNCHANGED pushes

----------------------------------------------------------------------------
(* The synchronous shell.                                                   *)

Cleared(dirty) == [k \in Kinds |-> IF k \in dirty THEN Nil ELSE memo[k]]

SyncMutate ==
  /\ flavour = "sync"
  /\ \E dirty \in SUBSET Kinds : Mutate(dirty) /\ memo' = Cleared(dirty)
  /\ UNCHANGED <<flavour, task, realm, coreLock, ctxLock>>

SyncRead(kind) ==
  /\ flavour = "sync"
  /\ memo' = [memo EXCEPT ![kind] = <<Derive(store, kind)>>]
  /\ UNCHANGED <<flavour, store, prev, task, realm, coreLock, ctxLock, pushes>>

----------------------------------------------------------------------------
(* The asynchronous shell: a compute in flight publishes unless its reader *)
(* was cleared meanwhile, which supersedes it.                              *)

AsyncMutate ==
  /\ flavour = "async"
  /\ \E dirty \in SUBSET Kinds :
       /\ Mutate(dirty)
       /\ memo' = Cleared(dirty)
       /\ task' = [k \in Kinds |-> IF k \in dirty THEN Nil ELSE task[k]]
  /\ UNCHANGED <<flavour, realm, coreLock, ctxLock>>

AsyncStart(kind) ==
  /\ flavour = "async" /\ memo[kind] = Nil /\ task[kind] = Nil
  /\ task' = [task EXCEPT ![kind] = <<Derive(store, kind)>>]
  /\ UNCHANGED <<flavour, store, prev, memo, realm, coreLock, ctxLock, pushes>>

AsyncPublish(kind) ==
  /\ flavour = "async" /\ task[kind] # Nil
  /\ memo' = [memo EXCEPT ![kind] = task[kind]]
  /\ task' = [task EXCEPT ![kind] = Nil]
  /\ UNCHANGED <<flavour, store, prev, realm, coreLock, ctxLock, pushes>>

----------------------------------------------------------------------------
(* The thread-safe shell.  realm[r] is what the realm is doing: idle, the  *)
(* core changed and its lock held, ready to clear, or computing a reader.  *)

Idle == [at |-> "idle", kinds |-> {}]

LockedMutate(r) ==
  /\ flavour = "threadSafe" /\ realm[r] = Idle /\ coreLock = Nil
  /\ \E dirty \in SUBSET Kinds :
       Mutate(dirty) /\ realm' = [realm EXCEPT ![r] = [at |-> "changed", kinds |-> dirty]]
  /\ coreLock' = r
  /\ UNCHANGED <<flavour, memo, task, ctxLock>>

\* For mutants: the core lock is kept until the graph has been written.
ReleaseAfterClear(r) ==
  /\ realm[r].at = "changed"
  /\ realm' = [realm EXCEPT ![r].at = "clearing"]
  /\ UNCHANGED <<flavour, store, prev, memo, task, coreLock, ctxLock, pushes>>

Release(r) ==
  /\ realm[r].at = "changed"
  /\ coreLock' = Nil
  /\ realm' = [realm EXCEPT ![r].at = "clearing"]
  /\ UNCHANGED <<flavour, store, prev, memo, task, ctxLock, pushes>>

LockedClear(r) ==
  /\ realm[r].at = "clearing" /\ ctxLock = Nil
  /\ memo' = Cleared(realm[r].kinds)
  /\ realm' = [realm EXCEPT ![r] = Idle]
  /\ UNCHANGED <<flavour, store, prev, task, coreLock, ctxLock, pushes>>

LockedRead(r, kind) ==
  /\ flavour = "threadSafe" /\ realm[r] = Idle /\ ctxLock = Nil /\ memo[kind] = Nil
  /\ ctxLock' = r
  /\ realm' = [realm EXCEPT ![r] = [at |-> "computing", kinds |-> {kind}]]
  /\ UNCHANGED <<flavour, store, prev, memo, task, coreLock, pushes>>

LockedCompute(r) ==
  /\ realm[r].at = "computing" /\ coreLock = Nil
  /\ memo' = [k \in Kinds |-> IF k \in realm[r].kinds THEN <<Derive(store, k)>> ELSE memo[k]]
  /\ realm' = [realm EXCEPT ![r] = Idle]
  /\ ctxLock' = Nil
  /\ UNCHANGED <<flavour, store, prev, task, coreLock, pushes>>

----------------------------------------------------------------------------
QueueInit ==
  /\ flavour \in {"sync", "async", "threadSafe"}
  /\ store = [elements |-> <<>>, closed |-> FALSE]
  /\ prev = Observe(store)
  /\ memo = [k \in Kinds |-> Nil]
  /\ task = [k \in Kinds |-> Nil]
  /\ realm = [r \in Realms |-> Idle]
  /\ coreLock = Nil
  /\ ctxLock = Nil
  /\ pushes = 0

QueueNext ==
  \/ SyncMutate
  \/ AsyncMutate
  \/ \E k \in Kinds : SyncRead(k) \/ AsyncStart(k) \/ AsyncPublish(k)
  \/ \E r \in Realms : LockedMutate(r) \/ Release(r) \/ LockedClear(r) \/ LockedCompute(r)
  \/ \E r \in Realms, k \in Kinds : LockedRead(r, k)

----------------------------------------------------------------------------
(* The topic. *)

VARIABLES log,      \* [base, end]
          sub,      \* per subscriber: Gone or [cursor, durable, connected]
          stream,   \* the memoised unread suffix of each reader, Gone if cleared
          received  \* ghost: the offsets a durable identity has been given

topicVars == <<log, sub, stream, received>>

Subscription == [cursor : Nat, durable : BOOLEAN, connected : BOOLEAN]
Live(s) == sub[s] # Gone
Connected(s) == Live(s) /\ sub[s].connected

Unread(s) ==
  IF Connected(s) THEN {n \in log.base .. log.end - 1 : n >= sub[s].cursor} ELSE {}

Clear(S) == stream' = [s \in Subscribers |-> IF s \in S THEN Gone ELSE stream[s]]

Subscribe(s, durable) ==
  /\ ~Connected(s)
  /\ sub' = [sub EXCEPT ![s] =
       IF Live(s) THEN [@ EXCEPT !.connected = TRUE]
       ELSE [cursor |-> log.end, durable |-> durable, connected |-> TRUE]]
  /\ Clear({s})
  /\ received' = IF Live(s) THEN received ELSE [received EXCEPT ![s] = {}]
  /\ UNCHANGED log

Disconnect(s) ==
  /\ Connected(s)
  /\ sub' = [sub EXCEPT ![s] = IF @.durable THEN [@ EXCEPT !.connected = FALSE] ELSE Gone]
  /\ Clear({s})
  /\ UNCHANGED <<log, received>>

Publish ==
  /\ log.end < MaxOffset
  /\ log' = [log EXCEPT !.end = @ + 1]
  /\ Clear({s \in Subscribers : Connected(s) /\ sub[s].cursor <= log.end})
  /\ UNCHANGED <<sub, received>>

\* An element below the retained range is undefined: the cursor moves past it.
Advance(s) ==
  /\ Connected(s) /\ sub[s].cursor < log.end
  /\ sub' = [sub EXCEPT ![s].cursor = @ + 1]
  /\ received' = [received EXCEPT ![s] =
       @ \cup {n \in log.base .. log.end - 1 : n = sub[s].cursor}]
  /\ Clear({s})
  /\ UNCHANGED log

Durable == {s \in Subscribers : Live(s) /\ sub[s].durable}

\* For mutants: an offline subscriber does not hold the log back.
FrontierOfConnected ==
  LET D == {s \in Durable : sub[s].connected}
  IN  IF D = {} THEN log.end ELSE Min({sub[s].cursor : s \in D})

Frontier == IF Durable = {} THEN log.end ELSE Min({sub[s].cursor : s \in Durable})

Gc ==
  /\ log' = [log EXCEPT !.base = Frontier]
  /\ UNCHANGED <<sub, stream, received>>

Read(s) ==
  /\ stream[s] = Gone
  /\ stream' = [stream EXCEPT ![s] = Unread(s)]
  /\ UNCHANGED <<log, sub, received>>

\* The constructor refuses cursors outside the retained range.
Acceptable == \A s \in Subscribers : Live(s) => sub[s].cursor \in log.base .. log.end

\* A topic built from a snapshot has the state of the old one and no readers.
Restart ==
  /\ Acceptable
  /\ stream' = [s \in Subscribers |-> Gone]
  /\ UNCHANGED <<log, sub, received>>

TopicInit ==
  /\ log = [base |-> 0, end |-> 0]
  /\ sub = [s \in Subscribers |-> Gone]
  /\ stream = [s \in Subscribers |-> Gone]
  /\ received = [s \in Subscribers |-> {}]

TopicNext ==
  \/ Publish \/ Gc \/ Restart
  \/ \E s \in Subscribers :
       \/ \E durable \in BOOLEAN : Subscribe(s, durable)
       \/ Disconnect(s) \/ Advance(s) \/ Read(s)

----------------------------------------------------------------------------
TypeOK ==
  /\ store.elements \in Seq(Values) /\ store.closed \in BOOLEAN
  /\ Capacity # 0 => Len(store.elements) <= Capacity
  /\ DOMAIN prev = Kinds \ {"head"}
  /\ coreLock \in Realms \cup {Nil} /\ ctxLock \in Realms \cup {Nil}
  /\ \A r \in Realms : realm[r].at \in {"idle", "changed", "clearing", "computing"}
  /\ log.base \in 0 .. log.end /\ log.end \in 0 .. MaxOffset
  /\ \A s \in Subscribers : sub[s] \in Subscription \cup {Gone}

\* A memoised reader holds what the storage derives now, in every flavour; the
\* one exception is a change whose caller has yet to clear that very reader
\* (the matrix of invalidations each mutator returns, and _apply).
QueueReadersCoherent ==
  \A k \in Kinds :
    memo[k] \in {Nil, <<Derive(store, k)>>} \/ \E r \in Realms : k \in realm[r].kinds

\* No realm keeps the core lock for the context lock while another keeps the
\* context lock for the core lock (the locking discipline thread-safe-queue.js
\* states at its head).
LocksDoNotCross ==
  ~ \E r, s \in Realms :
      /\ coreLock = r /\ realm[r].at = "clearing"
      /\ ctxLock = s /\ realm[s].at = "computing"

\* Whatever a durable subscriber has not been given since it was created is
\* still in the log, and it is given every offset once, in order, across
\* disconnections, restarts and collections (gc: "only the prefix below the
\* minimum durable absolute cursor").
DurableLosesNothing ==
  \A s \in Durable :
    /\ sub[s].cursor >= log.base
    /\ \A n, m \in received[s] : n < m => n .. m \subseteq received[s]
    /\ received[s] # {} => Max(received[s]) + 1 = sub[s].cursor

\* The reader of a durable subscriber shows its unread suffix.
StreamsCoherent == \A s \in Durable : stream[s] \in {Gone, Unread(s)}

\* What snapshot() returns, the constructor takes.
SnapshotsRestore == Acceptable

\* A subscriber that stays connected is given every element published since
\* ("every subscriber receives every published element", queue.js).
EverySubscriberReceives ==
  \A s \in Subscribers : Connected(s) => sub[s].cursor >= log.base
=============================================================================
