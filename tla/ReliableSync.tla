--------------------------- MODULE ReliableSync ---------------------------
(***************************************************************************)
(* The full-duplex reliable-sync loop: SyncDriver with its Outbox and its  *)
(* ResyncCoordinator, one driver per peer, over a carrier that can break.  *)
(*                                                                         *)
(* tick() is modelled by its phases, because the other peer's tick runs    *)
(* between them: replay the unacked suffix, drain fresh enqueues, receive  *)
(* until the source is exhausted, advertise the cursor.  A tick's Progress *)
(* reaches the host when tick() returns and is lost when it throws.        *)
(*                                                                         *)
(* Frames of a producer are its deltas 1, 2, ..., delta e going from       *)
(* epoch e - 1 to e.  The carrier is FIFO; breaking it loses any suffix of *)
(* what is in transit.                                                     *)
(***************************************************************************)
EXTENDS Integers, Sequences, TLC

CONSTANTS
  Peers,       \* the two ends of the connection
  Producers,   \* the peers whose hosts enqueue data frames
  MaxEpoch,    \* bound: frames a producer enqueues
  MaxFaults,   \* bound: carrier breaks and refused sends
  MaxRestarts  \* bound: restarts of a peer that has produced nothing

ASSUME PeersAssumption ==
  /\ \E p, q \in Peers : p # q /\ Peers = {p, q}
  /\ Producers \subseteq Peers
ASSUME BoundsAssumption ==
  MaxEpoch \in Nat /\ MaxFaults \in Nat /\ MaxRestarts \in Nat

VARIABLES
  driver,   \* peer -> the fields of its SyncDriver, and its host's projection
  link,     \* peer -> the messages it sent that are still in transit
  joined,   \* the peers whose sink and source belong to the carrier in use
  faults,   \* faults so far
  restarts  \* restarts so far

vars == <<driver, link, joined, faults, restarts>>

Other(p) == CHOOSE q \in Peers : q # p

Epochs == 0 .. MaxEpoch
Messages == [kind : {"delta", "snapshot", "ack", "request"}, epoch : Epochs]
Message(k, e) == [kind |-> k, epoch |-> e]

Phases == {"idle", "replay", "drain", "receive", "ack"}

(* new SyncDriver(options), with the host fields that are not the driver's: *)
(* host (accepted events), folded (epochs in the projection), unfolded (the *)
(* epochs of this tick's Progress.applied) and dropped (epochs whose        *)
(* Progress was thrown away).  pending is drained + 1 .. host.              *)
FreshDriver ==
  [host |-> 0, drained |-> 0, outbox |-> {}, ackedThrough |-> 0,
   ackOwed |-> FALSE, replayPending |-> FALSE, stalled |-> FALSE,
   lastEpoch |-> 0, resyncing |-> FALSE,
   phase |-> "idle", todo |-> {},
   unfolded |-> {}, folded |-> {}, dropped |-> {}]

Init ==
  /\ driver = [p \in Peers |-> FreshDriver]
  /\ link = [p \in Peers |-> <<>>]
  /\ joined = Peers
  /\ faults = 0
  /\ restarts = 0

(* Replace p's driver record. *)
Becomes(p, d) == driver' = [driver EXCEPT ![p] = d]

(* #trySend succeeding and failing: it fails on a carrier that is gone,    *)
(* and the sink may refuse a frame (or throw) on one that is in use.       *)
Delivered(p, m) ==
  /\ p \in joined
  /\ link' = [link EXCEPT ![p] = Append(@, m)]
  /\ UNCHANGED <<joined, faults, restarts>>

CountFault(p) ==
  IF p \in joined THEN faults < MaxFaults /\ faults' = faults + 1
  ELSE UNCHANGED faults

Refused(p) ==
  /\ CountFault(p)
  /\ UNCHANGED <<link, joined, restarts>>

NoSend == UNCHANGED <<link, joined, faults, restarts>>

-----------------------------------------------------------------------------
(* The host accepts an event and stages its delta. *)
Enqueue(p) ==
  /\ driver[p].phase = "idle"
  /\ p \in Producers
  /\ driver[p].host < MaxEpoch
  /\ Becomes(p, [driver[p] EXCEPT !.host = @ + 1])
  /\ NoSend

(* The frames replayFrom(peerAckedThrough) returns. *)
UnackedSuffix(d) == {e \in d.outbox : e > d.ackedThrough}

(* tick(): enter the loop pass; a pending replay starts. *)
StartTick(p) ==
  LET d == driver[p] IN
  /\ d.phase = "idle"
  /\ Becomes(p,
       IF d.replayPending
       THEN [d EXCEPT !.phase = "replay", !.replayPending = FALSE,
                      !.todo = UnackedSuffix(d)]
       ELSE [d EXCEPT !.phase = "drain"])
  /\ NoSend

Oldest(todo) == {e \in todo : \A x \in todo : e <= x}

(* 1. Replay the suffix oldest first; a failure stalls and keeps the rest. *)
Replay(p) ==
  LET d == driver[p] IN
  /\ d.phase = "replay"
  /\ d.todo # {}
  /\ \/ \E e \in Oldest(d.todo) :
          /\ Delivered(p, Message("delta", e))
          /\ Becomes(p, [d EXCEPT !.todo = @ \ {e}])
     \/ /\ Refused(p)
        /\ Becomes(p, [d EXCEPT !.stalled = TRUE, !.replayPending = TRUE,
                                !.todo = {}, !.phase = "drain"])

ReplayDone(p) ==
  /\ driver[p].phase = "replay"
  /\ driver[p].todo = {}
  /\ Becomes(p, [driver[p] EXCEPT !.phase = "drain"])
  /\ NoSend

(* Mutant: a frame enters the outbox only after its send succeeded. *)
DrainSendFirst(p) ==
  LET d == driver[p]
      e == d.drained + 1
  IN
  /\ d.phase = "drain"
  /\ ~d.stalled
  /\ d.drained < d.host
  /\ \/ /\ Delivered(p, Message("delta", e))
        /\ Becomes(p, [d EXCEPT !.drained = e, !.outbox = @ \cup {e}])
     \/ /\ Refused(p)
        /\ Becomes(p, [d EXCEPT !.drained = e, !.stalled = TRUE,
                                !.phase = "receive"])

(* Mutant: a failed send does not stall the sink. *)
DrainNoStall(p) ==
  LET d == driver[p]
      e == d.drained + 1
      appended == [d EXCEPT !.drained = e, !.outbox = @ \cup {e}]
  IN
  /\ d.phase = "drain"
  /\ d.drained < d.host
  /\ \/ Delivered(p, Message("delta", e)) /\ Becomes(p, appended)
     \/ Refused(p) /\ Becomes(p, appended)

(* 2. Drain: append to the outbox, then send; stop at the first failure. *)
Drain(p) ==
  LET d == driver[p]
      e == d.drained + 1
      appended == [d EXCEPT !.drained = e, !.outbox = @ \cup {e}]
  IN
  /\ d.phase = "drain"
  /\ ~d.stalled
  /\ d.drained < d.host
  /\ \/ Delivered(p, Message("delta", e)) /\ Becomes(p, appended)
     \/ /\ Refused(p)
        /\ Becomes(p, [appended EXCEPT !.stalled = TRUE, !.phase = "receive"])

DrainDone(p) ==
  LET d == driver[p] IN
  /\ d.phase = "drain"
  /\ d.stalled \/ d.drained = d.host
  /\ Becomes(p, [d EXCEPT !.phase = "receive"])
  /\ NoSend

-----------------------------------------------------------------------------
(* Applying a data frame: the cursor moves, an ack is owed, and the frame  *)
(* joins Progress.applied.                                                 *)
Apply(d, epochs, e) ==
  [d EXCEPT !.lastEpoch = e, !.resyncing = FALSE, !.ackOwed = TRUE,
            !.unfolded = @ \cup epochs]

(* What the source of p holds: what the other peer sent, on the carrier in *)
(* use or, while nobody has re-established one, on the one that broke.     *)
Inbound(p) ==
  IF p \in joined \/ joined = {} THEN link[Other(p)] ELSE <<>>

Consume(p) == link' = [link EXCEPT ![Other(p)] = Tail(@)]

ConsumeAndSend(p, m) ==
  link' = [link EXCEPT ![Other(p)] = Tail(@), ![p] = Append(@, m)]

Rest == UNCHANGED <<joined, faults, restarts>>

(* Mutant: an ack prunes one frame more than it covers. *)
AckThroughNext(d, e) ==
  [d EXCEPT !.ackedThrough = e + 1, !.outbox = {x \in @ : x > e + 1}]

(* Outbox.ackThrough: move the cursor and prune, unless it is old news. *)
AckThrough(d, e) ==
  IF e <= d.ackedThrough THEN d
  ELSE [d EXCEPT !.ackedThrough = e, !.outbox = {x \in @ : x > e}]

ReceiveAck(p, m) ==
  /\ m.kind = "ack"
  /\ Becomes(p, AckThrough(driver[p], m.epoch))
  /\ Consume(p)
  /\ Rest

(* A reply sent from inside the receive loop; a failure stalls the sink.   *)
Reply(p, d, m) ==
  \/ /\ p \in joined
     /\ ConsumeAndSend(p, m)
     /\ Becomes(p, d)
     /\ Rest
  \/ /\ CountFault(p)
     /\ Consume(p)
     /\ Becomes(p, [d EXCEPT !.stalled = TRUE])
     /\ UNCHANGED <<joined, restarts>>

(* A peer's ResyncRequest is answered with a snapshot of the host now. *)
ReceiveRequest(p, m) ==
  /\ m.kind = "request"
  /\ Reply(p, driver[p], Message("snapshot", driver[p].host))

ReceiveSnapshot(p, m) ==
  /\ m.kind = "snapshot"
  /\ Becomes(p, Apply(driver[p], 1 .. m.epoch, m.epoch))
  /\ Consume(p)
  /\ Rest

(* Mutant: a delta beyond a gap is applied. *)
ReceiveAnyDelta(p, m) ==
  LET d == driver[p] IN
  /\ m.kind = "delta"
  /\ IF m.epoch > d.lastEpoch
     THEN Becomes(p, Apply(d, {m.epoch}, m.epoch))
     ELSE UNCHANGED driver
  /\ Consume(p)
  /\ Rest

(* Mutant: a delta that was already applied is applied again. *)
ReceiveReplayed(p, m) ==
  /\ m.kind = "delta"
  /\ IF m.epoch - 1 <= driver[p].lastEpoch
     THEN Becomes(p, Apply(driver[p], {m.epoch}, m.epoch))
     ELSE UNCHANGED driver
  /\ Consume(p)
  /\ Rest

(* ingestDelta: the next delta applies, an old one is ignored, and so is   *)
(* one beyond a gap while a request is outstanding.                        *)
ReceiveDelta(p, m) ==
  LET d == driver[p]
      base == m.epoch - 1
  IN
  /\ m.kind = "delta"
  /\ \/ /\ base = d.lastEpoch
        /\ Becomes(p, Apply(d, {m.epoch}, m.epoch))
        /\ Consume(p)
        /\ Rest
     \/ /\ base < d.lastEpoch \/ (base > d.lastEpoch /\ d.resyncing)
        /\ UNCHANGED driver
        /\ Consume(p)
        /\ Rest
     \/ /\ base > d.lastEpoch
        /\ ~d.resyncing
        /\ Reply(p, [d EXCEPT !.resyncing = TRUE],
                 Message("request", d.lastEpoch))

(* 3. Receive: route every message the source has. *)
Receive(p) ==
  /\ driver[p].phase = "receive"
  /\ Inbound(p) # <<>>
  /\ LET m == Head(Inbound(p)) IN
       \/ ReceiveAck(p, m)
       \/ ReceiveRequest(p, m)
       \/ ReceiveSnapshot(p, m)
       \/ ReceiveDelta(p, m)

(* recv() throws on a broken carrier: tick() throws a DriverError and its  *)
(* Progress never reaches the host.                                        *)
ReceiveThrows(p) ==
  LET d == driver[p] IN
  /\ d.phase = "receive"
  /\ p \notin joined
  /\ Becomes(p, [d EXCEPT !.phase = "idle", !.dropped = @ \cup d.unfolded,
                          !.unfolded = {}])
  /\ NoSend

ReceiveDone(p) ==
  /\ driver[p].phase = "receive"
  /\ Inbound(p) = <<>>
  /\ Becomes(p, [driver[p] EXCEPT !.phase = "ack"])
  /\ NoSend

(* tick() returns and the host folds Progress.applied. *)
Return(d) ==
  [d EXCEPT !.phase = "idle", !.folded = @ \cup d.unfolded,
            !.dropped = @ \ d.unfolded, !.unfolded = {}]

(* 4. Advertise the cursor if an ack is owed; an unsent ack stays owed. *)
AckCursor(p) ==
  LET d == driver[p] IN
  /\ d.phase = "ack"
  /\ \/ /\ d.ackOwed
        /\ Delivered(p, Message("ack", d.lastEpoch))
        /\ Becomes(p, [Return(d) EXCEPT !.ackOwed = FALSE])
     \/ /\ d.ackOwed
        /\ Refused(p)
        /\ Becomes(p, Return(d))
     \/ ~d.ackOwed /\ NoSend /\ Becomes(p, Return(d))

-----------------------------------------------------------------------------
(* A carrier goes and any suffix of what was in transit goes with it. *)
CarrierGone ==
  /\ joined' = {}
  /\ \E keep \in [Peers -> UNION {0 .. Len(link[p]) : p \in Peers}] :
       /\ \A p \in Peers : keep[p] <= Len(link[p])
       /\ link' = [p \in Peers |-> SubSeq(link[p], 1, keep[p])]

(* It breaks, ... *)
Disconnect ==
  /\ joined # {}
  /\ faults < MaxFaults
  /\ faults' = faults + 1
  /\ CarrierGone
  /\ UNCHANGED <<driver, restarts>>

(* ... or a host gives it up because its driver reports a stall. *)
Abandon(p) ==
  /\ driver[p].phase = "idle"
  /\ driver[p].stalled
  /\ joined = Peers
  /\ CarrierGone
  /\ UNCHANGED <<driver, faults, restarts>>

(* Mutant: a reconnect forgets to schedule the replay. *)
OnReconnectNoReplay(d) == [d EXCEPT !.ackOwed = TRUE, !.stalled = FALSE]

(* Mutant: a reconnect does not re-advertise the cursor. *)
OnReconnectNoAck(d) == [d EXCEPT !.replayPending = TRUE, !.stalled = FALSE]

(* onReconnect(): schedule the replay and the cursor, end the stall. *)
OnReconnect(d) ==
  [d EXCEPT !.replayPending = TRUE, !.ackOwed = TRUE, !.stalled = FALSE]

(* Between ticks a host whose carrier is gone joins a new one and calls    *)
(* onReconnect.  The first to join starts it empty.                        *)
Rejoin(p) ==
  /\ driver[p].phase = "idle"
  /\ p \notin joined
  /\ joined' = joined \cup {p}
  /\ link' = IF joined = {} THEN [q \in Peers |-> <<>>] ELSE link
  /\ Becomes(p, OnReconnect(driver[p]))
  /\ UNCHANGED <<faults, restarts>>

(* A peer that has produced nothing yet restarts with an empty projection. *)
Restart(p) ==
  /\ driver[p].host = 0
  /\ restarts < MaxRestarts
  /\ restarts' = restarts + 1
  /\ Becomes(p, FreshDriver)
  /\ joined' = {}
  /\ link' = [q \in Peers |-> <<>>]
  /\ UNCHANGED faults

Tick(p) ==
  \/ StartTick(p) \/ Replay(p) \/ ReplayDone(p)
  \/ Drain(p) \/ DrainDone(p)
  \/ Receive(p) \/ ReceiveThrows(p) \/ ReceiveDone(p)
  \/ AckCursor(p)

Next ==
  \/ \E p \in Peers :
       Enqueue(p) \/ Tick(p) \/ Abandon(p) \/ Rejoin(p) \/ Restart(p)
  \/ Disconnect

Spec == Init /\ [][Next]_vars

(* Hosts tick on a cadence, and a host whose driver stalls or whose source *)
(* throws reconnects sooner or later, whatever ticks lie between.          *)
Fairness ==
  \A p \in Peers :
    WF_vars(Tick(p)) /\ SF_vars(Abandon(p) \/ Rejoin(p))

FairSpec == Spec /\ Fairness

-----------------------------------------------------------------------------
Drivers ==
  [host : Epochs, drained : Epochs, outbox : SUBSET (1 .. MaxEpoch),
   ackedThrough : Epochs, ackOwed : BOOLEAN, replayPending : BOOLEAN,
   stalled : BOOLEAN, lastEpoch : Epochs, resyncing : BOOLEAN,
   phase : Phases, todo : SUBSET (1 .. MaxEpoch),
   unfolded : SUBSET (1 .. MaxEpoch), folded : SUBSET (1 .. MaxEpoch),
   dropped : SUBSET (1 .. MaxEpoch)]

(* Every variable has its type. *)
TypeOK ==
  /\ driver \in [Peers -> Drivers]
  /\ link \in [Peers -> Seq(Messages)]
  /\ joined \subseteq Peers
  /\ faults \in 0 .. MaxFaults
  /\ restarts \in 0 .. MaxRestarts

Accounted(d) == 1 .. d.lastEpoch = d.folded \cup d.unfolded \cup d.dropped

(* The receiver's cursor covers exactly the epochs its host has folded, is *)
(* being handed in this tick, or lost with the Progress of a tick that     *)
(* threw: no other interleaving of replays, gaps, snapshots and broken     *)
(* carriers lets the cursor and the projection part.                       *)
CursorAccounted == \A p \in Peers : Accounted(driver[p])

(* A frame leaves the outbox only when the other peer's cursor covers it   *)
(* (while that peer has not restarted): an ack never prunes a frame that   *)
(* may still have to be replayed.                                          *)
RetainedUntilCovered ==
  restarts = 0 =>
    \A p \in Peers : \A e \in 1 .. driver[p].drained :
      e \in driver[p].outbox \/ e <= driver[Other(p)].lastEpoch

(* Stalling at the first refused send keeps the stream gapless across any  *)
(* number of breaks: a receiver that never restarted never sees a gap, so  *)
(* it never has to ask for a snapshot.                                     *)
NoGapWithoutRestart ==
  restarts = 0 => \A p \in Peers : ~driver[p].resyncing

(* The two above, of states that are well formed: cursors, projections and *)
(* the stream of frames agree, through breaks, refusals and restarts.      *)
Safety == TypeOK /\ CursorAccounted /\ NoGapWithoutRestart

(* Every accepted frame is eventually covered by the other peer's cursor,  *)
(* once the bounded faults stop and hosts keep ticking and reconnecting.   *)
EventuallyCovered ==
  \A p \in Producers, e \in Epochs :
    (driver[p].host = e) ~> (driver[Other(p)].lastEpoch >= e)

(* Acks get through again after any break, so the outbox does not retain   *)
(* frames for ever.                                                        *)
OutboxDrains ==
  \A p \in Producers : []<>(driver[p].outbox = {})

(* What the Progress comment and the driver's at-least-once claim say: a   *)
(* frame is either still retained for replay or has reached the host.      *)
NothingLost ==
  restarts = 0 =>
    \A p \in Peers : \A e \in 1 .. driver[p].drained :
      \/ e \in driver[p].outbox
      \/ e \in driver[Other(p)].folded \cup driver[Other(p)].unfolded

(* The connection implements the replicated prefix: a receiver's cursor     *)
(* never moves back, unless it restarts, and never past what the producer's *)
(* host accepted.                                                           *)
Prefix == INSTANCE ReplicatedPrefix WITH
  produced <- [p \in Peers |-> driver[p].host],
  replica <- [p \in Peers |-> driver[p].lastEpoch]

PrefixSpec == Prefix!Spec

Symmetry == Permutations(Peers)
=============================================================================
