----------------------------- MODULE CrdtPlane -----------------------------
(***************************************************************************)
(* CrdtPlaneRuntime: replicas of last-writer-wins cells, stamped by a      *)
(* hybrid logical clock and kept together by anti-entropy frames.  A local *)
(* edit is broadcast with the replica's frontier; syncFrame() ships the    *)
(* whole op log, syncReply() what a requester's frontier does not cover.   *)
(*                                                                         *)
(* Frames are lost, duplicated, delayed and reordered: net only grows, and *)
(* a frame is delivered any number of times, or never.  The clock a host   *)
(* passes in is any reading, also one older than the last.                 *)
(*                                                                         *)
(* Every op is keyed.  A document key names the same node everywhere; a    *)
(* family key gets a node of its own on each replica that hears of it.     *)
(***************************************************************************)
EXTENDS Integers, Sequences, FiniteSets, SequencesExt, FiniteSetsExt, Folds

CONSTANTS
  Peers,        \* the peer ids, ordered
  DocKeys,      \* keys the registered replicas hold under node 1
  FamilyKeys,   \* keys of the registered family
  Registered,   \* the peers that register the document keys at start
  Values,
  MaxWall,      \* bound: clock readings
  MaxLogical,   \* bound: logical ticks within one wall reading
  MaxUpdates,   \* bound: local edits
  MaxFrames     \* bound: syncFrame and syncReply frames

ASSUME PeersAssumption ==
  Peers \subseteq Nat /\ IsFiniteSet(Peers) /\ Registered \subseteq Peers
ASSUME KeysAssumption ==
  /\ IsFiniteSet(DocKeys) /\ Cardinality(DocKeys) <= 1
  /\ IsFiniteSet(FamilyKeys)
  /\ DocKeys \cap FamilyKeys = {}
ASSUME BoundsAssumption ==
  {MaxWall, MaxLogical, MaxUpdates, MaxFrames} \subseteq Nat

VARIABLES
  replica,  \* peer -> the fields of its CrdtPlaneRuntime
  net,      \* every frame sent so far
  updates, frames

vars == <<replica, net, updates, frames>>

Keys == DocKeys \cup FamilyKeys
DocNode == 1
FamilyBase == 2
NodeIds == DocNode .. (FamilyBase + Cardinality(Keys))

Readings == 1 .. MaxWall
Stamps == [wall : Readings, logical : 0 .. MaxLogical, peer : Peers]

(* compareWireStamp(s, t) < 0. *)
Before(s, t) ==
  \/ s.wall < t.wall
  \/ s.wall = t.wall /\ s.logical < t.logical
  \/ s.wall = t.wall /\ s.logical = t.logical /\ s.peer < t.peer

Newest(ops) == CHOOSE o \in ops : \A p \in ops : ~Before(o.stamp, p.stamp)

NoOp == [node |-> 0, key |-> "none"]

(* new CrdtPlaneRuntime(peer), and register() for those that do.  silent   *)
(* is not in the code: the ops a cell took without the log knowing.        *)
NewReplica(r) ==
  LET docs == IF r \in Registered THEN DocKeys ELSE {} IN
  [peer |-> r, clock |-> [wall |-> 0, logical |-> 0],
   keyToNode |-> [k \in docs |-> DocNode],
   cells |-> [n \in {DocNode : k \in docs} |-> NoOp],
   nextFamilyNode |-> FamilyBase,
   ops |-> <<>>, frontier |-> <<>>, silent |-> {}]

Init ==
  /\ replica = [r \in Peers |-> NewReplica(r)]
  /\ net = {}
  /\ updates = 0
  /\ frames = 0

-----------------------------------------------------------------------------
(* Hlc.send: the reading if it is ahead, otherwise the next logical tick. *)
Send(c, now) ==
  IF now > c.wall THEN [wall |-> now, logical |-> 0]
  ELSE [c EXCEPT !.logical = @ + 1]

(* Mutant: a remote stamp with the same wall reading is not taken over. *)
RecvWallOnly(c, s, now) ==
  LET wall == Max({c.wall, s.wall, now}) IN
  [wall |-> wall, logical |-> IF wall = c.wall THEN c.logical + 1 ELSE 0]

(* Hlc.recv: the latest of the three readings, and one tick past whatever  *)
(* already used it.                                                        *)
Recv(c, s, now) ==
  LET wall == Max({c.wall, s.wall, now})
      used == {x.logical : x \in {y \in {c, [wall |-> s.wall, logical |-> s.logical]} :
                                    y.wall = wall}}
  IN [wall |-> wall, logical |-> Max({-1} \cup used) + 1]

(* Map.set. *)
Put(map, x, v) == [y \in DOMAIN map \cup {x} |-> IF y = x THEN v ELSE map[y]]

(* Mutant: the frontier follows the last stamp, not the newest. *)
ObserveLast(d, s) == [d EXCEPT !.frontier = Put(@, s.peer, s)]

(* Mutant: the frontier is kept under the observer. *)
ObserveAsOwn(d, s) == [d EXCEPT !.frontier = Put(@, d.peer, s)]

(* #observeStamp. *)
Observe(d, s) ==
  IF s.peer \in DOMAIN d.frontier /\ ~Before(d.frontier[s.peer], s) THEN d
  ELSE [d EXCEPT !.frontier = Put(@, s.peer, s)]

(* A stamp heard from the network also moves the clock, unless it is one's *)
(* own.                                                                    *)
Hear(d, s, now) ==
  Observe(IF s.peer = d.peer THEN d
          ELSE [d EXCEPT !.clock = Recv(@, s, now)], s)

(* Mutant: the last op to arrive wins. *)
MergeArrival(cell, op) == op

(* LwwStateCell.merge: the newest stamp wins. *)
Merge(cell, op) ==
  IF cell = NoOp \/ Before(cell.stamp, op.stamp) THEN op ELSE cell

(* What merge returns: the value, not merely the stamp, changed. *)
ValueChanges(cell, op) ==
  \/ cell = NoOp
  \/ Before(cell.stamp, op.stamp) /\ cell.state # op.state

(* #mintFamilyNode: the next private id that is not in use. *)
Mint(d) == Min({n \in NodeIds : n >= d.nextFamilyNode /\ n \notin DOMAIN d.cells})

(* #cellFor: an empty cell unless the node has one. *)
WithCell(cells, node) == IF node \in DOMAIN cells THEN cells ELSE Put(cells, node, NoOp)

(* Mutant: an op's own node id is used whatever the family says. *)
MaterializeRemoteNode(d, key, node) ==
  IF key \in DOMAIN d.keyToNode THEN d
  ELSE [d EXCEPT !.keyToNode = Put(@, key, node),
                 !.cells = WithCell(@, node)]

(* The entry of a key: known, or minted if it is of the family (in         *)
(* familySetLww and #resolveNodeForFamily), or else adopted with the node  *)
(* the op names (#resolveNode, #cellFor).                                  *)
Materialize(d, key, node) ==
  IF key \in DOMAIN d.keyToNode THEN d
  ELSE LET n == IF key \in FamilyKeys THEN Mint(d) ELSE node IN
       [d EXCEPT !.keyToNode = Put(@, key, n),
                 !.cells = WithCell(@, n),
                 !.nextFamilyNode = IF key \in FamilyKeys THEN n + 1 ELSE @]

-----------------------------------------------------------------------------
(* One op of a frame: once per (node, stamp), then heard, logged, merged.  *)
IngestOp(d, op, now) ==
  IF \E i \in DOMAIN d.ops : d.ops[i].node = op.node /\ d.ops[i].stamp = op.stamp
  THEN d
  ELSE LET e == Materialize(Hear(d, op.stamp, now), op.key, op.node)
       IN [e EXCEPT !.ops = Append(@, op),
                    !.cells[e.keyToNode[op.key]] = Merge(@, op)]

(* ingest(sync, now): the frontier entries, by peer, then the ops. *)
HearAll(d, frontier, now) ==
  MapThenFoldSet(LAMBDA p, e : Hear(e, frontier[p], now), d, LAMBDA p : p,
                 LAMBDA S : Max(S), DOMAIN frontier)

IngestAll(d, ops, now) == FoldLeft(LAMBDA e, op : IngestOp(e, op, now), d, ops)

Ingest(d, sync, now) == IngestAll(HearAll(d, sync.frontier, now), sync.ops, now)

Frame(d, ops) ==
  [from |-> d.peer, frontier |-> d.frontier, ops |-> ops,
   gapFree |-> TRUE, left |-> {}]

(* localUpdate, and familySetLww which materializes first: stamp, merge,   *)
(* and log and broadcast the op if the value changed.                      *)
LocalUpdate(r, key, state, now) ==
  LET d == IF key \in FamilyKeys THEN Materialize(replica[r], key, 0)
           ELSE replica[r]
      clock == Send(d.clock, now)
      node == d.keyToNode[key]
      op == [node |-> node, key |-> key, state |-> state,
             stamp |-> [wall |-> clock.wall, logical |-> clock.logical,
                        peer |-> r]]
      merged == [d EXCEPT !.clock = clock, !.cells[node] = Merge(@, op)]
      logged == Observe([merged EXCEPT !.ops = Append(@, op)], op.stamp)
  IN
  /\ updates < MaxUpdates
  /\ updates' = updates + 1
  /\ key \in FamilyKeys \cup DOMAIN replica[r].keyToNode
  /\ clock.logical <= MaxLogical
  /\ IF ValueChanges(d.cells[node], op)
     THEN /\ replica' = [replica EXCEPT ![r] = logged]
          /\ net' = net \cup {Frame(logged, <<op>>)}
     ELSE /\ replica' = [replica EXCEPT ![r] =
                           [merged EXCEPT !.silent = @ \cup {op}]]
          /\ UNCHANGED net
  /\ UNCHANGED frames

(* A frame arrives; it stays in net, to arrive again. *)
Deliver(r, m, now) ==
  LET d == Ingest(replica[r], m, now) IN
  /\ m.from # r
  /\ d.clock.logical <= MaxLogical
  /\ replica' = [replica EXCEPT ![r] = d]
  /\ UNCHANGED <<net, updates, frames>>

Emit(m) ==
  /\ frames < MaxFrames
  /\ frames' = frames + 1
  /\ net' = net \cup {m}
  /\ UNCHANGED <<replica, updates>>

(* syncFrame(). *)
SyncFrame(r) == Emit(Frame(replica[r], replica[r].ops))

(* Mutant: a peer the requester has not heard of is left out. *)
SinceKnownOnly(d, since) ==
  FoldLeft(LAMBDA kept, op :
    IF op.stamp.peer \in DOMAIN since /\ Before(since[op.stamp.peer], op.stamp)
    THEN Append(kept, op) ELSE kept, <<>>, d.ops)

(* What a frontier names of a stamp's peer is not older than the stamp. *)
Covers(frontier, s) ==
  s.peer \in DOMAIN frontier /\ ~Before(frontier[s.peer], s)

(* syncFrameSince: the ops newer than what the frontier names. *)
Since(d, since) ==
  FoldLeft(LAMBDA kept, op : IF Covers(since, op.stamp) THEN kept ELSE Append(kept, op),
           <<>>, d.ops)

Issued == UNION {ToSet(replica[r].ops) : r \in Peers}

(* A frame whose ops are all those its frontier covers. *)
GapFree(m) ==
  \A op \in Issued : Covers(m.frontier, op.stamp) => op \in ToSet(m.ops)

(* syncReply(request).  left, the ops held here that neither frame has,    *)
(* and gapFree are not in the code.                                        *)
SyncReply(r, request) ==
  LET ops == Since(replica[r], request.frontier) IN
  /\ request.from # r
  /\ Emit([Frame(replica[r], ops) EXCEPT
       !.gapFree = GapFree(request),
       !.left = ToSet(replica[r].ops) \ (ToSet(request.ops) \cup ToSet(ops))])

Next ==
  \E r \in Peers :
    \/ \E k \in Keys, v \in Values, now \in Readings : LocalUpdate(r, k, v, now)
    \/ \E m \in net, now \in Readings : Deliver(r, m, now)
    \/ SyncFrame(r)
    \/ \E m \in net : SyncReply(r, m)

Spec == Init /\ [][Next]_vars

-----------------------------------------------------------------------------
(* Every variable has its type; a frontier entry is a stamp of its peer. *)
TypeOK ==
  /\ \A r \in Peers :
       LET d == replica[r] IN
       /\ d.clock.wall \in 0 .. MaxWall /\ d.clock.logical \in 0 .. MaxLogical
       /\ DOMAIN d.keyToNode \subseteq Keys
       /\ DOMAIN d.cells \subseteq NodeIds
       /\ \A i \in DOMAIN d.ops : d.ops[i].stamp \in Stamps
       /\ DOMAIN d.frontier \subseteq Peers
       /\ \A p \in DOMAIN d.frontier :
            d.frontier[p] \in Stamps /\ d.frontier[p].peer = p
  /\ updates \in 0 .. MaxUpdates
  /\ frames \in 0 .. MaxFrames

(* Each cell holds the newest op of its key among all the replica has      *)
(* folded, in whatever order, duplication and grouping they came, and the  *)
(* edits it kept to itself.                                                *)
CellIsNewest ==
  \A r \in Peers : \A k \in DOMAIN replica[r].keyToNode :
    LET d == replica[r]
        folded == {o \in ToSet(d.ops) \cup d.silent : o.key = k}
    IN d.cells[d.keyToNode[k]] = IF folded = {} THEN NoOp ELSE Newest(folded)

(* A replica's own edit is stamped after everything in its log, so that it *)
(* wins everywhere over what its author had seen, even when its clock      *)
(* stands still or runs back.                                              *)
EditsFollowTheirPast ==
  \A r \in Peers : \A i, j \in DOMAIN replica[r].ops :
    LET ops == replica[r].ops IN
    i < j /\ ops[j].stamp.peer = r => Before(ops[i].stamp, ops[j].stamp)

(* No two keys share a node, although replicas mint the same private ids   *)
(* for different family keys, and a cell holds only ops of its key.        *)
KeysKeepApart ==
  \A r \in Peers :
    LET d == replica[r] IN
    /\ \A k, l \in DOMAIN d.keyToNode :
         d.keyToNode[k] = d.keyToNode[l] => k = l
    /\ \A k \in DOMAIN d.keyToNode :
         d.cells[d.keyToNode[k]].key \in {k, NoOp.key}

(* The frontier covers every op in the log, and names only stamps that     *)
(* their peers have really issued.                                         *)
FrontierIsHonest ==
  \A r \in Peers :
    LET d == replica[r] IN
    /\ \A i \in DOMAIN d.ops : Covers(d.frontier, d.ops[i].stamp)
    /\ \A p \in DOMAIN d.frontier :
         \E op \in ToSet(replica[p].ops) : op.stamp = d.frontier[p]

(* A reply to a request without gaps brings the requester everything the   *)
(* replier holds.                                                          *)
ReplyCompletes == \A m \in net : m.gapFree => m.left = {}

(* The cells of well formed replicas follow from what was folded, each key *)
(* on its own.                                                             *)
CellsFollow == TypeOK /\ CellIsNewest /\ KeysKeepApart

(* Frontiers and the replies made from them leave nothing out.             *)
FramesAreHonest == FrontierIsHonest /\ ReplyCompletes

(* What the resolution rule says: the greatest stamp wins, so replicas     *)
(* that have folded the same ops agree.                                    *)
EqualLogsAgree ==
  \A r, q \in Peers :
    ToSet(replica[r].ops) = ToSet(replica[q].ops) =>
      \A k \in DOMAIN replica[r].keyToNode \cap DOMAIN replica[q].keyToNode :
        LET cr == replica[r].cells[replica[r].keyToNode[k]]
            cq == replica[q].cells[replica[q].keyToNode[k]]
        IN cr # NoOp /\ cq # NoOp => cr.state = cq.state
=============================================================================
