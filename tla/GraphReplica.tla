---------------------------- MODULE GraphReplica ----------------------------
(* Read-only replicas of a reactive graph: a producer publishes its changes  *)
(* as Deltas and its state as Snapshots, both filtered per peer by           *)
(* PeerPermissions (src/src/index.js), and a peer folds what reaches it into *)
(* a GraphView (src/src/graph-view.js).  Frames may be lost, repeated and    *)
(* reordered; permissions change while frames are on the way.                *)
(*                                                                           *)
(* A payload is named by the epoch that published it.  The producer's own    *)
(* graph and its requests for a snapshot are outside these files: it removes *)
(* the edges of a node with the node, as the reactive graph does.            *)
EXTENDS Integers, Sequences, FiniteSets, SequencesExt, Folds

CONSTANTS Peers, GraphNodes,
          MaxEpoch,     \* bound on published deltas
          MaxGrants     \* bound on permission changes

VARIABLES history,   \* the producer's graph at each epoch
          perms,     \* peer -> operations allowed, <<kind, node>>
          grants,    \* peer -> how often its permissions changed
          wire,      \* peer -> frames sent to it
          view,      \* peer -> its GraphView
          shown      \* peer -> <<node, payload>> it was ever allowed to read (history)

replicaVars == <<history, perms, grants, wire, view, shown>>

Kinds == {"read", "write", "trigger_effect"}

Epoch == Len(history) - 1
graph == history[Len(history)]

CanRead(p, n) == <<"read", n>> \in perms[p]
\* Mutant: a filter that drops only the edges with neither end readable.
EitherEndReadable(p, e) == CanRead(p, e[1]) \/ CanRead(p, e[2])

EdgeReadable(p, e) == CanRead(p, e[1]) /\ CanRead(p, e[2])

\* Snapshot.filterReadable and Delta.filterReadable.
Readable(p, g) ==
  [nodes |-> Restrict(g.nodes, {n \in DOMAIN g.nodes : CanRead(p, n)}),
   edges |-> {e \in g.edges : EdgeReadable(p, e)}]

TargetReadable(p, op) ==
  IF op.type \in {"EdgeAdd", "EdgeRemove"} THEN EdgeReadable(p, op.edge) ELSE CanRead(p, op.node)

NodeOp(type, n, payload) == [type |-> type, node |-> n, payload |-> payload]
EdgeOp(type, e) == [type |-> type, edge |-> e]

\* What one operation does to a graph; a value for an unknown node is ignored,
\* an invalidation keeps the payload until a value comes.
ApplyOp(g, op) ==
  CASE op.type = "NodeAdd" -> [g EXCEPT !.nodes = [n \in DOMAIN @ \cup {op.node} |->
                                                     IF n = op.node THEN op.payload ELSE @[n]]]
    [] op.type \in {"CellSet", "SlotValue"} ->
         IF op.node \in DOMAIN g.nodes THEN [g EXCEPT !.nodes[op.node] = op.payload] ELSE g
    [] op.type = "NodeRemove" -> [g EXCEPT !.nodes = Restrict(@, DOMAIN @ \ {op.node})]
    [] op.type = "EdgeAdd" -> [g EXCEPT !.edges = @ \cup {op.edge}]
    [] op.type = "EdgeRemove" -> [g EXCEPT !.edges = @ \ {op.edge}]
    [] OTHER -> g

Applied(g, ops) == FoldLeft(ApplyOp, g, ops)

----------------------------------------------------------------------------
EmptyGraph == [nodes |-> <<>>, edges |-> {}]

Init ==
  /\ history = <<EmptyGraph>>
  /\ perms = [p \in Peers |-> {}]
  /\ grants = [p \in Peers |-> 0]
  /\ wire = [p \in Peers |-> {}]
  /\ view = [p \in Peers |-> [graph |-> EmptyGraph, epoch |-> 0, granted |-> 0]]
  /\ shown = [p \in Peers |-> {}]

Show(p, g, allowed) == {<<n, g.nodes[n]>> : n \in {m \in DOMAIN g.nodes : <<"read", m>> \in allowed}}

\* A delta from the current epoch to the next, sent filtered to every peer.
Publish(ops) ==
  /\ Epoch < MaxEpoch
  /\ LET next == Applied(graph, ops)
     IN /\ history' = Append(history, next)
        /\ shown' = [p \in Peers |-> shown[p] \cup Show(p, next, perms[p])]
  /\ wire' = [p \in Peers |-> wire[p] \cup
       {[type |-> "Delta", base |-> Epoch, epoch |-> Epoch + 1,
         ops |-> SelectSeq(ops, LAMBDA op : TargetReadable(p, op))]}]
  /\ UNCHANGED <<perms, grants, view>>

PublishSnapshot(p) ==
  /\ wire' = [wire EXCEPT ![p] = @ \cup
       {[type |-> "Snapshot", epoch |-> Epoch, graph |-> Readable(p, graph), granted |-> grants[p]]}]
  /\ UNCHANGED <<history, perms, grants, view, shown>>

\* The producer's changes.
AddNode(n) == n \notin DOMAIN graph.nodes /\ Publish(<<NodeOp("NodeAdd", n, Epoch + 1)>>)
SetNode(n) ==
  /\ n \in DOMAIN graph.nodes
  /\ \E type \in {"CellSet", "SlotValue", "Invalidate", "QueuePush"} : Publish(<<NodeOp(type, n, Epoch + 1)>>)
RemoveNode(n) ==
  /\ n \in DOMAIN graph.nodes
  /\ LET edges == SetToSeq({e \in graph.edges : n \in {e[1], e[2]}})
     IN Publish([i \in DOMAIN edges |-> EdgeOp("EdgeRemove", edges[i])] \o <<NodeOp("NodeRemove", n, 0)>>)
AddEdge(m, n) ==
  /\ m # n /\ {m, n} \subseteq DOMAIN graph.nodes /\ <<m, n>> \notin graph.edges
  /\ Publish(<<EdgeOp("EdgeAdd", <<m, n>>)>>)
RemoveEdge(e) == e \in graph.edges /\ Publish(<<EdgeOp("EdgeRemove", e)>>)

----------------------------------------------------------------------------
(* PeerPermissions: allow, revoke, revokePeer. *)

SetPermissions(p, allowed) ==
  /\ grants[p] < MaxGrants
  /\ allowed # perms[p]
  /\ perms' = [perms EXCEPT ![p] = allowed]
  /\ grants' = [grants EXCEPT ![p] = @ + 1]
  /\ shown' = [shown EXCEPT ![p] = @ \cup Show(p, graph, allowed)]
  /\ UNCHANGED <<history, wire, view>>

Allow(p, kind, n) == SetPermissions(p, perms[p] \cup {<<kind, n>>})
Revoke(p, kind, n) == SetPermissions(p, perms[p] \ {<<kind, n>>})
RevokePeer(p) == SetPermissions(p, {})

----------------------------------------------------------------------------
(* The peer: Delta.applyStatus lets only the next delta through to           *)
(* GraphView.applyDelta; anything else asks for a snapshot, which replaces   *)
(* the view.                                                                 *)

\* Mutant: deltas accepted from any base below their epoch.
NotOlder(frame, epoch) == frame.epoch > epoch

IsNextAfter(frame, epoch) == frame.base = epoch /\ frame.epoch = frame.base + 1

\* A delta with a queue operation is refused as a whole.
Projectable(frame) == \A i \in DOMAIN frame.ops : frame.ops[i].type # "QueuePush"

ApplyDelta(p, frame) ==
  /\ frame \in wire[p] /\ frame.type = "Delta"
  /\ IsNextAfter(frame, view[p].epoch)
  /\ Projectable(frame)
  /\ view' = [view EXCEPT ![p].graph = Applied(@, frame.ops), ![p].epoch = frame.epoch]
  /\ UNCHANGED <<history, perms, grants, wire, shown>>

ApplySnapshot(p, frame) ==
  /\ frame \in wire[p] /\ frame.type = "Snapshot"
  /\ view' = [view EXCEPT ![p] = [graph |-> frame.graph, epoch |-> frame.epoch, granted |-> frame.granted]]
  /\ UNCHANGED <<history, perms, grants, wire, shown>>

Next ==
  \/ \E n \in GraphNodes : AddNode(n) \/ SetNode(n) \/ RemoveNode(n) \/ \E m \in GraphNodes : AddEdge(m, n)
  \/ \E e \in graph.edges : RemoveEdge(e)
  \/ \E p \in Peers :
       \/ PublishSnapshot(p)
       \/ RevokePeer(p)
       \/ \E kind \in {"read"}, n \in GraphNodes : Allow(p, kind, n) \/ Revoke(p, kind, n)
       \/ \E frame \in wire[p] : ApplyDelta(p, frame) \/ ApplySnapshot(p, frame)

Spec == Init /\ [][Next]_replicaVars

----------------------------------------------------------------------------
TypeOK ==
  \A p \in Peers : /\ perms[p] \subseteq Kinds \X GraphNodes
                   /\ view[p].epoch \in 0..Epoch
                   /\ DOMAIN view[p].graph.nodes \subseteq GraphNodes

(* While a peer's permissions stay as they were for the snapshot it started  *)
(* from, its view is the readable part of the producer's graph at the epoch  *)
(* it reports, whatever was lost, repeated or reordered on the way.          *)
ViewMatchesEpoch ==
  \A p \in Peers : view[p].granted = grants[p]
    => view[p].graph = Readable(p, history[view[p].epoch + 1])

(* Nothing reaches a view that its peer was not allowed to read when it was  *)
(* the producer's value, and no edge shows a node that is hidden from it.    *)
OnlyReadableShown ==
  \A p \in Peers :
    /\ \A n \in DOMAIN view[p].graph.nodes : <<n, view[p].graph.nodes[n]>> \in shown[p]
    /\ \A e \in view[p].graph.edges, i \in 1..2 : \E s \in shown[p] : s[1] = e[i]
=============================================================================
