----------------------------- MODULE MCIngress -----------------------------
(***************************************************************************)
(* Model-checking instances of everything that takes in, queues and routes *)
(* messages: the ingress core under a transport and under its cells, the   *)
(* queue family, the command plane, the replicated graph view and the      *)
(* signaling room.  The system that runs is picked by `which`, the others  *)
(* stay at rest.                                                           *)
(***************************************************************************)
EXTENDS IngressPump, TLC

CONSTANTS Parts, k1, p1, p2, r1, r2, w1, w2, Nil, Gone

VARIABLES
  which,
  shell, memo, running, seen,
  flavour, store, prev, derived, task, realm, coreLock, ctxLock, pushes,
  log, sub, stream, received,
  queued, inFlight, dead, nextItem, nextDelivery, acked,
  entries, taken, conflicts, outcomes, wire, offered,
  history, perms, grants, link, view, shown,
  byConn, allowed, toServer, toClient, socket, sentFrames, known

-----------------------------------------------------------------------------
(* The instances and their bounds. *)

(* The cells are over the core of this module; bound: their producers send *)
(* the first two sequence numbers, stamped early.                          *)
EarlyEnvelopes == {e \in Envelopes : e.sequence <= 1 /\ e.stampedAt <= 1}

Cells == INSTANCE IngressCells WITH
  Shells <- {"sync", "async"}, Consulted <- {"value", "readiness"}, Inputs <- EarlyEnvelopes

Queue == INSTANCE QueueCells WITH
  Values <- {p1, p2}, Capacity <- 2, Realms <- {r1, r2}, MaxPushes <- 3, memo <- derived,
  Subscribers <- {r1, r2}, MaxOffset <- 3

Work == INSTANCE WorkQueue WITH
  Workers <- {w1, w2}, MaxItems <- 2, MaxDeliveries <- 2, VisibilityTimeout <- 1,
  MaxTime <- 1, pending <- queued

Commands == INSTANCE CommandPlane WITH
  Parties <- {"caller", "mirror"}, Caller <- "caller", Commands <- {"c"},
  Generations <- {1, 2}, Kinds <- {"started"}, Believed <- {1},
  Verdicts <- {"accepted", "applied", "cancelled"}, MaxSent <- 4,
  seen <- taken, receipts <- outcomes, sent <- wire

Replica == INSTANCE GraphReplica WITH
  Peers <- {"p"}, GraphNodes <- {"m", "n"}, MaxEpoch <- 3, MaxGrants <- 1, wire <- link

Room == INSTANCE Signaling WITH
  Conns <- {"c1", "c2", "c3"}, Peers <- {1, 2}, Allowlist <- TRUE, MaxFrames <- 3,
  grants <- allowed

-----------------------------------------------------------------------------
(* One system runs. *)

cellVars == <<shell, memo, running, seen>>
queueVars == <<flavour, store, prev, derived, task, realm, coreLock, ctxLock, pushes>>
topicVars == <<log, sub, stream, received>>
workVars == <<queued, inFlight, dead, nextItem, nextDelivery, acked>>
commandVars == <<entries, taken, conflicts, outcomes, wire, offered>>
replicaVars == <<history, perms, grants, link, view, shown>>
roomVars == <<byConn, allowed, toServer, toClient, socket, sentFrames, known>>

familyVars == <<queueVars, topicVars, workVars>>
messageVars == <<commandVars, replicaVars, roomVars>>
systemVars == <<which, allVars, cellVars, familyVars, messageVars>>

SystemInit ==
  /\ which \in Parts
  /\ PumpInit /\ (which # "core" => driver = "transport" /\ overflow = "conflate")
  /\ Cells!CellInit /\ (which # "cells" => shell = "sync")
  /\ Queue!QueueInit /\ (which # "queue" => flavour = "sync")
  /\ Queue!TopicInit /\ Work!Init /\ Commands!Init /\ Replica!Init /\ Room!Init

CoreStep ==
  /\ which = "core" /\ PumpNext
  /\ UNCHANGED <<which, cellVars, familyVars, messageVars>>

CellStep ==
  /\ which = "cells" /\ Cells!CellNext
  /\ UNCHANGED <<which, pumpVars, familyVars, messageVars>>

QueueStep ==
  /\ \/ which = "queue" /\ Queue!QueueNext /\ UNCHANGED <<topicVars, workVars>>
     \/ which = "topic" /\ Queue!TopicNext /\ UNCHANGED <<queueVars, workVars>>
     \/ which = "work" /\ Work!Next /\ UNCHANGED <<queueVars, topicVars>>
  /\ UNCHANGED <<which, allVars, cellVars, messageVars>>

MessageStep ==
  /\ \/ which = "commands" /\ Commands!Next /\ UNCHANGED <<replicaVars, roomVars>>
     \/ which = "replica" /\ Replica!Next /\ UNCHANGED <<commandVars, roomVars>>
     \/ which = "room" /\ Room!Next /\ UNCHANGED <<commandVars, replicaVars>>
  /\ UNCHANGED <<which, allVars, cellVars, familyVars>>

SystemNext == CoreStep \/ CellStep \/ QueueStep \/ MessageStep

SystemSpec == SystemInit /\ [][SystemNext]_systemVars

-----------------------------------------------------------------------------

(* A queue keeps what it took: an item is in one place until it is          *)
(* acknowledged or dead, a durable subscriber is given every offset in      *)
(* order, and two realms over one queue never wait for each other's lock.   *)
QueuesKeep ==
  /\ Queue!TypeOK /\ Queue!DurableLosesNothing
  /\ Work!TypeOK /\ Work!ItemInOnePlace /\ Work!DeadAtTheLimit
  /\ Queue!LocksDoNotCross

(* Lost, repeated and reordered messages leave both ends agreeing: command  *)
(* projections report conflicting outcomes, a graph view is the readable    *)
(* part of the graph at its epoch, a client knows exactly who is in the     *)
(* room and hears only from those.                                          *)
MessagesAgree ==
  /\ Commands!TypeOK /\ Commands!ConflictIsReported /\ Commands!ReceiptLogAgrees
  /\ Replica!TypeOK /\ Replica!ViewMatchesEpoch /\ Replica!OnlyReadableShown
  /\ Room!TypeOK /\ Room!RosterAgrees /\ Room!SignalsInSession

(* What was delivered or decided is not taken back: no watermark or fence   *)
(* of a live ingress key, and no terminal status of a command.              *)
NothingIsTakenBack == NoRewind /\ Commands!TerminalIsFinal
=============================================================================
