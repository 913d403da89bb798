-------------------------- MODULE MCLatestDurable --------------------------
(***************************************************************************)
(* A model-checking instance of everything that keeps or rebuilds state    *)
(* across a failure: the projection core under its readers, and, each on   *)
(* its own, the relay link and its durable tail, the IndexedDB outbox, the *)
(* blob transport, the durable client and the replay harness.  The system  *)
(* that runs is picked by `which` and the others stay at rest, so one run  *)
(* checks the properties of all.                                           *)
(*                                                                         *)
(* An empty entry of the core is the model value None, so that cached      *)
(* values and markers are comparable.                                      *)
(***************************************************************************)
EXTENDS LatestDurable, Sequences, TLC

CONSTANTS k1, v1, v2, Parts

VARIABLES
  which,
  policy, overflow, highWater, outbox, inbox, wire, hand, credits, tokens,
  gathered, app, ops, accepted,
  mode, pages, openFill, nextId, acked, windows, crashes, delivered,
  logs, strides, replayed, phase, samples, truth, verdict,
  scopes, latest, positions, identities, messages, observed, receipts, reply, folded,
  frames, cursor, frameTxs, cursorTxs, handle, committed, spent,
  memory, named, writing, owner, job, reading, arena, held, descriptors, views

-----------------------------------------------------------------------------
(* The instances and their bounds. *)

Relays == INSTANCE Relay WITH
  MaxOps <- 3, MaxCredits <- 2, FrameSize <- 2, WindowOps <- 2, Tokens <- 2, HighWaters <- {1, 2},
  Modes <- {"AppendCompact"}, PageSize <- 2, MaxWindows <- 4, MaxCrashes <- 1

(* Small values of every type the encoding tells apart, alone, in lists and *)
(* in maps whose entries come in either order.                              *)
Atoms ==
  {<<"n", <<>> >>, <<"b", TRUE>>, <<"i", 1>>, <<"f", 1>>,
   <<"s", <<1>> >>, <<"s", <<2>> >>, <<"s", <<1, 2>> >>, <<"u", <<>> >>}

Structures ==
  LET pair(t) == {<<t, <<x, y>> >> : x, y \in {<<"i", 1>>, <<"s", <<1>> >>}}
      entry(k, x) == <<<<"s", k>>, x>>
      nil == <<"l", <<>> >>
      nest(x) == <<"l", <<x>> >>
  IN {nil, nest(nil), nest(nest(nil)), <<"l", <<nil, nil>> >>} \cup pair("l") \cup pair("t")
     \cup {<<"m", <<entry(<<1>>, x), entry(<<2>>, y)>> >> : x, y \in {<<"i", 1>>, <<"b", TRUE>>}}
     \cup {<<"m", <<entry(<<2>>, x), entry(<<1>>, y)>> >> : x, y \in {<<"i", 1>>, <<"b", TRUE>>}}

Replays == INSTANCE Replay WITH
  Logs <- {<<>>, << <<0, 7>> >>, << <<0, 7>>, <<1, 7>> >>, << <<0, 7>>, <<3, 7>> >>},
  Strides <- {1, 2}, Labels <- {"x"}, Atoms <- Atoms, Structures <- Structures,
  Observable <- {<<"i", 1>>, <<"f", 1>>}, applied <- replayed

Clients == INSTANCE DurableClient WITH
  Owners <- {"o"}, Messages <- {"m"}, Fingerprints <- {"f", "g"}, ReorderWindow <- 2,
  MaxGeneration <- 2, MaxPosition <- 3, MaxObserved <- 2,
  applied <- positions, delivered <- observed, verdict <- reply

Outboxes == INSTANCE IndexedDbOutbox WITH
  Handles <- {"tab", "twin"}, MaxEpoch <- 2, MaxAcks <- 2, MaxAborts <- 1, MaxOpens <- 3

Blobs == INSTANCE BlobTransport WITH
  Payloads <- {<<1>>, <<1, 1>>, <<2, 1, 2>>}, Threshold <- 2, Capacity <- 12, Regions <- 2,
  FreshEpochs <- TRUE, MaxBlobs <- 2, MaxEpoch <- 1, issued <- descriptors

-----------------------------------------------------------------------------
(* One system runs. *)

relayVars ==
  <<policy, overflow, highWater, outbox, inbox, wire, hand, credits, tokens,
    gathered, app, ops, accepted,
    mode, pages, openFill, nextId, acked, windows, crashes, delivered>>
replayVars == <<logs, strides, replayed, phase, samples, truth, verdict>>
clientVars ==
  <<scopes, latest, positions, identities, messages, observed, receipts, reply, folded>>
outboxVars == <<frames, cursor, frameTxs, cursorTxs, handle, committed, spent>>
transportVars ==
  <<memory, named, writing, owner, job, reading, arena, held, descriptors, views>>

allVars == <<which, shellVars, relayVars, replayVars, clientVars, outboxVars, transportVars>>

SystemInit ==
  /\ which \in Parts
  /\ ShellInit /\ (which # "core" => generation = 0)
  /\ Relays!Init /\ (which # "link" => policy = "Max" /\ overflow = "Block" /\ highWater = 1)
  /\ Replays!Init /\ (which # "replay" => logs = << <<>>, <<>> >> /\ strides = <<1, 1>>)
  /\ Clients!Init /\ Outboxes!Init /\ Blobs!Init

CoreStep ==
  /\ which = "core" /\ ShellNext
  /\ UNCHANGED <<which, relayVars, replayVars, clientVars, outboxVars, transportVars>>

RelayStep ==
  /\ \/ which = "link" /\ Relays!LinkNext
     \/ which = "tail" /\ Relays!TailNext
  /\ UNCHANGED <<which, shellVars, replayVars, clientVars, outboxVars, transportVars>>

ReplayStep ==
  /\ which = "replay" /\ Replays!Next
  /\ UNCHANGED <<which, shellVars, relayVars, clientVars, outboxVars, transportVars>>

ClientStep ==
  /\ \/ which = "identities" /\ Clients!IdentityNext
     \/ which = "projections" /\ Clients!ProjectionNext
  /\ UNCHANGED <<which, shellVars, relayVars, replayVars, outboxVars, transportVars>>

OutboxStep ==
  /\ which = "outbox" /\ Outboxes!Next
  /\ UNCHANGED <<which, shellVars, relayVars, replayVars, clientVars, transportVars>>

BlobStep ==
  /\ \/ which = "arena" /\ Blobs!ArenaNext
     \/ which = "region" /\ Blobs!RegionNext
  /\ UNCHANGED <<which, shellVars, relayVars, replayVars, clientVars, outboxVars>>

SystemNext ==
  CoreStep \/ RelayStep \/ ReplayStep \/ ClientStep \/ OutboxStep \/ BlobStep

(* Only the core's liveness is stated, under the fairness of its worker. *)
FairSystemSpec == SystemInit /\ [][SystemNext]_allVars /\ Fairness

-----------------------------------------------------------------------------
(* A blob descriptor resolves to the payload it was issued for or to       *)
(* nothing, whatever was freed, reused, recreated or crashed in between; a *)
(* view keeps its bytes; a blob that is held is not freed.                 *)
BlobsResolve ==
  /\ Blobs!TypeOK /\ Blobs!ResolvesToItsPayload
  /\ Blobs!ViewsAreStable /\ Blobs!OwnedIsKept

(* What was taken over for delivery is kept until it was delivered: frames *)
(* in the IndexedDB outbox through aborted transactions and dead tabs,     *)
(* windows in the durable tail through crashes, operations in the relay    *)
(* link whatever it conflates.                                             *)
StorageKeeps ==
  /\ Outboxes!TypeOK /\ Outboxes!UnackedSurvive /\ Outboxes!MirrorIsHonest
  /\ Relays!TypeOK /\ Relays!SpilledIsKept
  /\ Relays!RelayConverges /\ Relays!CreditsBoundInbox

(* State rebuilt from a log is the state: the durable client shows the     *)
(* newest generation's newest position and exactly what it folded, and a   *)
(* replay is certified exactly if it sampled what was recorded.            *)
RebuiltIsRight ==
  /\ Clients!TypeOK /\ Clients!ShowsTheNewest /\ Clients!AppliedAsFolded
  /\ Replays!TypeOK /\ Replays!VerdictIsRight

(* A durable cursor never runs back and a descriptor that went stale never *)
(* resolves again.                                                         *)
NothingRunsBack == Outboxes!CursorNeverBack /\ Blobs!StaleForGood
=============================================================================
