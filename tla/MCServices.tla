----------------------------- MODULE MCServices -----------------------------
(***************************************************************************)
(* Model-checking instances of what runs against a clock or an event loop: *)
(* coordination, the asynchronous graph, the stream operators, the timers  *)
(* and barriers, the resilience policies, membership and presence, state   *)
(* charts; and of the systems whose progress is checked besides their      *)
(* safety: the graph, reliable sync, the ingress pump, the work queue and  *)
(* the shared mutex.                                                       *)
(* The system that runs is picked by `which`, the others stay at rest.     *)
(***************************************************************************)
EXTENDS Coordination, AsyncGraph, TLC

CONSTANTS
  Parts,
  s1, s2, a, b, e1, r1, w1

VARIABLES
  which,
  streamNow, ticked, inputs, timer, interval, cron, debounce, leading, trailing,
  counted, timed, drawn, count, time, sliding, session,
  deadlineTimer, timeout, polls, barrier, observers, answers, fired, raised, held,
  callNow, breaker, inUse, call, attempt, delay, cells, since, trips,
  peerNow, calls, peers, peerSet, told, entries, present,
  chart, config, history,
  driver, link, joined, faults, restarts,
  queued, inFlight, dead, nextItem, nextDelivery, acked,
  word, depth, pc, parked,
  overflow, scopes, observedNow, receipts, change,
  sent, inbound, batch, touched, pumping, replayRequests, losses, drivenBy

-----------------------------------------------------------------------------
(* The instances and their bounds. *)

(* b reads s1 directly and again through a, and s2 after that, so a write  *)
(* between two of its reads, or a batch of both, could tear it.            *)
Diamond == a :> <<s1>> @@ b :> <<s1, a, s2>> @@ r1 :> <<b>>

Single == a :> <<s1>> @@ e1 :> <<a>> @@ r1 :> <<a>>

Stream == INSTANCE Streams WITH
  MaxTime <- 5, MaxInputs <- 3, FireAt <- 3, Period <- 2, Cycle <- 3, Offsets <- {0, 2},
  Quiet <- 1, Window <- 2, Gap <- 1, Size <- 2, Slide <- 1, now <- streamNow

Deadline == INSTANCE Deadlines WITH
  Polls <- {"p", "q"}, MaxNow <- 2, RequiredRevision <- 1, MaxRevision <- 2, timer <- deadlineTimer

Service == INSTANCE Resilience WITH
  Calls <- {1, 2, 3}, Threshold <- 2, WindowSize <- 3, ResetTimeout <- 2, Capacity <- 2,
  CallTimeout <- 2, Base <- 1, Cap <- 3, MaxTime <- 5, MaxAttempt <- 3, now <- callNow

Members == INSTANCE Membership WITH
  Peers <- {1, 2}, MaxTime <- 5, SuspectTimeout <- 2, MaxSamples <- 2, Ttl <- 2,
  MaxCalls <- 2, now <- peerNow

(* A compound root over a leaf and a parallel state of two regions, with a *)
(* deep history below the root's second child and a shallow one below a    *)
(* region.                                                                 *)
ChartDoc ==
  <<"root", "off", "on", "hd", "par", "r1", "a1", "a2", "hs", "r2", "b1", "b2">>
ChartParent ==
  [s \in {"root", "off", "on"} |-> "root"] @@ [s \in {"hd", "par"} |-> "on"]
  @@ [s \in {"r1", "r2"} |-> "par"] @@ [s \in {"a1", "a2", "hs"} |-> "r1"]
  @@ [s \in {"b1", "b2"} |-> "r2"]
ChartKind ==
  [s \in {"root", "on", "r1", "r2"} |-> "compound"] @@ "par" :> "parallel"
  @@ "hd" :> "deep" @@ "hs" :> "shallow" @@ [s \in {"off", "a1", "a2", "b1", "b2"} |-> "atomic"]
ChartInitial == "root" :> "off" @@ "on" :> "par" @@ "r1" :> "a1" @@ "r2" :> "b1"

ChartAbove ==
  LET above[s \in DOMAIN ChartParent] ==
        IF s = "root" THEN {s} ELSE {s} \cup above[ChartParent[s]]
  IN above

(* Charts for which the code is right: no transition crosses into one      *)
(* region of a parallel state from outside it, and none of an enclosing    *)
(* state leads to a leaf that may be active already.                       *)
Crosses(source, target) ==
  LET goal == IF ChartKind[target] \in {"deep", "shallow"} THEN ChartParent[target] ELSE target
      leaves == {s \in DOMAIN ChartKind : ChartKind[s] = "atomic" /\ source \in ChartAbove[s]}
      shared(l) == ChartAbove[l] \cap ChartAbove[goal]
      lca(l) == CHOOSE s \in shared(l) : shared(l) \subseteq ChartAbove[s]
  IN \E l \in leaves : "par" \in ({lca(l)} \cup (ChartAbove[goal] \ ChartAbove[l])) \ {target}

ChartOptions ==
  LET outward(s) == {[target |-> t, internal |-> FALSE] :
        t \in {x \in {"off", "a2", "b2", "hs", "hd", "on", "r1"} :
                 /\ ~Crosses(s, x)
                 /\ ChartKind[x] = "atomic" => s \notin ChartAbove[x]}}
      inward(s) == {[target |-> t, internal |-> TRUE] :
        t \in CASE s = "on" -> {"par", "on"} [] s = "r2" -> {"b2"} [] OTHER -> {}}
  IN [slot_ \in {<<"off", "e">>, <<"a1", "e">>, <<"on", "f">>, <<"r2", "e">>} |->
        outward(slot_[1]) \cup inward(slot_[1])]

Charts == INSTANCE StateChart WITH
  Doc <- ChartDoc, Root <- "root", Parent <- ChartParent, Kind <- ChartKind,
  Initial <- ChartInitial, Options <- ChartOptions

Sync == INSTANCE ReliableSync WITH
  Peers <- {"a", "b"}, Producers <- {"a"}, MaxEpoch <- 2, MaxFaults <- 2, MaxRestarts <- 0

Pump == INSTANCE IngressPump WITH
  Keys <- {"k"}, ReorderWindow <- 2, HighWater <- 1, Horizon <- 1, ReceiptCapacity <- 1,
  Overflows <- {"dropOldest", "conflate"}, OpenRaises <- FALSE, MaxGen <- 1, MaxSeq <- 3,
  MaxNow <- 2, MaxErrors <- 1, TransportKind <- "event_channel", MaxLosses <- 2,
  driver <- drivenBy

Work == INSTANCE WorkQueue WITH
  Workers <- {"w1", "w2"}, MaxItems <- 2, MaxDeliveries <- 2, VisibilityTimeout <- 1,
  MaxTime <- 1, pending <- queued

Mutex == INSTANCE SharedMutex WITH
  Realms <- {"main", "w1", "w2"}, Workers <- {"w1", "w2"}, MaxDepth <- 2

-----------------------------------------------------------------------------
(* One system runs. *)

streamVars ==
  <<streamNow, ticked, inputs, timer, interval, cron, debounce, leading, trailing,
    counted, timed, drawn, count, time, sliding, session>>
deadlineVars ==
  <<deadlineTimer, timeout, polls, barrier, observers, answers, fired, raised, held>>
callVars == <<callNow, breaker, inUse, call, attempt, delay, cells, since, trips>>
memberVars == <<peerNow, calls, peers, peerSet, told, entries, present>>
chartVars == <<chart, config, history>>
syncVars == <<driver, link, joined, faults, restarts>>
pumpVars ==
  <<overflow, scopes, observedNow, receipts, change,
    sent, inbound, batch, touched, pumping, replayRequests, losses, drivenBy>>
workVars == <<queued, inFlight, dead, nextItem, nextDelivery, acked>>
mutexVars == <<word, depth, pc, parked>>

timedVars == <<streamVars, deadlineVars, callVars, memberVars, chartVars>>
fairVars == <<syncVars, pumpVars, workVars, mutexVars>>
allVars == <<which, coordinationVars, asyncVars, timedVars, fairVars>>

SystemInit ==
  /\ which \in Parts
  /\ Init /\ GraphInit /\ Stream!Init /\ Service!Init /\ Members!Init
  /\ Sync!Init /\ Work!Init /\ Mutex!Init
  /\ Pump!PumpInit /\ drivenBy = "transport" /\ (which # "pump" => overflow = "conflate")
  /\ Deadline!Init
  /\ which \notin {"timeout", "barrier"} =>
       deadlineTimer.lastNow = 2 /\ barrier.deadline = deadlineTimer.deadline
  /\ Charts!Init /\ (which # "chart" => chart = <<>>)

CoordinationStep ==
  /\ \/ which = "lease" /\ LeaseNext
     \/ which = "gate" /\ GateNext
  /\ UNCHANGED <<which, asyncVars, timedVars, fairVars>>

GraphStep ==
  /\ which = "graph" /\ GraphNext
  /\ UNCHANGED <<which, coordinationVars, timedVars, fairVars>>

TimedStep ==
  /\ \/ /\ which = "streams" /\ Stream!Next
        /\ UNCHANGED <<deadlineVars, callVars, memberVars, chartVars>>
     \/ /\ \/ which = "timeout" /\ Deadline!TimeoutNext
           \/ which = "barrier" /\ Deadline!BarrierNext
        /\ UNCHANGED <<streamVars, callVars, memberVars, chartVars>>
     \/ /\ which = "calls" /\ Service!Next
        /\ UNCHANGED <<streamVars, deadlineVars, memberVars, chartVars>>
     \/ /\ which = "members" /\ Members!Next
        /\ UNCHANGED <<streamVars, deadlineVars, callVars, chartVars>>
     \/ /\ which = "chart" /\ Charts!Next
        /\ UNCHANGED <<streamVars, deadlineVars, callVars, memberVars>>
  /\ UNCHANGED <<which, coordinationVars, asyncVars, fairVars>>

FairStep ==
  /\ \/ which = "sync" /\ Sync!Next /\ UNCHANGED <<pumpVars, workVars, mutexVars>>
     \/ which = "pump" /\ Pump!PumpNext /\ UNCHANGED <<syncVars, workVars, mutexVars>>
     \/ which = "work" /\ Work!Next /\ UNCHANGED <<syncVars, pumpVars, mutexVars>>
     \/ which = "mutex" /\ Mutex!Next /\ UNCHANGED <<syncVars, pumpVars, workVars>>
  /\ UNCHANGED <<which, coordinationVars, asyncVars, timedVars>>

SystemNext == CoordinationStep \/ GraphStep \/ TimedStep \/ FairStep

SystemSpec == SystemInit /\ [][SystemNext]_allVars

(* The Fairness of each of these systems, while it is the one that runs *)
(* (at rest the work queue and the mutex have nothing to be fair about).   *)
SyncFairness ==
  \A p \in {"a", "b"} :
    /\ WF_syncVars(which = "sync" /\ Sync!Tick(p))
    /\ SF_syncVars(which = "sync" /\ (Sync!Abandon(p) \/ Sync!Rejoin(p)))

GraphFairness ==
  /\ \A c \in Clients : WF_asyncVars(which = "graph" /\ Progress(c))
  /\ \A w \in Settlers : WF_asyncVars(which = "graph" /\ SettleCheck(w))

PumpFairness ==
  /\ WF_pumpVars(which = "pump" /\ Pump!ByTransport(Pump!PumpStart))
  /\ WF_pumpVars(which = "pump" /\ Pump!ByTransport(Pump!PumpAdmit))
  /\ WF_pumpVars(which = "pump" /\ Pump!ByTransport(Pump!PumpEnd))
  /\ WF_pumpVars(which = "pump" /\ Pump!ByTransport(Pump!AnswerReplay))

FairSystemSpec ==
  /\ SystemSpec
  /\ SyncFairness /\ GraphFairness /\ PumpFairness /\ Work!Fairness /\ Mutex!Fairness

-----------------------------------------------------------------------------

(* On every clock: timers fire as often as their boundaries passed, windows *)
(* cut the inputs into what the definitions say, shapers let the newest     *)
(* through; a deadline or a cancellation settles a wait once and for all;   *)
(* a breaker trips only for failures in its window and then sheds.          *)
ClocksAreKept ==
  /\ Stream!TypeOK /\ Stream!FiresAreCounted
  /\ Stream!WindowsCutTheStream /\ Stream!ShapersKeepTheNewest
  /\ Deadline!TypeOK /\ Deadline!OneOutcome
  /\ Deadline!DeadlineSettles /\ Deadline!BarrierIsExact
  /\ Service!TypeOK /\ Service!TripIsJustified
  /\ Service!OpenSheds /\ Service!PermitsAndDelays

(* Whatever the events, guards and histories, the configuration is one of  *)
(* the tree, reached in one way, and a history restores one.               *)
ChartsStayLegal ==
  /\ Charts!TypeOK /\ Charts!ConfigurationLegal
  /\ Charts!Confluent /\ Charts!RecordingsLegal

(* Every accepted frame is applied by the peer and the outbox drains; a gap *)
(* in an ingress stream closes.                                            *)
StreamsDeliver == Sync!EventuallyCovered /\ Sync!OutboxDrains /\ Pump!GapCloses

(* Items are finished or given up, and a wanted lock is taken. *)
QueuesProgress == Work!ItemsSettle /\ Mutex!SomebodyGetsIn
=============================================================================
