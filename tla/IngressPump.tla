---------------------------- MODULE IngressPump ----------------------------
(***************************************************************************)
(* IngressCell.pump over an InProcIngress transport: a batch is taken from *)
(* the transport, every envelope of it is admitted, and a replay is        *)
(* requested for each key of the batch whose reorder buffer is not empty.  *)
(* Nothing interleaves with a pump except what the transport receives, so  *)
(* a pump is its own sequence of steps and the consumer's drain runs       *)
(* between pumps.  The producer and the network are external: they lose    *)
(* and reorder first transmissions.                                        *)
(*                                                                         *)
(* The core is driven in one of two ways, chosen once: by any calls and    *)
(* envelopes in any order (the actions of Ingress), or by a transport.     *)
(***************************************************************************)
EXTENDS Ingress, SequencesExt

CONSTANTS
  TransportKind,  \* "event_channel", "rpc_triggered" or "bounded_polling"
  MaxLosses       \* bound: first transmissions lost by the network

VARIABLES
  sent,            \* key -> how many envelopes its producer has sent
  inbound,         \* the transport's decoded envelopes
  batch,           \* what the running pump has still to admit
  touched,         \* the keys the running pump has admitted for
  pumping,
  replayRequests,  \* the transport's requests, not yet answered
  losses,
  driver           \* "calls" or "transport"

pumpVars == <<sent, inbound, batch, touched, pumping, replayRequests, losses, driver>>
allVars == <<vars, pumpVars>>

Message(k, q) == [key |-> k, generation |-> 0, sequence |-> q, stampedAt |-> 0]
HasGap(k) == Known(k) /\ DOMAIN scopes[k].pending # {}

(* Under block and dropNewest it is the producer that has to send a refused *)
(* envelope again, so the transport is modelled without them.              *)
PumpInit ==
  /\ Init
  /\ sent = [k \in Keys |-> 0]
  /\ inbound = <<>> /\ batch = <<>> /\ replayRequests = <<>>
  /\ touched = {} /\ pumping = FALSE
  /\ losses = 0
  /\ driver \in {"calls", "transport"}
  /\ driver = "transport" => overflow \in {"dropOldest", "conflate"}

(* A first transmission lands anywhere among the envelopes in transit, or  *)
(* is lost.                                                                *)
Produce(k) ==
  /\ sent[k] <= MaxSeq
  /\ sent' = [sent EXCEPT ![k] = @ + 1]
  /\ \/ /\ \E i \in 1 .. Len(inbound) + 1 :
             inbound' = InsertAt(inbound, i, Message(k, sent[k]))
        /\ UNCHANGED losses
     \/ /\ losses < MaxLosses
        /\ losses' = losses + 1
        /\ UNCHANGED inbound
  /\ UNCHANGED <<vars, batch, touched, pumping, replayRequests, driver>>

(* The producer answers a replay request with everything it has sent from  *)
(* that sequence on.                                                       *)
Resend(r) ==
  [i \in 1 .. sent[r.key] - r.fromSequence |-> Message(r.key, r.fromSequence + i - 1)]

AnswerReplay ==
  /\ replayRequests # <<>>
  /\ replayRequests' = Tail(replayRequests)
  /\ inbound' = inbound \o Resend(Head(replayRequests))
  /\ UNCHANGED <<vars, sent, batch, touched, pumping, losses, driver>>

(* transport.drain(): the whole inbound queue becomes the batch.           *)
PumpStart ==
  /\ ~pumping
  /\ pumping' = TRUE
  /\ batch' = inbound /\ inbound' = <<>>
  /\ touched' = {}
  /\ UNCHANGED <<vars, sent, replayRequests, losses, driver>>

PumpAdmit ==
  /\ pumping /\ batch # <<>>
  /\ Admit(Head(batch).key, Head(batch))
  /\ batch' = Tail(batch)
  /\ touched' = touched \cup {Head(batch).key}
  /\ UNCHANGED <<sent, inbound, pumping, replayRequests, losses, driver>>

(* Mutant: the replay is asked from the sequence after the missing one. *)
ReplayOfNext(k) ==
  [key |-> k, generation |-> scopes[k].generation,
   fromSequence |-> NextExpected(scopes[k]) + 1]

ReplayOf(k) ==
  [key |-> k, generation |-> scopes[k].generation,
   fromSequence |-> NextExpected(scopes[k])]

(* A bounded poll refuses the request, and pump does not look at that.     *)
RequestReplays(ks) ==
  IF TransportKind = "bounded_polling" THEN <<>>
  ELSE LET order == SetToSeq(ks) IN [i \in 1 .. Len(order) |-> ReplayOf(order[i])]

PumpEnd ==
  /\ pumping /\ batch = <<>>
  /\ replayRequests' =
       replayRequests \o RequestReplays({k \in touched : HasGap(k)})
  /\ pumping' = FALSE
  /\ UNCHANGED <<vars, sent, inbound, batch, touched, losses, driver>>

ConsumerDrains ==
  /\ ~pumping
  /\ \E k \in Keys : DrainWindow(k)
  /\ UNCHANGED pumpVars

Calls == driver = "calls" /\ Next /\ UNCHANGED <<pumpVars, overflow>>

PumpNext ==
  \/ Calls
  \/ /\ driver = "transport"
     /\ UNCHANGED overflow
     /\ \/ \E k \in Keys : Produce(k)
        \/ AnswerReplay
        \/ PumpStart \/ PumpAdmit \/ PumpEnd
        \/ ConsumerDrains

PumpSpec == PumpInit /\ [][PumpNext]_allVars

(* The application keeps pumping and the producer answers what it is asked. *)
ByTransport(A) == driver = "transport" /\ A /\ UNCHANGED overflow

PumpFairness ==
  /\ WF_allVars(ByTransport(PumpStart))
  /\ WF_allVars(ByTransport(PumpAdmit))
  /\ WF_allVars(ByTransport(PumpEnd))
  /\ WF_allVars(ByTransport(AnswerReplay))

FairPumpSpec == PumpSpec /\ PumpFairness

---------------------------------------------------------------------------
(* A gap that a lost envelope opened closes: a replay is the fix for it.   *)
GapCloses ==
  \A k \in Keys : (driver = "transport" /\ HasGap(k)) ~> ~HasGap(k)
=============================================================================
