----------------------------- MODULE WorkQueue -----------------------------
(***************************************************************************)
(* WorkQueueCore (queue-core.js): a pending FIFO, leases keyed by delivery *)
(* id, dead letters.  Workers may die, answer late or answer twice; the    *)
(* host passes the time and may pass any.  Payloads are the item ids.      *)
(***************************************************************************)
EXTENDS Integers, Sequences, SequencesExt, FiniteSets, Functions

CONSTANTS Workers, MaxItems, MaxDeliveries, VisibilityTimeout, MaxTime

VARIABLES pending,      \* sequence of [item, attempts]
          inFlight,     \* delivery id -> [item, worker, attempt, deadline]
          dead,         \* sequence of [item, attempts, reason]
          nextItem, nextDelivery,
          acked         \* ghost: the items whose ack was accepted, by worker

workVars == <<pending, inFlight, dead, nextItem, nextDelivery, acked>>

Without(id) == Restrict(inFlight, DOMAIN inFlight \ {id})

\* _failDelivery: the requests go back to the tail of pending, or to the dead
\* letters at the limit.
Failed(ds, reason) ==
  /\ pending' = pending \o
       [n \in 1 .. Len(SelectSeq(ds, LAMBDA d : d.attempt < MaxDeliveries)) |->
          LET d == SelectSeq(ds, LAMBDA e : e.attempt < MaxDeliveries)[n]
          IN  [item |-> d.item, attempts |-> d.attempt]]
  /\ dead' = dead \o
       [n \in 1 .. Len(SelectSeq(ds, LAMBDA d : d.attempt >= MaxDeliveries)) |->
          LET d == SelectSeq(ds, LAMBDA e : e.attempt >= MaxDeliveries)[n]
          IN  [item |-> d.item, attempts |-> d.attempt, reason |-> reason]]

Push ==
  /\ nextItem < MaxItems
  /\ pending' = Append(pending, [item |-> nextItem, attempts |-> 0])
  /\ nextItem' = nextItem + 1
  /\ UNCHANGED <<inFlight, dead, nextDelivery, acked>>

Claim(w, now) ==
  /\ pending # <<>>
  /\ LET it == Head(pending) IN
       inFlight' = [d \in DOMAIN inFlight \cup {nextDelivery} |->
         IF d \in DOMAIN inFlight THEN inFlight[d]
         ELSE [item |-> it.item, worker |-> w, attempt |-> it.attempts + 1,
               deadline |-> now + VisibilityTimeout]]
  /\ pending' = Tail(pending)
  /\ nextDelivery' = nextDelivery + 1
  /\ UNCHANGED <<dead, nextItem, acked>>

\* For mutants: a worker answers for the item, not for its delivery.
OwnedByItem(w, id) == id \in DOMAIN inFlight

Owned(w, id) == id \in DOMAIN inFlight /\ inFlight[id].worker = w

Ack(w, id) ==
  /\ Owned(w, id)
  /\ inFlight' = Without(id)
  /\ acked' = acked \cup {<<inFlight[id].item, w>>}
  /\ UNCHANGED <<pending, dead, nextItem, nextDelivery>>

Nack(w, id) ==
  /\ Owned(w, id)
  /\ inFlight' = Without(id)
  /\ Failed(<<inFlight[id]>>, "nack")
  /\ UNCHANGED <<nextItem, nextDelivery, acked>>

\* For mutants: the expired leases are requeued and kept.
ReapKeepsLease(now) ==
  LET Expired == {d \in DOMAIN inFlight : inFlight[d].deadline < now} IN
  /\ Expired # {}
  /\ Failed([n \in 1 .. Cardinality(Expired) |->
               inFlight[SetToSortSeq(Expired, <)[n]]], "expired")
  /\ UNCHANGED <<inFlight, nextItem, nextDelivery, acked>>

ReapExpired(now) ==
  LET Expired == {d \in DOMAIN inFlight : inFlight[d].deadline < now} IN
  /\ Expired # {}
  /\ inFlight' = Restrict(inFlight, DOMAIN inFlight \ Expired)
  /\ Failed([n \in 1 .. Cardinality(Expired) |->
               inFlight[SetToSortSeq(Expired, <)[n]]], "expired")
  /\ UNCHANGED <<nextItem, nextDelivery, acked>>

Init ==
  /\ pending = <<>> /\ inFlight = <<>> /\ dead = <<>>
  /\ nextItem = 0 /\ nextDelivery = 1 /\ acked = {}

Next ==
  \/ Push
  \/ \E w \in Workers, now \in 0 .. MaxTime : Claim(w, now)
  \/ \E w \in Workers, id \in 1 .. nextDelivery : Ack(w, id) \/ Nack(w, id)
  \/ \E now \in 0 .. MaxTime + VisibilityTimeout + 1 : ReapExpired(now)

\* Somebody claims, and the host reaps with a clock that has moved on.
Fairness ==
  /\ WF_workVars(\E w \in Workers, now \in 0 .. MaxTime : Claim(w, now))
  /\ WF_workVars(ReapExpired(MaxTime + VisibilityTimeout + 1))

Spec == Init /\ [][Next]_workVars

FairSpec == Spec /\ Fairness

----------------------------------------------------------------------------
Queued(i) == Cardinality({n \in DOMAIN pending : pending[n].item = i})
Leased(i) == Cardinality({d \in DOMAIN inFlight : inFlight[d].item = i})
Buried(i) == Cardinality({n \in DOMAIN dead : dead[n].item = i})
Finished(i) == Cardinality({p \in acked : p[1] = i})

TypeOK ==
  /\ \A n \in DOMAIN pending : pending[n].attempts \in 0 .. MaxDeliveries - 1
  /\ \A d \in DOMAIN inFlight :
       d < nextDelivery /\ inFlight[d].attempt \in 1 .. MaxDeliveries
  /\ nextItem \in 0 .. MaxItems /\ nextDelivery \in 1 .. MaxItems * MaxDeliveries + 1

\* Every item pushed is in one place: pending, leased to one worker, dead, or
\* acknowledged by the one worker that held its lease then ("competing
\* consumers with exclusive leases").
ItemInOnePlace ==
  \A i \in 0 .. nextItem - 1 : Queued(i) + Leased(i) + Buried(i) + Finished(i) = 1

\* An item is given up only after as many deliveries as the limit says.
DeadAtTheLimit == \A n \in DOMAIN dead : dead[n].attempts = MaxDeliveries

\* Whatever the workers do, every item is acknowledged or dead in the end.
ItemsSettle == \A i \in 0 .. MaxItems - 1 : i < nextItem ~> Buried(i) + Finished(i) = 1
=============================================================================
