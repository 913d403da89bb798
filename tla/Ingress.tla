------------------------------ MODULE Ingress ------------------------------
(***************************************************************************)
(* IngressCore: the admission plane.  Each key has a lifecycle scope that   *)
(* decides whether an inbound envelope is delivered, parked in the reorder *)
(* buffer or refused; every mutator returns an IngressChange naming the    *)
(* reader kinds it dirtied, and that return value is all a shell has to    *)
(* invalidate its memoised readers with.                                   *)
(*                                                                         *)
(* A payload is identified by the generation and sequence it was sent      *)
(* under, and the merge is the free one (concatenation), so the window     *)
(* shows which operations were folded and in which order.  hasWindow and   *)
(* windowDepth are window # <<>> and Len(window): the code writes the      *)
(* three together everywhere.  A receipt is its channel.                   *)
(***************************************************************************)
EXTENDS Integers, Sequences, FiniteSets, FiniteSetsExt

CONSTANTS
  Keys,
  ReorderWindow, HighWater, Horizon, ReceiptCapacity,  \* the policy
  Overflows,    \* the overflow policies a core may be constructed with
  OpenRaises,   \* whether open() may name a newer generation on a live scope
  MaxGen, MaxSeq, MaxNow, MaxErrors   \* bounds on what the producers send

ASSUME PolicyAssumption ==
  /\ ReorderWindow \in Nat /\ HighWater \in Nat /\ Horizon \in Nat
  /\ ReceiptCapacity \in Nat \ {0}
  /\ Overflows \subseteq {"block", "dropNewest", "dropOldest", "conflate"}
  /\ OpenRaises \in BOOLEAN
ASSUME BoundsAssumption ==
  MaxGen \in Nat /\ MaxSeq \in Nat /\ MaxNow \in Nat /\ MaxErrors \in Nat

VARIABLES
  overflow,     \* the overflow policy of this core, fixed at construction
  scopes,       \* key -> its Scope, or Unknown
  observedNow,  \* the logical time of the last tick
  receipts,     \* the channels of the retained receipts, oldest first
  change        \* the IngressChange the last mutator returned

vars == <<overflow, scopes, observedNow, receipts, change>>

Incarnations == 0 .. MaxGen
SequenceNumbers  == 0 .. MaxSeq
Times       == 0 .. MaxNow
Kinds       == {"value", "readiness", "authority", "retry"}
Channels    == {"accepted", "dropped", "error"}
Envelopes   == [generation: Incarnations, sequence: SequenceNumbers, stampedAt: Times]

NoSequence == -1          \* deliveredThrough === null
Unknown == [lifecycle |-> "unknown"]
NoPending == [q \in {} |-> 0]

NewScope(g) ==
  [lifecycle |-> "opening", generation |-> g, deliveredThrough |-> NoSequence,
   stampedAt |-> 0, pending |-> NoPending, window |-> <<>>,
   consecutiveErrors |-> 0]

Known(k) == scopes[k] # Unknown
NextExpected(s) == s.deliveredThrough + 1
LiveOrOpening(s) == IF s.deliveredThrough = NoSequence THEN "opening" ELSE "live"

---------------------------------------------------------------------------
(* What the readers derive from a scope.                                    *)

ReadinessAt(s, now) ==
  CASE s = Unknown -> "unknown"
    [] s.lifecycle \in {"closed", "suspended"} -> s.lifecycle
    [] s.lifecycle = "opening" -> "warming"
    [] s.lifecycle = "live" ->
         IF s.deliveredThrough = NoSequence THEN "warming"
         ELSE IF now - s.stampedAt <= Horizon THEN "ready" ELSE "stale"

Value(k) == IF Known(k) THEN scopes[k].window ELSE <<>>
Readiness(k) == ReadinessAt(scopes[k], observedNow)
Authority(k) ==
  IF ~Known(k) \/ scopes[k].lifecycle = "closed" THEN <<>>
  ELSE LET s == scopes[k] IN <<s.generation, s.deliveredThrough, s.stampedAt>>
Retry(k) ==
  IF ~Known(k) \/ scopes[k].consecutiveErrors = 0 THEN <<>>
  ELSE <<scopes[k].consecutiveErrors, NextExpected(scopes[k])>>
Receipts(c) == SelectSeq(receipts, LAMBDA r : r = c)

---------------------------------------------------------------------------
(* The IngressChange.                                                       *)

DirtyReaders(value, readiness, authority, retry) ==
  {x \in Kinds : \/ x = "value" /\ value
                 \/ x = "readiness" /\ readiness
                 \/ x = "authority" /\ authority
                 \/ x = "retry" /\ retry}
Creation(k) == IF Known(k) THEN {} ELSE {"readiness", "authority"}

Report(k, kinds, channels) ==
  change' = [scopes |-> [x \in Keys |-> IF x = k THEN kinds ELSE {}],
             receipts |-> channels]

(* Mutant: the receipt log is never trimmed. *)
PushReceiptUnbounded(c) == receipts' = Append(receipts, c)

PushReceipt(c) ==
  LET log == Append(receipts, c)
  IN receipts' = IF Len(log) > ReceiptCapacity THEN Tail(log) ELSE log

Become(k, s) == scopes' = [scopes EXCEPT ![k] = s]

---------------------------------------------------------------------------
(* The admission algebra.                                                   *)

(* Mutant: a handoff keeps the window of the superseded generation. *)
FencedKeepsWindow(s, g) ==
  IF g > s.generation
  THEN [s EXCEPT !.generation = g, !.deliveredThrough = NoSequence, !.pending = NoPending]
  ELSE s

(* A newer generation resets the fence, the watermark, the buffer and the  *)
(* window before the envelope is looked at any further.                    *)
Fenced(s, g) ==
  IF g > s.generation
  THEN [s EXCEPT !.generation = g, !.deliveredThrough = NoSequence,
                 !.pending = NoPending, !.window = <<>>]
  ELSE s

MergeInto(s, g, q, stamp) ==
  [s EXCEPT !.window = Append(@, <<g, q>>),
            !.stampedAt = IF stamp > @ THEN stamp ELSE @]

(* The last sequence of the run of buffered successors that starts at q.   *)
RunEnd(pending, q) ==
  CHOOSE n \in (q - 1) .. MaxSeq :
    (q .. n) \subseteq DOMAIN pending /\ n + 1 \notin DOMAIN pending

(* Mutant: a delivery flushes nothing. *)
FlushNothing(s) == s

Flush(s) ==
  LET first == NextExpected(s)
      last  == RunEnd(s.pending, first)
      run   == first .. last
  IN [s EXCEPT
        !.deliveredThrough = last,
        !.pending = [q \in DOMAIN s.pending \ run |-> s.pending[q]],
        !.window = @ \o [i \in 1 .. last - first + 1 |->
                           <<s.generation, first + i - 1>>],
        !.stampedAt = Max({@} \cup {s.pending[q] : q \in run})]

(* Mutant: dropOldest does not drop. *)
DeliverKeepsOldest(s, e) ==
  LET first == MergeInto(s, s.generation, e.sequence, e.stampedAt)
  IN Flush([first EXCEPT !.deliveredThrough = e.sequence,
                         !.lifecycle = "live", !.consecutiveErrors = 0])

Deliver(s, e) ==
  LET kept == IF Len(s.window) >= HighWater /\ overflow = "dropOldest"
              THEN [s EXCEPT !.window = <<>>] ELSE s
      first == MergeInto(kept, s.generation, e.sequence, e.stampedAt)
  IN Flush([first EXCEPT !.deliveredThrough = e.sequence,
                         !.lifecycle = "live", !.consecutiveErrors = 0])

(* Refused before the scope is touched: closed, a zombie generation, or    *)
(* too old to take a reorder slot.                                         *)
Inadmissible(s, e) ==
  \/ s.lifecycle = "closed"
  \/ e.generation < s.generation
  \/ observedNow - e.stampedAt > Horizon

(* An early envelope finds its slot taken or no slot free.                 *)
NoSlot(s, e) ==
  /\ e.sequence > NextExpected(s)
  /\ \/ e.sequence \in DOMAIN s.pending
     \/ Cardinality(DOMAIN s.pending) >= ReorderWindow

(* Mutant: a delivered sequence is not recognised as a duplicate. *)
OutOfPlaceNoDedupe(s, e) == NoSlot(s, e)

(* Refused after a handoff may have reset the scope.                       *)
OutOfPlace(s, e) == e.sequence < NextExpected(s) \/ NoSlot(s, e)

(* Mutant: highWater does not refuse. *)
OverfullNever(s, e) == FALSE

Overfull(s, e) ==
  /\ e.sequence = NextExpected(s)
  /\ Len(s.window) >= HighWater
  /\ overflow \in {"block", "dropNewest"}

Park(s, e) ==
  [s EXCEPT !.pending = [q \in DOMAIN @ \cup {e.sequence} |->
                           IF q = e.sequence THEN e.stampedAt ELSE s.pending[q]]]

(* The outcome and the scope it leaves.                                    *)
Decide(s, e) ==
  LET t == Fenced(s, e.generation) IN
  CASE Inadmissible(s, e) -> [kind |-> "refused", scope |-> s]
    [] ~Inadmissible(s, e) /\ (OutOfPlace(t, e) \/ Overfull(t, e)) ->
         [kind |-> "refused", scope |-> t]
    [] OTHER -> IF e.sequence > NextExpected(t)
                THEN [kind |-> "buffered", scope |-> Park(t, e)]
                ELSE [kind |-> "delivered", scope |-> Deliver(t, e)]

Existing(k, e) == IF Known(k) THEN scopes[k] ELSE NewScope(e.generation)

---------------------------------------------------------------------------
(* The mutators.                                                            *)

NoChange == [scopes |-> [k \in Keys |-> {}], receipts |-> {}]

Init ==
  /\ overflow \in Overflows
  /\ scopes = [k \in Keys |-> Unknown]
  /\ observedNow = 0
  /\ receipts = <<>>
  /\ change = NoChange

(* open: a closed scope starts over; any other keeps its state unless the  *)
(* generation is newer, and then the watermark and the buffer go, but not  *)
(* the window.                                                             *)
Reopened(s, g) ==
  IF s.lifecycle = "closed" THEN NewScope(g)
  ELSE LET t == [s EXCEPT !.lifecycle = LiveOrOpening(s)]
       IN IF g > s.generation
          THEN [t EXCEPT !.generation = g, !.deliveredThrough = NoSequence,
                         !.pending = NoPending]
          ELSE t

Position(s) == <<s.lifecycle, s.generation, s.deliveredThrough>>

Open(k, g) ==
  /\ Known(k) /\ scopes[k].lifecycle # "closed" /\ ~OpenRaises
       => g <= scopes[k].generation
  /\ UNCHANGED <<observedNow, receipts>>
  /\ \/ /\ ~Known(k)
        /\ Become(k, NewScope(g))
        /\ Report(k, Creation(k), {})
     \/ /\ Known(k)
        /\ LET s == scopes[k]
               t == Reopened(s, g)
           IN /\ Become(k, t)
              /\ Report(k, IF Position(s) = Position(t) THEN {}
                           ELSE DirtyReaders(FALSE, s.lifecycle # t.lifecycle, TRUE, FALSE),
                        {})

Suspend(k) ==
  /\ Known(k) /\ scopes[k].lifecycle \notin {"suspended", "closed"}
  /\ Become(k, [scopes[k] EXCEPT !.lifecycle = "suspended"])
  /\ Report(k, {"readiness"}, {})
  /\ UNCHANGED <<observedNow, receipts>>

Reconnected(s, g) ==
  LET t == Fenced(s, g)
  IN [t EXCEPT !.lifecycle = LiveOrOpening(t), !.consecutiveErrors = 0]

(* Mutant: a reconnect reports the handoff and forgets the lifecycle. *)
ReconnectDirtyHandoffOnly(k, s, t, handoff) ==
  Creation(k) \cup DirtyReaders(handoff /\ s.window # <<>>, handoff, handoff,
                         s.consecutiveErrors > 0)

ReconnectDirty(k, s, t, handoff) ==
  Creation(k) \cup DirtyReaders(handoff /\ s.window # <<>>, s.lifecycle # t.lifecycle,
                         handoff, s.consecutiveErrors > 0)

Reconnect(k, g) ==
  LET s == IF Known(k) THEN scopes[k] ELSE NewScope(g)
      t == Reconnected(s, g)
  IN /\ Become(k, t)
     /\ Report(k, ReconnectDirty(k, s, t, g > s.generation), {})
     /\ UNCHANGED <<observedNow, receipts>>

Closed(s) ==
  [s EXCEPT !.lifecycle = "closed", !.pending = NoPending, !.window = <<>>,
            !.consecutiveErrors = 0]

Close(k) ==
  /\ Known(k) /\ scopes[k].lifecycle # "closed"
  /\ Become(k, Closed(scopes[k]))
  /\ Report(k, DirtyReaders(scopes[k].window # <<>>, TRUE, TRUE,
                     scopes[k].consecutiveErrors > 0), {})
  /\ UNCHANGED <<observedNow, receipts>>

Crossed(k, now) == Readiness(k) # ReadinessAt(scopes[k], now)

Tick(now) ==
  /\ now # observedNow
  /\ observedNow' = now
  /\ change' = [scopes |-> [k \in Keys |->
                  IF Crossed(k, now) THEN {"readiness"} ELSE {}],
                receipts |-> {}]
  /\ UNCHANGED <<scopes, receipts>>

Fail(k) ==
  LET s == IF Known(k) THEN scopes[k] ELSE NewScope(0)
  IN /\ s.consecutiveErrors < MaxErrors
     /\ Become(k, [s EXCEPT !.consecutiveErrors = @ + 1])
     /\ PushReceipt("error")
     /\ Report(k, Creation(k) \cup {"retry"}, {"error"})
     /\ UNCHANGED observedNow

DrainWindow(k) ==
  /\ Known(k) /\ scopes[k].window # <<>>
  /\ Become(k, [scopes[k] EXCEPT !.window = <<>>])
  /\ Report(k, {"value"}, {})
  /\ UNCHANGED <<observedNow, receipts>>

(* Mutant: a buffered envelope is assumed to dirty nothing. *)
BufferedDirtyNothing(k, s, t) == Creation(k)

(* The kinds a buffered envelope dirties are the difference of the stamps  *)
(* taken before and after.                                                 *)
BufferedDirty(k, s, t) ==
  Creation(k) \cup
  (IF ~Known(k) THEN {} ELSE
   DirtyReaders((s.window = <<>>) # (t.window = <<>>),
         \/ s.lifecycle # t.lifecycle
         \/ (s.deliveredThrough = NoSequence) # (t.deliveredThrough = NoSequence),
         s.generation # t.generation \/ s.deliveredThrough # t.deliveredThrough,
         FALSE))

(* A refused envelope dirties only the dropped receipts, and does not       *)
(* leave behind a scope it would have created.                             *)
Admit(k, e) ==
  LET s == Existing(k, e)
      d == Decide(s, e)
  IN /\ UNCHANGED observedNow
     /\ \/ /\ d.kind = "refused"
           /\ Become(k, IF Known(k) THEN d.scope ELSE Unknown)
           /\ PushReceipt("dropped")
           /\ Report(k, {}, {"dropped"})
        \/ /\ d.kind = "buffered"
           /\ Become(k, d.scope)
           /\ Report(k, BufferedDirty(k, s, d.scope), {})
           /\ UNCHANGED receipts
        \/ /\ d.kind = "delivered"
           /\ Become(k, d.scope)
           /\ PushReceipt("accepted")
           /\ Report(k, Kinds, {"accepted"})

Next ==
  \/ \E k \in Keys, g \in Incarnations : Open(k, g) \/ Reconnect(k, g)
  \/ \E k \in Keys : Suspend(k) \/ Close(k) \/ Fail(k) \/ DrainWindow(k)
  \/ \E now \in Times : Tick(now)
  \/ \E k \in Keys, e \in Envelopes : Admit(k, e)

Spec == Init /\ [][Next /\ UNCHANGED overflow]_vars

---------------------------------------------------------------------------
Buffers == UNION {[D -> Times] : D \in SUBSET SequenceNumbers}

ScopeType ==
  [lifecycle: {"opening", "live", "suspended", "closed"},
   generation: Incarnations, deliveredThrough: SequenceNumbers \cup {NoSequence},
   stampedAt: Times,
   pending: Buffers,
   window: Seq(Incarnations \X SequenceNumbers),
   consecutiveErrors: 0 .. MaxErrors]

(* Every variable has its type. *)
TypeOK ==
  /\ \A k \in Keys : Known(k) => scopes[k] \in ScopeType
  /\ observedNow \in Times
  /\ receipts \in Seq(Channels) /\ Len(receipts) <= ReceiptCapacity
  /\ change.scopes \in [Keys -> SUBSET Kinds] /\ change.receipts \in SUBSET Channels

(* The undrained window is a gap-free run of ONE generation that ends at   *)
(* the watermark: no replay is folded twice, no superseded operation is    *)
(* folded into a newer incarnation's baseline.                             *)
WindowIsRun ==
  \A k \in Keys : Known(k) =>
    LET s == scopes[k] IN
    \A i \in 1 .. Len(s.window) :
      s.window[i] = <<s.generation, s.deliveredThrough - Len(s.window) + i>>

(* What the reorder buffer holds can still be flushed: everything in it    *)
(* lies beyond the next expected sequence, and it keeps to its bound.      *)
BufferIsAhead ==
  \A k \in Keys : Known(k) =>
    LET s == scopes[k] IN
    /\ \A q \in DOMAIN s.pending : q > NextExpected(s)
    /\ Cardinality(DOMAIN s.pending) <= ReorderWindow

(* A bounding overflow policy bounds the window: only a flush of the       *)
(* reorder buffer can pass highWater, by at most what the buffer holds.    *)
(* dropOldest always keeps the newest operation, also with highWater 0.    *)
WindowBounded ==
  overflow # "conflate" =>
    \A k \in Keys : Known(k) =>
      Len(scopes[k].window) <= (IF HighWater = 0 THEN 1 ELSE HighWater) + ReorderWindow

(* All of it together, of well formed states: what is admitted is in order, *)
(* once, and within its bounds.                                            *)
AdmissionSound == TypeOK /\ WindowIsRun /\ BufferIsAhead /\ WindowBounded

(* No call but a reopen of a closed scope moves the fence back, and within *)
(* a generation none moves the watermark back: a zombie is never admitted, *)
(* a delivered sequence never delivered twice.                             *)
NoRewind ==
  [][\A k \in Keys :
       Known(k) /\ scopes[k].lifecycle # "closed" =>
         LET s == scopes[k] t == scopes'[k] IN
         /\ t # Unknown
         /\ t.generation >= s.generation
         /\ t.generation = s.generation =>
              t.deliveredThrough >= s.deliveredThrough]_vars

(* Every step that changes what a reader derives reports its kind, so that *)
(* a shell which clears exactly the reported readers never serves a stale  *)
(* reading ("That return value is the whole contract between the core and  *)
(* a shell").  Values and readiness keep to it while reordering is enabled, *)
(* highWater is not 0 and open() does not raise the generation; authority,  *)
(* retry and receipts have exceptions of their own, which the hazards of    *)
(* this module list.                                                       *)
ReadersInformed ==
  [][\A k \in Keys :
       /\ Value(k)' # Value(k) => "value" \in change.scopes[k]'
       /\ Readiness(k)' # Readiness(k) => "readiness" \in change.scopes[k]']_vars
=============================================================================
