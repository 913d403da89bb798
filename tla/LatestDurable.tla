--------------------------- MODULE LatestDurable ---------------------------
(***************************************************************************)
(* LatestDurableProjectionCore: a keyed, latest-value-wins delivery        *)
(* authority for a durable sink.  Each key has at most one desired         *)
(* revision, at most one envelope in flight and a durable watermark.       *)
(*                                                                         *)
(* The sink is the environment.  A claimed envelope may be applied at any  *)
(* later time, its acknowledgement may arrive late or twice, and a worker  *)
(* may report a retryable failure for an envelope the sink did apply (a    *)
(* timeout).  A call the core refuses changes nothing: it is a stutter.    *)
(*                                                                         *)
(* The projection cell, whose memoised readers follow the core, is the     *)
(* second half: ShellSpec.                                                 *)
(***************************************************************************)
EXTENDS Integers, TLAPS

CONSTANTS Keys, Values, Epochs, Generations, None

ASSUME EpochsAssumption == Epochs \subseteq Nat
ASSUME GenerationsAssumption == Generations \subseteq Nat /\ Generations # {}

Revision == [epoch : Epochs, value : Values]
Envelope == [generation : Generations, key : Keys,
             epoch : Epochs, value : Values]

ASSUME NoneAssumption == None \notin Revision /\ None \notin Envelope

VARIABLES
  generation,      \* the sink generation this core accepts answers from
  desired,         \* key -> the revision waiting to be claimed, or None
  inflight,        \* key -> the envelope handed to a worker, or None
  durableThrough,  \* key -> the durable epoch, -1 for the code's null
  issued,          \* environment: every envelope ever handed out
  applied          \* environment: the envelopes the sink has applied

coreVars == <<generation, desired, inflight, durableThrough>>
envVars  == <<issued, applied>>
vars     == <<coreVars, envVars>>

(* Mutant: the flight is forgotten when epochs are compared. *)
RetainedDesiredOnly(k) == {desired[k]} \ {None}

(* The revisions an entry retains, the `retained` list of upsertDesired. *)
Retained(k) == {desired[k], inflight[k]} \ {None}

(* Mutant: the envelope itself is requeued, addressing and all. *)
RevisionWithAddress(env) == env

(* desired(revision.epoch, revision.value): drop an envelope's addressing. *)
RevisionOf(env) == [epoch |-> env.epoch, value |-> env.value]

Init ==
  /\ generation \in Generations
  /\ desired = [k \in Keys |-> None]
  /\ inflight = [k \in Keys |-> None]
  /\ durableThrough = [k \in Keys |-> -1]
  /\ issued = {}
  /\ applied = {}

(* Mutant: an epoch is compared with the desired revision only. *)
UpsertBehindFlight(k, e, v) ==
  /\ e > durableThrough[k]
  /\ desired[k] # None => e > desired[k].epoch
  /\ desired' = [desired EXCEPT ![k] = [epoch |-> e, value |-> v]]
  /\ UNCHANGED <<generation, inflight, durableThrough, envVars>>

(* upsertDesired accepts only an epoch above everything it knows of. *)
Upsert(k, e, v) ==
  /\ e > durableThrough[k]
  /\ \A r \in Retained(k) : e > r.epoch
  /\ desired' = [desired EXCEPT ![k] = [epoch |-> e, value |-> v]]
  /\ UNCHANGED <<generation, inflight, durableThrough, envVars>>

(* claim hands the desired revision out unless one is already in flight. *)
Claim(k, g) ==
  /\ g = generation
  /\ desired[k] # None
  /\ inflight[k] = None
  /\ inflight' = [inflight EXCEPT ![k] =
                    [generation |-> generation, key |-> k,
                     epoch |-> desired[k].epoch, value |-> desired[k].value]]
  /\ desired' = [desired EXCEPT ![k] = None]
  /\ issued' = issued \cup {inflight'[k]}
  /\ UNCHANGED <<generation, durableThrough, applied>>

(* The sink applies an envelope a worker holds, however old it is. *)
SinkApply(env) ==
  /\ env \in issued \ applied
  /\ applied' = applied \cup {env}
  /\ UNCHANGED <<coreVars, issued>>

(* The envelope an ack or a failure names is the one in flight: same       *)
(* generation and same epoch.                                              *)
Settles(k, g, e) ==
  /\ g = generation
  /\ inflight[k] # None
  /\ inflight[k].epoch = e

(* Mutant: an ack advances the watermark to the newest intent. *)
AckNewest(k, g, e) ==
  /\ Settles(k, g, e)
  /\ inflight' = [inflight EXCEPT ![k] = None]
  /\ durableThrough' = [durableThrough EXCEPT ![k] =
       IF desired[k] # None THEN desired[k].epoch ELSE e]
  /\ UNCHANGED <<generation, desired, envVars>>

(* ackApplied settles the flight and advances the watermark. *)
AckApplied(k, g, e) ==
  /\ Settles(k, g, e)
  /\ inflight' = [inflight EXCEPT ![k] = None]
  /\ durableThrough' =
       [durableThrough EXCEPT ![k] = IF e > @ THEN e ELSE @]
  /\ UNCHANGED <<generation, desired, envVars>>

(* Mutant: an abandoned flight replaces a newer desired revision. *)
RequeuedAlways(k) == RevisionOf(inflight[k])

(* The revision a key wants after its flight is abandoned: the newer       *)
(* desired one if there is one, else the one that was in flight.           *)
Requeued(k) ==
  IF desired[k] # None /\ desired[k].epoch > inflight[k].epoch
  THEN desired[k] ELSE RevisionOf(inflight[k])

(* Mutant: a failed flight is dropped and not requeued. *)
FailDrops(k, g, e) ==
  /\ Settles(k, g, e)
  /\ inflight' = [inflight EXCEPT ![k] = None]
  /\ UNCHANGED <<generation, desired, durableThrough, envVars>>

(* failRetryable gives up the flight. *)
FailRetryable(k, g, e) ==
  /\ Settles(k, g, e)
  /\ inflight' = [inflight EXCEPT ![k] = None]
  /\ desired' = [desired EXCEPT ![k] = Requeued(k)]
  /\ UNCHANGED <<generation, durableThrough, envVars>>

(* Mutant: a reconnect leaves the flights of the old generation up. *)
ReconnectKeepsFlights(g) ==
  /\ g > generation
  /\ generation' = g
  /\ UNCHANGED <<desired, inflight, durableThrough, envVars>>

(* reconnect to a newer generation gives up every flight at once. *)
Reconnect(g) ==
  /\ g > generation
  /\ generation' = g
  /\ desired' = [k \in Keys |->
                   IF inflight[k] = None THEN desired[k] ELSE Requeued(k)]
  /\ inflight' = [k \in Keys |-> None]
  /\ UNCHANGED <<durableThrough, envVars>>

(* Acks come from applied envelopes, failures from any issued one. *)
Ack(env)  == env \in applied /\ AckApplied(env.key, env.generation, env.epoch)
Fail(env) == env \in issued /\ FailRetryable(env.key, env.generation, env.epoch)

Next ==
  \/ \E k \in Keys, e \in Epochs, v \in Values : Upsert(k, e, v)
  \/ \E k \in Keys, g \in Generations : Claim(k, g)
  \/ \E env \in issued : SinkApply(env)
  \/ \E env \in applied : Ack(env)
  \/ \E env \in issued : Fail(env)
  \/ \E g \in Generations : Reconnect(g)

Spec == Init /\ [][Next]_vars

(***************************************************************************)
(* Fairness: a worker keeps claiming, the sink eventually applies what it  *)
(* was handed, and acks are not lost for ever when an applied envelope is  *)
(* in flight again and again (failures may still intervene between them).  *)
(***************************************************************************)
AckKey(k) == \E env \in applied : env.key = k /\ Ack(env)
ApplyKey(k) == \E env \in issued : env.key = k /\ SinkApply(env)

Fairness ==
  \A k \in Keys :
    /\ WF_vars(\E g \in Generations : Claim(k, g))
    /\ WF_vars(ApplyKey(k))
    /\ SF_vars(AckKey(k))

FairSpec == Spec /\ Fairness

-----------------------------------------------------------------------------
(* Every variable has its type. *)
TypeOK ==
  /\ generation \in Generations
  /\ desired \in [Keys -> Revision \cup {None}]
  /\ inflight \in [Keys -> Envelope \cup {None}]
  /\ durableThrough \in [Keys -> Epochs \cup {-1}]
  /\ issued \subseteq Envelope
  /\ applied \subseteq issued

(* The newest epoch a key has accepted that is still accounted for. *)
Newest(k) ==
  IF desired[k] # None THEN desired[k].epoch
  ELSE IF inflight[k] # None THEN inflight[k].epoch
  ELSE durableThrough[k]

(* What an entry retains is strictly newer than what is durable, and the   *)
(* desired revision strictly newer than the flight: upsertDesired never    *)
(* lets an old epoch back in behind a claim, an ack or a requeue.          *)
EpochOrder ==
  \A k \in Keys :
    /\ \A r \in Retained(k) : durableThrough[k] < r.epoch
    /\ desired[k] # None /\ inflight[k] # None
         => inflight[k].epoch < desired[k].epoch

(* The flight of a key always belongs to the current generation and to an  *)
(* envelope really handed out, so an answer of an older generation can     *)
(* never settle it.                                                        *)
FlightIsCurrent ==
  \A k \in Keys : inflight[k] # None =>
    /\ inflight[k].generation = generation
    /\ inflight[k].key = k
    /\ inflight[k] \in issued

(* An epoch names one value for ever: two envelopes of one key and epoch,  *)
(* whatever retries and reconnects lie between, carry the same value, so   *)
(* a late ack of one is a correct ack of the other.                        *)
OneValuePerEpoch ==
  \A a, b \in issued : a.key = b.key /\ a.epoch = b.epoch => a.value = b.value

(* The watermark is never ahead of the sink: a key is durable through an   *)
(* epoch only if the sink applied an envelope of exactly that epoch.       *)
DurableIsApplied ==
  \A k \in Keys : durableThrough[k] # -1 =>
    \E env \in applied : env.key = k /\ env.epoch = durableThrough[k]

(* What the core's state may be relied on for, together: an answer from    *)
(* any past, late, repeated or of an older generation, settles only what   *)
(* it answers.                                                             *)
Safety ==
  /\ TypeOK /\ EpochOrder /\ FlightIsCurrent
  /\ OneValuePerEpoch /\ DurableIsApplied

(* The abstract register this core implements. *)
Register == INSTANCE DurableRegister WITH
  latest <- [k \in Keys |-> Newest(k)],
  durable <- durableThrough

RegisterSpec == Register!Spec

(* Whatever was accepted last becomes durable, unless something newer is   *)
(* accepted: the watermark reaches every epoch that was once the newest.   *)
IntentBecomesDurable ==
  \A k \in Keys, e \in Epochs :
    (Newest(k) = e) ~> (durableThrough[k] >= e)

-----------------------------------------------------------------------------
(* LatestDurableProjectionShell: the reactive readers over the core.  A    *)
(* transition compares the core's version before and after its body and,   *)
(* when it moved, clears the snapshot reader and either the one reader of  *)
(* the key or, for a reconnect, every reader.  Every accepted core call    *)
(* moves the version and every refused one leaves it, so the accepted      *)
(* actions of the core are the transitions that clear readers.             *)
(*                                                                         *)
(* The async flavour reads the core when a recomputation starts and        *)
(* publishes later; clearing a reader meanwhile drops the late result.     *)

CONSTANTS
  Unminted,  \* no reader was asked for yet
  Dirty,     \* a reader whose value must be recomputed
  SnapshotReader, GenerationReader  \* names of the two fixed readers

VARIABLES
  cache,     \* reader -> the value it would return without recomputing
  computing  \* reader -> the value an unfinished recomputation read, or Dirty

shellVars == <<vars, cache, computing>>

(* core.entry(key): null until the key is first upserted. *)
EntryOf(k) ==
  IF Retained(k) = {} /\ durableThrough[k] = -1 THEN None
  ELSE [desired |-> desired[k], inflight |-> inflight[k],
        durableThrough |-> durableThrough[k]]

Readers == Keys \cup {SnapshotReader, GenerationReader}

(* What a reader's computation returns now. *)
Reading(r) ==
  IF r = GenerationReader THEN generation
  ELSE IF r = SnapshotReader
       THEN [generation |-> generation, entries |-> [k \in Keys |-> EntryOf(k)]]
       ELSE EntryOf(r)

ShellInit ==
  /\ Init
  /\ cache = [r \in Readers |-> IF r \in Keys THEN Unminted ELSE Dirty]
  /\ computing = [r \in Readers |-> Dirty]

(* entryState(key): mint the reader of a key, not yet computed. *)
EntryState(k) ==
  /\ cache[k] = Unminted
  /\ cache' = [cache EXCEPT ![k] = Dirty]
  /\ UNCHANGED <<vars, computing>>

(* A pull of a dirty reader starts its computation, which reads the core. *)
StartRead(r) ==
  /\ cache[r] = Dirty
  /\ computing[r] = Dirty
  /\ computing' = [computing EXCEPT ![r] = Reading(r)]
  /\ UNCHANGED <<vars, cache>>

(* The computation publishes what it read. *)
PublishRead(r) ==
  /\ computing[r] # Dirty
  /\ cache' = [cache EXCEPT ![r] = computing[r]]
  /\ computing' = [computing EXCEPT ![r] = Dirty]
  /\ UNCHANGED vars

(* clearComputeds(roots): drop the values and the results still underway. *)
Clear(roots) ==
  /\ cache' = [r \in Readers |->
       IF r \in roots /\ cache[r] # Unminted THEN Dirty ELSE cache[r]]
  /\ computing' = [r \in Readers |-> IF r \in roots THEN Dirty ELSE computing[r]]

(* Mutant: a reconnect clears the fixed readers only. *)
ReconnectRootsFixed == {SnapshotReader, GenerationReader}

(* The roots of a reconnect: every reader, every key's included. *)
ReconnectRoots == Readers

(* The roots of a transition on one key. *)
KeyRoots(k) == {SnapshotReader, k}

Transition ==
  \/ \E k \in Keys, e \in Epochs, v \in Values :
       Upsert(k, e, v) /\ Clear(KeyRoots(k))
  \/ \E k \in Keys, g \in Generations : Claim(k, g) /\ Clear(KeyRoots(k))
  \/ \E env \in issued : Ack(env) /\ Clear(KeyRoots(env.key))
  \/ \E env \in issued : Fail(env) /\ Clear(KeyRoots(env.key))
  \/ \E g \in Generations : Reconnect(g) /\ Clear(ReconnectRoots)

ShellNext ==
  \/ Transition
  \/ \E env \in issued : SinkApply(env) /\ UNCHANGED <<cache, computing>>
  \/ \E k \in Keys : EntryState(k)
  \/ \E r \in Readers : StartRead(r)
  \/ \E r \in Readers : PublishRead(r)

ShellSpec == ShellInit /\ [][ShellNext]_shellVars

FairShellSpec == ShellSpec /\ Fairness

-----------------------------------------------------------------------------
(* No reader ever holds, or is about to publish, a value that differs from *)
(* what the core would answer now: each transition clears every reader it  *)
(* can change, although a reconnect rewrites the flights of every key and  *)
(* an async computation may have read the core before the transition.      *)
ReadersCoherent ==
  \A r \in Readers :
    /\ cache[r] \notin {Unminted, Dirty} => cache[r] = Reading(r)
    /\ computing[r] # Dirty => computing[r] = Reading(r)

-----------------------------------------------------------------------------
(* The theorems, for every set of keys, values, epochs and generations.    *)
(* The run's invariants are not inductive alone: a claim keeps             *)
(* OneValuePerEpoch only because an envelope issued for a retained epoch   *)
(* already carries that revision's value, and an upsert keeps that only    *)
(* because nothing issued is newer than the newest intent.                 *)

(* Nothing issued is ahead of its key's newest intent, and an envelope of  *)
(* a retained epoch carries the retained value.                            *)
IssuedKnown ==
  \A env \in issued :
    /\ env.epoch <= Newest(env.key)
    /\ \A r \in Retained(env.key) : env.epoch = r.epoch => env.value = r.value

(* The inductive invariant. *)
IInv ==
  /\ TypeOK
  /\ EpochOrder
  /\ FlightIsCurrent
  /\ IssuedKnown
  /\ OneValuePerEpoch
  /\ DurableIsApplied

-----------------------------------------------------------------------------
(* The initial state has no entry, no flight and no envelope. *)
LEMMA InitIInv == Init => IInv
  BY EpochsAssumption, NoneAssumption
  DEF Init, IInv, TypeOK, EpochOrder, FlightIsCurrent, IssuedKnown,
      OneValuePerEpoch, DurableIsApplied, Retained

(* An accepted upsert keeps the inductive invariant (upsertDesired). *)
LEMMA UpsertIInv ==
  ASSUME IInv, NEW k \in Keys, NEW e \in Epochs, NEW v \in Values,
         Upsert(k, e, v)
  PROVE  IInv'
<1> USE EpochsAssumption, NoneAssumption
<1> DEFINE new == [epoch |-> e, value |-> v]
<1>1. new \in Revision /\ new # None /\ new.epoch = e
  BY DEF Revision
<1>2. /\ desired' = [desired EXCEPT ![k] = new]
      /\ UNCHANGED <<generation, inflight, durableThrough, issued, applied>>
  BY DEF Upsert, envVars
<1>3. TypeOK'
  BY <1>1, <1>2 DEF IInv, TypeOK
<1>4. EpochOrder'
  BY <1>1, <1>2 DEF IInv, TypeOK, EpochOrder, Retained, Upsert, Revision, Envelope
<1>5. FlightIsCurrent'
  BY <1>2 DEF IInv, FlightIsCurrent
<1>6. Newest(k) < e
  BY DEF IInv, TypeOK, Upsert, Retained, Newest, Revision, Envelope
<1>7. IssuedKnown'
  BY <1>1, <1>2, <1>6
  DEF IInv, TypeOK, IssuedKnown, Newest, Retained, Revision, Envelope
<1>8. OneValuePerEpoch' /\ DurableIsApplied'
  BY <1>2 DEF IInv, OneValuePerEpoch, DurableIsApplied
<1> QED
  BY <1>3, <1>4, <1>5, <1>7, <1>8 DEF IInv

(* A claim keeps the inductive invariant: the new envelope belongs to the  *)
(* current generation and repeats the value of any earlier envelope of its *)
(* epoch.                                                                  *)
LEMMA ClaimIInv ==
  ASSUME IInv, NEW k \in Keys, NEW g \in Generations, Claim(k, g)
  PROVE  IInv'
<1> USE EpochsAssumption, NoneAssumption
<1> DEFINE env == [generation |-> generation, key |-> k,
                   epoch |-> desired[k].epoch, value |-> desired[k].value]
<1>1. /\ desired[k] # None /\ inflight[k] = None /\ desired[k] \in Revision
      /\ inflight' = [inflight EXCEPT ![k] = env]
      /\ desired' = [desired EXCEPT ![k] = None]
      /\ issued' = issued \cup {env}
      /\ UNCHANGED <<generation, durableThrough, applied>>
  BY DEF IInv, TypeOK, Claim
<1>2. env \in Envelope /\ env # None
  BY <1>1 DEF IInv, TypeOK, Revision, Envelope
<1>3. TypeOK'
  BY <1>1, <1>2 DEF IInv, TypeOK
<1>4. EpochOrder'
  BY <1>1, <1>2
  DEF IInv, TypeOK, EpochOrder, Retained, Revision, Envelope
<1>5. FlightIsCurrent'
  BY <1>1, <1>2 DEF IInv, TypeOK, FlightIsCurrent
<1>6. \A q \in Keys : Newest(q)' = Newest(q)
  BY <1>1, <1>2 DEF IInv, TypeOK, Newest
<1>7. IssuedKnown'
  <2> SUFFICES ASSUME NEW x \in issued'
               PROVE  /\ x.epoch <= Newest(x.key)'
                      /\ \A r \in Retained(x.key)' :
                           x.epoch = r.epoch => x.value = r.value
    BY DEF IssuedKnown
  <2>1. x \in Envelope
    BY <1>1, <1>2 DEF IInv, TypeOK
  <2>2. CASE x \in issued
    BY <1>1, <1>2, <1>6, <2>1, <2>2
    DEF IInv, TypeOK, IssuedKnown, Retained, Envelope
  <2>3. CASE x = env
    <3>1. env.key = k /\ env.epoch = desired[k].epoch
          /\ env.value = desired[k].value
      OBVIOUS
    <3>2. Retained(k)' = {env}
      BY <1>1, <1>2 DEF IInv, TypeOK, Retained
    <3>3. Newest(k) = env.epoch /\ Newest(k)' = env.epoch /\ env.epoch \in Nat
      BY <1>1, <1>6, <3>1 DEF Newest, Revision
    <3> QED  BY <2>3, <3>1, <3>2, <3>3
  <2> QED  BY <1>1, <2>2, <2>3
<1>8. OneValuePerEpoch'
  BY <1>1, <1>2
  DEF IInv, TypeOK, OneValuePerEpoch, IssuedKnown, Retained, Envelope
<1>9. DurableIsApplied'
  BY <1>1 DEF IInv, DurableIsApplied
<1> QED
  BY <1>3, <1>4, <1>5, <1>7, <1>8, <1>9 DEF IInv

(* The sink applying an envelope keeps the inductive invariant. *)
LEMMA SinkApplyIInv ==
  ASSUME IInv, NEW env \in issued, SinkApply(env)
  PROVE  IInv'
<1>1. /\ UNCHANGED <<generation, desired, inflight, durableThrough, issued>>
      /\ applied' = applied \cup {env}
  BY DEF SinkApply, coreVars
<1>2. TypeOK'
  BY <1>1 DEF IInv, TypeOK
<1>3. EpochOrder' /\ FlightIsCurrent' /\ IssuedKnown' /\ OneValuePerEpoch'
  BY <1>1 DEF IInv, EpochOrder, FlightIsCurrent, IssuedKnown, OneValuePerEpoch,
              Retained, Newest
<1>4. DurableIsApplied'
  BY <1>1 DEF IInv, DurableIsApplied
<1> QED
  BY <1>2, <1>3, <1>4 DEF IInv

(* A matching ack keeps the inductive invariant: it moves the watermark to *)
(* the epoch of the flight, which the sink did apply.                      *)
LEMMA AckIInv ==
  ASSUME IInv, NEW env \in applied, Ack(env)
  PROVE  IInv'
<1> USE EpochsAssumption, NoneAssumption
<1> DEFINE k == env.key
           e == env.epoch
<1>1. k \in Keys /\ e \in Epochs /\ env \in issued
  BY DEF IInv, TypeOK, Envelope
<1>2. /\ inflight[k] # None /\ inflight[k] \in Envelope
      /\ inflight[k].epoch = e
      /\ durableThrough[k] < e
  BY <1>1 DEF IInv, TypeOK, EpochOrder, Retained, Ack, AckApplied, Settles
<1>3. /\ inflight' = [inflight EXCEPT ![k] = None]
      /\ durableThrough' = [durableThrough EXCEPT ![k] = e]
      /\ UNCHANGED <<generation, desired, issued, applied>>
  BY <1>1, <1>2 DEF IInv, TypeOK, Ack, AckApplied, envVars
<1>4. TypeOK'
  BY <1>1, <1>3 DEF IInv, TypeOK
<1>5. EpochOrder'
  BY <1>1, <1>2, <1>3
  DEF IInv, TypeOK, EpochOrder, Retained, Revision, Envelope
<1>6. FlightIsCurrent' /\ OneValuePerEpoch'
  BY <1>1, <1>3 DEF IInv, TypeOK, FlightIsCurrent, OneValuePerEpoch
<1>7. \A q \in Keys : Newest(q)' = Newest(q)
  BY <1>1, <1>2, <1>3 DEF IInv, TypeOK, Newest
<1>8. IssuedKnown'
  BY <1>1, <1>3, <1>7 DEF IInv, TypeOK, IssuedKnown, Retained, Envelope
<1>9. DurableIsApplied'
  BY <1>1, <1>3 DEF IInv, TypeOK, DurableIsApplied
<1> QED
  BY <1>4, <1>5, <1>6, <1>8, <1>9 DEF IInv

(* What a key wants after its flight is given up: a revision at the newest *)
(* epoch, above the watermark, with the value issued for that epoch.       *)
LEMMA RequeuedIsNewest ==
  ASSUME IInv, NEW k \in Keys, inflight[k] # None
  PROVE  /\ Requeued(k) \in Revision
         /\ Requeued(k) # None
         /\ Requeued(k).epoch = Newest(k)
         /\ durableThrough[k] < Requeued(k).epoch
         /\ \A env \in issued : env.key = k /\ env.epoch = Requeued(k).epoch
              => env.value = Requeued(k).value
  BY EpochsAssumption, NoneAssumption
  DEF IInv, TypeOK, EpochOrder, IssuedKnown, Retained, Requeued, RevisionOf,
      Newest, Revision, Envelope

(* A retryable failure keeps the inductive invariant: the flight is        *)
(* requeued or superseded, and the newest intent stays the same.           *)
LEMMA FailIInv ==
  ASSUME IInv, NEW env \in issued, Fail(env)
  PROVE  IInv'
<1> USE EpochsAssumption, NoneAssumption
<1> DEFINE k == env.key
           req == Requeued(k)
<1>1. k \in Keys /\ inflight[k] # None
  BY DEF IInv, TypeOK, Envelope, Fail, FailRetryable, Settles
<1>2. /\ inflight' = [inflight EXCEPT ![k] = None]
      /\ desired' = [desired EXCEPT ![k] = req]
      /\ UNCHANGED <<generation, durableThrough, issued, applied>>
  BY DEF Fail, FailRetryable, envVars
<1>3. /\ req \in Revision /\ req # None /\ req.epoch = Newest(k)
      /\ durableThrough[k] < req.epoch
      /\ \A x \in issued : x.key = k /\ x.epoch = req.epoch
           => x.value = req.value
  BY <1>1, RequeuedIsNewest
<1> HIDE DEF req
<1>4. TypeOK'
  BY <1>1, <1>2, <1>3 DEF IInv, TypeOK
<1>5. EpochOrder'
  BY <1>1, <1>2, <1>3
  DEF IInv, TypeOK, EpochOrder, Retained, Revision, Envelope
<1>6. FlightIsCurrent' /\ OneValuePerEpoch' /\ DurableIsApplied'
  BY <1>1, <1>2
  DEF IInv, TypeOK, FlightIsCurrent, OneValuePerEpoch, DurableIsApplied
<1>7. \A q \in Keys : Newest(q)' = Newest(q)
  BY <1>1, <1>2, <1>3 DEF IInv, TypeOK, Newest
<1>8. IssuedKnown'
  BY <1>1, <1>2, <1>3, <1>7 DEF IInv, TypeOK, IssuedKnown, Retained, Envelope
<1> QED
  BY <1>4, <1>5, <1>6, <1>8 DEF IInv

(* A reconnect keeps the inductive invariant: it does to every key what a  *)
(* failure does to one.                                                    *)
LEMMA ReconnectIInv ==
  ASSUME IInv, NEW g \in Generations, Reconnect(g)
  PROVE  IInv'
<1> USE EpochsAssumption, NoneAssumption
<1> DEFINE want == [k \in Keys |->
                     IF inflight[k] = None THEN desired[k] ELSE Requeued(k)]
<1>1. /\ generation' = g
      /\ desired' = want
      /\ inflight' = [k \in Keys |-> None]
      /\ UNCHANGED <<durableThrough, issued, applied>>
  BY DEF Reconnect, envVars
<1>2. ASSUME NEW k \in Keys
      PROVE  /\ want[k] \in Revision \cup {None}
             /\ want[k] # None =>
                  /\ want[k].epoch = Newest(k)
                  /\ durableThrough[k] < want[k].epoch
                  /\ \A x \in issued : x.key = k /\ x.epoch = want[k].epoch
                       => x.value = want[k].value
             /\ want[k] = None => Newest(k) = durableThrough[k]
  <2>1. CASE inflight[k] = None
    BY <2>1
    DEF IInv, TypeOK, EpochOrder, IssuedKnown, Retained, Newest, Revision,
        Envelope
  <2>2. CASE inflight[k] # None
    BY <2>2, RequeuedIsNewest
  <2> QED  BY <2>1, <2>2
<1>w. want = [k \in Keys |-> want[k]]
  OBVIOUS
<1> HIDE DEF want
<1>3. TypeOK'
  BY <1>1, <1>2, <1>w DEF IInv, TypeOK
<1>4. EpochOrder'
  BY <1>1, <1>2 DEF IInv, TypeOK, EpochOrder, Retained, Revision
<1>5. FlightIsCurrent' /\ OneValuePerEpoch' /\ DurableIsApplied'
  BY <1>1 DEF IInv, FlightIsCurrent, OneValuePerEpoch, DurableIsApplied
<1>6. \A q \in Keys : Newest(q)' = Newest(q)
  BY <1>1, <1>2 DEF Newest
<1>7. IssuedKnown'
  BY <1>1, <1>2, <1>6 DEF IInv, TypeOK, IssuedKnown, Retained, Envelope
<1> QED
  BY <1>3, <1>4, <1>5, <1>7 DEF IInv

(* Every step keeps the inductive invariant. *)
LEMMA NextIInv == IInv /\ [Next]_vars => IInv'
<1> SUFFICES ASSUME IInv, [Next]_vars PROVE IInv'
  OBVIOUS
<1>1. ASSUME NEW k \in Keys, NEW e \in Epochs, NEW v \in Values,
             Upsert(k, e, v)
      PROVE  IInv'
  BY <1>1, UpsertIInv
<1>2. ASSUME NEW k \in Keys, NEW g \in Generations, Claim(k, g)
      PROVE  IInv'
  BY <1>2, ClaimIInv
<1>3. ASSUME NEW env \in issued, SinkApply(env)
      PROVE  IInv'
  BY <1>3, SinkApplyIInv
<1>4. ASSUME NEW env \in applied, Ack(env)
      PROVE  IInv'
  BY <1>4, AckIInv
<1>5. ASSUME NEW env \in issued, Fail(env)
      PROVE  IInv'
  BY <1>5, FailIInv
<1>6. ASSUME NEW g \in Generations, Reconnect(g)
      PROVE  IInv'
  BY <1>6, ReconnectIInv
<1>7. CASE UNCHANGED vars
  BY <1>7
  DEF vars, coreVars, envVars, IInv, TypeOK, EpochOrder, FlightIsCurrent,
      IssuedKnown, OneValuePerEpoch, DurableIsApplied, Retained, Newest
<1> QED
  BY <1>1, <1>2, <1>3, <1>4, <1>5, <1>6, <1>7 DEF Next

(* The inductive invariant holds in every behaviour. *)
THEOREM Inductive == Spec => []IInv
  BY InitIInv, NextIInv, PTL DEF Spec

-----------------------------------------------------------------------------
(* LatestDurableProjectionCore keeps its types. *)
THEOREM TypeCorrect == Spec => []TypeOK
<1>1. IInv => TypeOK  BY DEF IInv
<1> QED  BY <1>1, Inductive, PTL

(* Retained epochs stay above the watermark and in order. *)
THEOREM EpochsOrdered == Spec => []EpochOrder
<1>1. IInv => EpochOrder  BY DEF IInv
<1> QED  BY <1>1, Inductive, PTL

(* A flight always belongs to the generation whose answers are accepted. *)
THEOREM FlightsCurrent == Spec => []FlightIsCurrent
<1>1. IInv => FlightIsCurrent  BY DEF IInv
<1> QED  BY <1>1, Inductive, PTL

(* An epoch names one value across every retry and reconnect. *)
THEOREM EpochNamesValue == Spec => []OneValuePerEpoch
<1>1. IInv => OneValuePerEpoch  BY DEF IInv
<1> QED  BY <1>1, Inductive, PTL

(* The watermark of a key is never ahead of what the sink applied. *)
THEOREM WatermarkApplied == Spec => []DurableIsApplied
<1>1. IInv => DurableIsApplied  BY DEF IInv
<1> QED  BY <1>1, Inductive, PTL

(* Nothing the projection core promises is ever broken: the five together. *)
THEOREM SafetyHolds == Spec => []Safety
<1>1. IInv => Safety  BY DEF IInv, Safety
<1> QED  BY <1>1, Inductive, PTL

-----------------------------------------------------------------------------
(* The core implements the abstract register: an upsert is a Write, a      *)
(* matching ack a Commit, everything else a stutter.                       *)
THEOREM ImplementsRegister == Spec => RegisterSpec
<1> USE EpochsAssumption, NoneAssumption
<1> DEFINE L == [k \in Keys |-> Newest(k)]
<1>1. Init => Register!Init
  BY DEF Init, Register!Init, Newest
<1>2. IInv /\ [Next]_vars => [Register!Next]_Register!vars
  <2> SUFFICES ASSUME IInv, [Next]_vars PROVE [Register!Next]_Register!vars
    OBVIOUS
  <2> USE DEF Register!vars
  <2>1. ASSUME NEW k \in Keys, NEW e \in Epochs, NEW v \in Values,
               Upsert(k, e, v)
        PROVE  Register!Next
    <3> DEFINE new == [epoch |-> e, value |-> v]
    <3>1. new # None  BY DEF Revision
    <3>2. Newest(k) < e
      BY <2>1 DEF IInv, TypeOK, Upsert, Retained, Newest, Revision, Envelope
    <3>3. L' = [L EXCEPT ![k] = e] /\ UNCHANGED durableThrough
      BY <2>1, <3>1 DEF IInv, TypeOK, Upsert, Newest
    <3> QED  BY <3>2, <3>3 DEF Register!Next, Register!Write
  <2>2. ASSUME NEW k \in Keys, NEW g \in Generations, Claim(k, g)
        PROVE  UNCHANGED Register!vars
    <3>1. inflight'[k] # None /\ inflight'[k].epoch = desired[k].epoch
      BY <2>2 DEF IInv, TypeOK, Claim, Revision, Envelope
    <3> QED  BY <2>2, <3>1 DEF IInv, TypeOK, Claim, Newest
  <2>3. ASSUME NEW env \in issued, SinkApply(env)
        PROVE  UNCHANGED Register!vars
    BY <2>3 DEF SinkApply, coreVars, Newest
  <2>4. ASSUME NEW env \in applied, Ack(env)
        PROVE  Register!Next
    <3> DEFINE k == env.key
               e == env.epoch
    <3>1. k \in Keys /\ e \in Epochs
      BY DEF IInv, TypeOK, Envelope
    <3>a. /\ inflight[k] # None /\ inflight[k] \in Envelope
          /\ inflight[k].epoch = e
      BY <2>4, <3>1 DEF IInv, TypeOK, Ack, AckApplied, Settles
    <3>b. durableThrough[k] < e
      BY <3>1, <3>a DEF IInv, EpochOrder, Retained
    <3>c. e <= Newest(k)
      BY DEF IInv, TypeOK, IssuedKnown
    <3>2. /\ inflight[k] # None /\ inflight[k].epoch = e
          /\ durableThrough[k] < e /\ e <= Newest(k)
      BY <3>a, <3>b, <3>c
    <3>3. durableThrough' = [durableThrough EXCEPT ![k] = e]
      BY <2>4, <3>1, <3>2 DEF IInv, TypeOK, Ack, AckApplied
    <3>4. UNCHANGED L
      BY <2>4, <3>1, <3>2, <3>3 DEF IInv, TypeOK, Ack, AckApplied, Newest
    <3> QED  BY <3>1, <3>2, <3>3, <3>4 DEF Register!Next, Register!Commit
  <2>5. ASSUME NEW env \in issued, Fail(env)
        PROVE  UNCHANGED Register!vars
    <3> DEFINE k == env.key
    <3>1. k \in Keys /\ inflight[k] # None
      BY <2>5 DEF IInv, TypeOK, Envelope, Fail, FailRetryable, Settles
    <3>2. Requeued(k) # None /\ Requeued(k).epoch = Newest(k)
      BY <3>1, RequeuedIsNewest
    <3> QED  BY <2>5, <3>1, <3>2 DEF IInv, TypeOK, Fail, FailRetryable, Newest
  <2>6. ASSUME NEW g \in Generations, Reconnect(g)
        PROVE  UNCHANGED Register!vars
    <3>1. \A k \in Keys : inflight[k] # None =>
            Requeued(k) # None /\ Requeued(k).epoch = Newest(k)
      BY RequeuedIsNewest
    <3> QED  BY <2>6, <3>1 DEF Reconnect, Newest
  <2>7. CASE UNCHANGED vars
    BY <2>7 DEF vars, coreVars, Newest
  <2> QED
    BY <2>1, <2>2, <2>3, <2>4, <2>5, <2>6, <2>7 DEF Next
<1> QED
  BY <1>1, <1>2, Inductive, PTL DEF Spec, RegisterSpec, Register!Spec

-----------------------------------------------------------------------------
(* The readers over the core. *)

(* Every step of the shell is a step of the core or none. *)
THEOREM ShellImplementsCore == ShellSpec => Spec
<1>1. ShellInit => Init
  BY DEF ShellInit
<1>2. [ShellNext]_shellVars => [Next]_vars
  <2> SUFFICES ASSUME [ShellNext]_shellVars
               PROVE  [Next]_vars
    OBVIOUS
  <2>1. CASE Transition
    BY <2>1 DEF Transition, Next, Ack
  <2>2. CASE \E env \in issued : SinkApply(env) /\ UNCHANGED <<cache, computing>>
    BY <2>2 DEF Next
  <2>3. CASE \E k \in Keys : EntryState(k)
    BY <2>3 DEF EntryState
  <2>4. CASE \E r \in Readers : StartRead(r) \/ PublishRead(r)
    BY <2>4 DEF StartRead, PublishRead
  <2>5. CASE UNCHANGED shellVars
    BY <2>5 DEF shellVars
  <2> QED  BY <2>1, <2>2, <2>3, <2>4, <2>5 DEF ShellNext
<1> QED  BY <1>1, <1>2, PTL DEF ShellSpec, Spec

(* Coherence is inductive once every reader is known to have an entry. *)
HasReaders == DOMAIN cache = Readers /\ DOMAIN computing = Readers

(* A call on one key changes what its own reader and the snapshot return,  *)
(* and no other.                                                           *)
LEMMA OthersReadTheSame ==
  ASSUME TypeOK, NEW k \in Keys, UNCHANGED generation,
         \A q \in Keys \ {k} : /\ desired'[q] = desired[q]
                               /\ inflight'[q] = inflight[q]
                               /\ durableThrough'[q] = durableThrough[q],
         NEW r \in Readers \ KeyRoots(k)
  PROVE  Reading(r)' = Reading(r)
<1>1. CASE r = GenerationReader
  BY <1>1 DEF Reading
<1>2. CASE r # GenerationReader
  <2>1. r # SnapshotReader /\ r \in Keys \ {k}
    BY <1>2 DEF Readers, KeyRoots
  <2>2. EntryOf(r)' = EntryOf(r)
    BY <2>1 DEF EntryOf, Retained
  <2> QED  BY <1>2, <2>1, <2>2 DEF Reading
<1> QED  BY <1>1, <1>2

(* Clearing the readers a step can change keeps the rest coherent. *)
LEMMA ClearedIsCoherent ==
  ASSUME ReadersCoherent, HasReaders, NEW roots, Clear(roots),
         \A r \in Readers \ roots : Reading(r)' = Reading(r)
  PROVE  ReadersCoherent' /\ HasReaders'
<1>1. \A r \in Readers :
        /\ cache'[r] = IF r \in roots /\ cache[r] # Unminted THEN Dirty ELSE cache[r]
        /\ computing'[r] = IF r \in roots THEN Dirty ELSE computing[r]
  BY DEF Clear
<1>2. HasReaders'
  BY DEF Clear, HasReaders, Readers
<1>3. ASSUME NEW r \in Readers
      PROVE  /\ cache'[r] \notin {Unminted, Dirty} => cache'[r] = Reading(r)'
             /\ computing'[r] # Dirty => computing'[r] = Reading(r)'
  <2>1. CASE r \in roots
    BY <1>1, <2>1
  <2>2. CASE r \notin roots
    <3>1. Reading(r)' = Reading(r) /\ cache'[r] = cache[r] /\ computing'[r] = computing[r]
      BY <1>1, <2>2
    <3> QED  BY <3>1 DEF ReadersCoherent
  <2> QED  BY <2>1, <2>2
<1>4. Readers' = Readers
  BY DEF Readers
<1>5. ReadersCoherent'
  BY <1>3, <1>4 DEF ReadersCoherent
<1> QED  BY <1>2, <1>5

LEMMA ShellStep ==
  ASSUME TypeOK, ReadersCoherent, HasReaders, [ShellNext]_shellVars
  PROVE  ReadersCoherent' /\ HasReaders'
<1>1. ASSUME NEW k \in Keys, Clear(KeyRoots(k)), UNCHANGED generation,
             \A q \in Keys \ {k} : /\ desired'[q] = desired[q]
                                   /\ inflight'[q] = inflight[q]
                                   /\ durableThrough'[q] = durableThrough[q]
      PROVE  ReadersCoherent' /\ HasReaders'
  BY <1>1, OthersReadTheSame, ClearedIsCoherent
<1>2. ASSUME NEW k \in Keys, NEW e \in Epochs, NEW v \in Values,
             Upsert(k, e, v), Clear(KeyRoots(k))
      PROVE  ReadersCoherent' /\ HasReaders'
  BY <1>1, <1>2 DEF Upsert, TypeOK
<1>3. ASSUME NEW k \in Keys, NEW g \in Generations, Claim(k, g), Clear(KeyRoots(k))
      PROVE  ReadersCoherent' /\ HasReaders'
  BY <1>1, <1>3 DEF Claim, TypeOK
<1>4. ASSUME NEW env \in issued, Ack(env), Clear(KeyRoots(env.key))
      PROVE  ReadersCoherent' /\ HasReaders'
  <2>1. env.key \in Keys
    BY DEF TypeOK, Envelope
  <2> QED  BY <1>1, <1>4, <2>1 DEF Ack, AckApplied, TypeOK
<1>5. ASSUME NEW env \in issued, Fail(env), Clear(KeyRoots(env.key))
      PROVE  ReadersCoherent' /\ HasReaders'
  <2>1. env.key \in Keys
    BY DEF TypeOK, Envelope
  <2> QED  BY <1>1, <1>5, <2>1 DEF Fail, FailRetryable, TypeOK
<1>6. ASSUME Clear(ReconnectRoots)
      PROVE  ReadersCoherent' /\ HasReaders'
  BY <1>6, ClearedIsCoherent DEF ReconnectRoots
<1>7. ASSUME UNCHANGED coreVars
      PROVE  \A r : Reading(r)' = Reading(r)
  BY <1>7 DEF coreVars, Reading, EntryOf, Retained
<1>8. CASE \E env \in issued : SinkApply(env) /\ UNCHANGED <<cache, computing>>
  <2>1. UNCHANGED coreVars /\ cache' = cache /\ computing' = computing
    BY <1>8 DEF SinkApply
  <2> QED  BY <1>7, <2>1 DEF ReadersCoherent, HasReaders, Readers
<1>9. ASSUME NEW k \in Keys, EntryState(k)
      PROVE  ReadersCoherent' /\ HasReaders'
  <2>1. UNCHANGED coreVars /\ cache' = [cache EXCEPT ![k] = Dirty] /\ computing' = computing
    BY <1>9 DEF EntryState, vars
  <2> QED  BY <1>7, <2>1 DEF ReadersCoherent, HasReaders, Readers
<1>10. ASSUME NEW r \in Readers, StartRead(r)
       PROVE  ReadersCoherent' /\ HasReaders'
  <2>1. UNCHANGED coreVars /\ cache' = cache /\ computing' = [computing EXCEPT ![r] = Reading(r)]
    BY <1>10 DEF StartRead, vars
  <2> QED  BY <1>7, <2>1 DEF ReadersCoherent, HasReaders, Readers
<1>11. ASSUME NEW r \in Readers, PublishRead(r)
       PROVE  ReadersCoherent' /\ HasReaders'
  <2>1. /\ UNCHANGED coreVars /\ computing[r] # Dirty /\ cache' = [cache EXCEPT ![r] = computing[r]]
        /\ computing' = [computing EXCEPT ![r] = Dirty]
    BY <1>11 DEF PublishRead, vars
  <2> QED  BY <1>7, <2>1 DEF ReadersCoherent, HasReaders, Readers
<1>12. CASE UNCHANGED shellVars
  <2>1. UNCHANGED coreVars /\ cache' = cache /\ computing' = computing
    BY <1>12 DEF shellVars, vars
  <2> QED  BY <1>7, <2>1 DEF ReadersCoherent, HasReaders, Readers
<1> QED
  BY <1>2, <1>3, <1>4, <1>5, <1>6, <1>8, <1>9, <1>10, <1>11, <1>12 DEF ShellNext, Transition

(* No reader holds or is about to publish what the core would not answer:  *)
(* also not one whose computation began before a transition and ends after.*)
THEOREM ReadersAlwaysCoherent == ShellSpec => []ReadersCoherent
<1>1. ShellInit => ReadersCoherent /\ HasReaders
  BY DEF ShellInit, ReadersCoherent, HasReaders, Readers
<1>2. TypeOK /\ ReadersCoherent /\ HasReaders /\ [ShellNext]_shellVars
        => ReadersCoherent' /\ HasReaders'
  BY ShellStep
<1>3. ShellSpec => []TypeOK
  BY ShellImplementsCore, TypeCorrect, PTL
<1> QED  BY <1>1, <1>2, <1>3, PTL DEF ShellSpec
=============================================================================
