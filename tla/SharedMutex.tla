---------------------------- MODULE SharedMutex ----------------------------
(* The mutex of the thread-safe context (src/src/thread-safe.js): one lock   *)
(* word in shared memory, and in every realm a depth that admits the calls a *)
(* body makes back into the context.  Every public operation of              *)
(* ThreadSafeContext and of its teardown scope is one section under it; a    *)
(* section may call back, return, or throw, which releases all the same.     *)
EXTENDS Integers, Sequences, FiniteSets, SequencesExt

CONSTANTS Realms,
          Workers,    \* realms where Atomics.wait is allowed; the others spin
          MaxDepth    \* bound: sections inside each other

VARIABLES word,    \* the lock word
          depth,   \* realm -> #depth
          pc,      \* realm -> where it is in #acquire or #release
          parked   \* the waiters of the word, in the order they came

mutexVars == <<word, depth, pc, parked>>

Init == word = 0 /\ depth = [r \in Realms |-> 0] /\ pc = [r \in Realms |-> "outside"] /\ parked = <<>>

\* A call of the context, at the top level of a realm.
Call(r) ==
  /\ pc[r] = "outside"
  /\ pc' = [pc EXCEPT ![r] = "exchange"]
  /\ UNCHANGED <<word, depth, parked>>

\* A call that a body makes back into the context.
Reenter(r) ==
  /\ pc[r] = "inside" /\ depth[r] < MaxDepth
  /\ depth' = [depth EXCEPT ![r] = @ + 1]
  /\ UNCHANGED <<word, pc, parked>>

Exchange(r) ==
  /\ pc[r] = "exchange"
  /\ IF word = 0
     THEN word' = 1 /\ depth' = [depth EXCEPT ![r] = 1] /\ pc' = [pc EXCEPT ![r] = "inside"]
     ELSE pc' = [pc EXCEPT ![r] = "wait"] /\ UNCHANGED <<word, depth>>
  /\ UNCHANGED parked

\* Mutant: the waiter parks without a second look at the word.
ParkUnchecked(r) ==
  /\ pc[r] = "wait"
  /\ IF r \in Workers
     THEN parked' = Append(parked, r) /\ pc' = [pc EXCEPT ![r] = "parked"]
     ELSE pc' = [pc EXCEPT ![r] = "exchange"] /\ UNCHANGED parked
  /\ UNCHANGED <<word, depth>>

\* Atomics.wait looks at the word and parks in one step.  Where it throws,
\* the loop goes round.
Wait(r) ==
  /\ pc[r] = "wait"
  /\ IF r \in Workers /\ word = 1
     THEN parked' = Append(parked, r) /\ pc' = [pc EXCEPT ![r] = "parked"]
     ELSE pc' = [pc EXCEPT ![r] = "exchange"] /\ UNCHANGED parked
  /\ UNCHANGED <<word, depth>>

\* The end of a section, by a return or a throw: the outermost one stores the
\* word, and notifies in a step of its own.
Release(r) ==
  /\ pc[r] = "inside"
  /\ depth' = [depth EXCEPT ![r] = @ - 1]
  /\ IF depth[r] = 1 THEN word' = 0 /\ pc' = [pc EXCEPT ![r] = "notify"] ELSE UNCHANGED <<word, pc>>
  /\ UNCHANGED parked

\* Mutant: the lock is handed to the waiter that wakes.
NotifyHandsOver(r) ==
  /\ pc[r] = "notify"
  /\ IF parked = <<>> THEN pc' = [pc EXCEPT ![r] = "outside"] /\ UNCHANGED <<word, depth>>
     ELSE /\ pc' = [pc EXCEPT ![r] = "outside", ![Head(parked)] = "inside"]
          /\ depth' = [depth EXCEPT ![Head(parked)] = 1] /\ word' = 1
  /\ parked' = IF parked = <<>> THEN parked ELSE Tail(parked)

\* One waiter wakes, and has to win the word like everybody else.
Notify(r) ==
  /\ pc[r] = "notify"
  /\ pc' = IF parked = <<>> THEN [pc EXCEPT ![r] = "outside"]
           ELSE [pc EXCEPT ![r] = "outside", ![Head(parked)] = "exchange"]
  /\ parked' = IF parked = <<>> THEN parked ELSE Tail(parked)
  /\ UNCHANGED <<word, depth>>

Next ==
  \E r \in Realms : Call(r) \/ Reenter(r) \/ Exchange(r) \/ Wait(r) \/ Release(r) \/ Notify(r)

Spec == Init /\ [][Next]_mutexVars

\* A realm that runs gets on, and a section ends.
Fairness == \A r \in Realms : WF_mutexVars(Exchange(r) \/ Wait(r) \/ Release(r) \/ Notify(r))

FairSpec == Spec /\ Fairness

----------------------------------------------------------------------------
TypeOK ==
  /\ word \in {0, 1} /\ \A r \in Realms : depth[r] \in 0..MaxDepth
  /\ \A r \in Realms : (pc[r] = "parked") = (r \in ToSet(parked))

(* One realm at a time is in a section, and while one is the word says so.   *)
OneInside ==
  /\ \A r, s \in Realms : depth[r] > 0 /\ depth[s] > 0 => r = s
  /\ (word = 1) = (\E r \in Realms : depth[r] > 0)

(* No wakeup is lost: while somebody is parked, somebody else is on his way  *)
(* to a notify.  (The store and the notify are two steps, and a third realm  *)
(* may slip in between them.)                                                *)
ParkedWillWake == parked # <<>> => \E r \in Realms : pc[r] \in {"inside", "notify", "exchange", "wait"}

(* The lock does not idle: as long as somebody wants it, somebody gets it.   *)
(* (Not everybody: a waiter that wakes may lose to a newcomer every time.)   *)
SomebodyGetsIn ==
  (\E r \in Realms : pc[r] \in {"exchange", "wait", "parked"}) ~> (\E r \in Realms : pc[r] = "inside")
=============================================================================
