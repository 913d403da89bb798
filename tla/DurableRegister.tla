-------------------------- MODULE DurableRegister --------------------------
(***************************************************************************)
(* What LatestDurableProjectionCore promises, without flights, retries or  *)
(* generations: a register per key whose latest accepted epoch only grows  *)
(* and whose durable epoch follows it, never ahead and never backwards.    *)
(* An accepted intent may be superseded by a newer one; it is never lost.  *)
(***************************************************************************)
EXTENDS Integers

CONSTANTS Keys, Epochs

VARIABLES latest, durable

vars == <<latest, durable>>

Init ==
  /\ latest = [k \in Keys |-> -1]
  /\ durable = [k \in Keys |-> -1]

(* Accept a newer intent. *)
Write(k, e) ==
  /\ latest[k] < e
  /\ latest' = [latest EXCEPT ![k] = e]
  /\ UNCHANGED durable

(* Make some accepted, not yet durable intent durable. *)
Commit(k, e) ==
  /\ durable[k] < e
  /\ e <= latest[k]
  /\ durable' = [durable EXCEPT ![k] = e]
  /\ UNCHANGED latest

Next == \E k \in Keys, e \in Epochs : Write(k, e) \/ Commit(k, e)

Spec == Init /\ [][Next]_vars
=============================================================================
