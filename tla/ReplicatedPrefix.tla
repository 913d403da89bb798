-------------------------- MODULE ReplicatedPrefix --------------------------
(***************************************************************************)
(* What a reliable-sync connection promises: each peer accepts events one  *)
(* by one from its host and adopts ever longer prefixes of what the other  *)
(* accepted, and starts again from nothing only when it restarts.          *)
(***************************************************************************)
EXTENDS Naturals

CONSTANT Peers

VARIABLES produced,   \* peer -> how many events its host accepted
          replica,    \* peer -> the prefix of the other's events it has
          restarts

vars == <<produced, replica, restarts>>

Init ==
  /\ produced = [p \in Peers |-> 0]
  /\ replica = [p \in Peers |-> 0]
  /\ restarts = 0

Produce(p) ==
  /\ produced' = [produced EXCEPT ![p] = @ + 1]
  /\ UNCHANGED <<replica, restarts>>

(* Adopt a longer prefix of what the other peer produced. *)
Adopt(p) ==
  /\ \E q \in Peers \ {p} : \E n \in replica[p] + 1 .. produced[q] :
       replica' = [replica EXCEPT ![p] = n]
  /\ UNCHANGED <<produced, restarts>>

Restart(p) ==
  /\ restarts' = restarts + 1
  /\ replica' = [replica EXCEPT ![p] = 0]
  /\ UNCHANGED produced

Next == \E p \in Peers : Produce(p) \/ Adopt(p) \/ Restart(p)

Spec == Init /\ [][Next]_vars
=============================================================================
