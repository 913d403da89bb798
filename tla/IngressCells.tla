---------------------------- MODULE IngressCells ----------------------------
(***************************************************************************)
(* The reactive shells over an IngressCore: IngressCell, its thread-safe   *)
(* twin (the same calls inside a reentrant mutex) and AsyncIngressCell.    *)
(* A shell mints four memoised readers for each key it hears of; after     *)
(* every core call, _apply clears the readers that the returned change     *)
(* names, in one walk, and the effects that read one of them run again.    *)
(* In the asynchronous shell a reader is computed between two turns of the *)
(* event loop, and a call that lands in between supersedes it.             *)
(*                                                                         *)
(* The core's calls are the actions of Ingress.                            *)
(***************************************************************************)
EXTENDS Ingress

CONSTANTS Shells,     \* of {"sync", "async"}
          Consulted,  \* the kinds that are read, beside the watching effect's
          Inputs      \* bound: the envelopes its producers send

VARIABLES shell,    \* which shell this is
          memo,     \* key -> kind -> the reading it memoises, Unread for none
          running,  \* key -> kind -> what a computation in flight has read
          seen      \* key -> the readings its watching effect last ran with

cellVars == <<shell, memo, running, seen>>
shellVars == <<vars, cellVars>>

Unread     == <<>>
Superseded == <<"superseded", "read again">>

Reading(k, kind) ==
  CASE kind = "value"     -> <<Value(k)>>
    [] kind = "readiness" -> <<Readiness(k)>>
    [] kind = "authority" -> <<Authority(k)>>
    [] kind = "retry"     -> <<Retry(k)>>

(* The watching effect reads the value and the readiness of its key.       *)
Watched == {"value", "readiness"}
Now(k) == [kind \in Watched |-> Reading(k, kind)]

CellInit ==
  /\ Init
  /\ shell \in Shells
  /\ memo = [k \in Keys |-> [kind \in Kinds |-> Unread]]
  /\ running = [k \in Keys |-> [kind \in Kinds |-> Unread]]
  /\ seen = [k \in Keys |-> Now(k)]

Call ==
  \/ \E k \in Keys, g \in Incarnations : Open(k, g) \/ Reconnect(k, g)
  \/ \E k \in Keys : Suspend(k) \/ Close(k) \/ Fail(k) \/ DrainWindow(k)
  \/ \E now \in Times : Tick(now)
  \/ \E k \in Keys, e \in Inputs : Admit(k, e)


Cleared(k, kind) == kind \in change'.scopes[k]

(* The watching effect of a synchronous shell runs again when a reader it  *)
(* read was cleared, and reads what is memoised or else the core.          *)
Rerun(k) == shell = "sync" /\ \E kind \in Watched : Cleared(k, kind)

Remembered(k, kind) ==
  IF ~Cleared(k, kind) /\ memo[k][kind] # Unread THEN memo[k][kind]
  ELSE IF Rerun(k) /\ kind \in Watched THEN Reading(k, kind)'
  ELSE Unread

(* A mutating call of the shell: the core's step, then _apply of what it   *)
(* returned.  The effect runs once, after every reader has been cleared.   *)
Mutate ==
  /\ Call /\ UNCHANGED <<overflow, shell>>
  /\ memo' = [k \in Keys |-> [kind \in Kinds |-> Remembered(k, kind)]]
  /\ running' = [k \in Keys |-> [kind \in Kinds |->
                   IF Cleared(k, kind) /\ running[k][kind] # Unread
                   THEN Superseded ELSE running[k][kind]]]
  /\ seen' = [k \in Keys |->
                IF Rerun(k) THEN [kind \in Watched |-> Remembered(k, kind)] ELSE seen[k]]

Read(k, kind) ==
  /\ shell = "sync" /\ memo[k][kind] = Unread
  /\ memo' = [memo EXCEPT ![k][kind] = Reading(k, kind)]
  /\ UNCHANGED <<vars, shell, running, seen>>

(* getAsync: the computation reads the core when it starts.                *)
StartRead(k, kind) ==
  /\ shell = "async" /\ memo[k][kind] = Unread /\ running[k][kind] = Unread
  /\ running' = [running EXCEPT ![k][kind] = Reading(k, kind)]
  /\ UNCHANGED <<vars, shell, memo, seen>>

(* Mutant: what a superseded computation had read is published. *)
SettleLate(k, kind) ==
  /\ running[k][kind] # Unread
  /\ memo' = [memo EXCEPT ![k][kind] = running[k][kind]]
  /\ running' = [running EXCEPT ![k][kind] = Unread]
  /\ UNCHANGED <<vars, shell, seen>>

(* A later turn publishes it; a superseded one starts over.                *)
Settle(k, kind) ==
  /\ running[k][kind] # Unread
  /\ IF running[k][kind] = Superseded
     THEN /\ running' = [running EXCEPT ![k][kind] = Reading(k, kind)]
          /\ UNCHANGED memo
     ELSE /\ memo' = [memo EXCEPT ![k][kind] = running[k][kind]]
          /\ running' = [running EXCEPT ![k][kind] = Unread]
  /\ UNCHANGED <<vars, shell, seen>>

CellNext ==
  \/ Mutate
  \/ \E k \in Keys, kind \in Consulted :
       Read(k, kind) \/ StartRead(k, kind) \/ Settle(k, kind)

CellSpec == CellInit /\ [][CellNext]_shellVars

---------------------------------------------------------------------------
(* What a reader serves is what the core would answer now, for the value   *)
(* and the readiness: the change each call reports is enough for a shell   *)
(* that never looks at the core otherwise, through any interleaving with   *)
(* computations in flight.  (Authority and retry have the exceptions that  *)
(* the hazards list.)                                                      *)
ReadersServeTheCore ==
  \A k \in Keys, kind \in Watched :
    /\ memo[k][kind] # Unread => memo[k][kind] = Reading(k, kind)
    /\ running[k][kind] \notin {Unread, Superseded} =>
         running[k][kind] = Reading(k, kind)

(* "an effect reading several kinds runs against a consistent snapshot"    *)
(* (src/src/ingress.js:133): what the watching effect last saw is one      *)
(* moment of the core, the present one.                                    *)
EffectsSeeOneMoment == shell = "sync" => \A k \in Keys : seen[k] = Now(k)
=============================================================================
