----------------------------- MODULE Resilience -----------------------------
(* The fault-tolerance primitives of src/src/resilience.js around the calls  *)
(* of a client: a circuit breaker lets a call through, a bulkhead gives it a *)
(* permit, a timeout bounds it and the retry policy spaces out attempts.  A  *)
(* call that timed out is recorded as a failure at once and gives its permit *)
(* back when it returns at last, so calls from before a trip report after it.*)
EXTENDS Integers, Sequences, FiniteSets, SequencesExt, FiniteSetsExt

CONSTANTS Calls,       \* calls the client may have under way
          Threshold, WindowSize, ResetTimeout,   \* of the breaker
          Capacity,    \* of the bulkhead
          CallTimeout,
          Base, Cap,   \* of the backoff
          MaxTime, MaxAttempt   \* bounds on the clock and on attempts in a row

VARIABLES now,
          breaker,     \* CircuitBreakerCore: [state, outcomes, openUntil]
          inUse,       \* BulkheadCore
          call,        \* call -> [phase, deadline]: "idle", "flying", "late"
          attempt, delay,   \* RetryPolicyCore, the delay its cell shows
          cells,       \* what the cells of breaker and bulkhead show
          since,       \* the last outcomes a closed breaker was told since it closed (history)
          trips        \* when it opened and why (history)

resilienceVars == <<now, breaker, inUse, call, attempt, delay, cells, since, trips>>

Failures(outcomes) == Len(SelectSeq(outcomes, LAMBDA ok : ~ok))
LastOf(outcomes) == IF Len(outcomes) > WindowSize THEN Tail(outcomes) ELSE outcomes
Idle == [phase |-> "idle", deadline |-> 0]

Init ==
  /\ now = 0
  /\ breaker = [state |-> "Closed", outcomes |-> <<>>, openUntil |-> 0]
  /\ inUse = 0
  /\ call = [c \in Calls |-> Idle]
  /\ attempt = 0 /\ delay = 0
  /\ cells = [state |-> "Closed", inUse |-> 0]
  /\ since = <<>> /\ trips = {}

RefreshCells == cells' = [state |-> breaker'.state, inUse |-> inUse']

----------------------------------------------------------------------------
(* CircuitBreakerCore. *)

Allowed == breaker.state # "Open" \/ now >= breaker.openUntil

\* An open breaker whose time is over lets probes through.
Allow == [breaker EXCEPT !.state = IF @ = "Open" /\ now >= breaker.openUntil THEN "HalfOpen" ELSE @]

Opened(b) == [b EXCEPT !.state = "Open", !.openUntil = now + ResetTimeout]

\* Mutant: a success closes the breaker without forgetting the failures.
CloseKeeps(b) == [b EXCEPT !.state = "Closed"]

Closed(b) == [b EXCEPT !.state = "Closed", !.outcomes = <<>>]

\* Mutant: a late success closes a breaker that is open.
RecordedOpen(ok) ==
  CASE breaker.state # "Closed" -> IF ok THEN Closed(breaker) ELSE Opened(breaker)
    [] OTHER -> LET heard == [breaker EXCEPT !.outcomes = LastOf(Append(@, ok))]
                IN IF Failures(heard.outcomes) >= Threshold THEN Opened(heard) ELSE heard

\* An outcome that arrives while the breaker is open is dropped.
Recorded(ok) ==
  CASE breaker.state = "HalfOpen" -> IF ok THEN Closed(breaker) ELSE Opened(breaker)
    [] breaker.state = "Closed" -> LET heard == [breaker EXCEPT !.outcomes = LastOf(Append(@, ok))]
                                   IN IF Failures(heard.outcomes) >= Threshold THEN Opened(heard) ELSE heard
    [] breaker.state = "Open" -> breaker

Record(ok) ==
  /\ breaker' = Recorded(ok)
  /\ since' = CASE breaker.state # "Closed" /\ breaker'.state = "Closed" -> <<>>
                [] breaker.state = "Closed" -> LastOf(Append(since, ok))
                [] OTHER -> since
  /\ trips' = IF breaker.state # "Open" /\ breaker'.state = "Open" 
             THEN trips \cup {[at |-> now, probe |-> breaker.state = "HalfOpen", failures |-> Failures(since')]}
             ELSE trips

----------------------------------------------------------------------------
(* RetryPolicyCore. *)

\* Mutant: the delay is not capped.
Uncapped(n) == Base * 2 ^ n

DelayAfter(n) == Min({Cap, Base * 2 ^ n})

NextDelay == attempt' = attempt + 1 /\ delay' = DelayAfter(attempt)
ResetRetry == attempt' = 0 /\ delay' = 0

----------------------------------------------------------------------------
(* The client's calls. *)

Release == inUse' = IF inUse > 0 THEN inUse - 1 ELSE inUse

\* A call is let through and finds a permit, or is shed.
Start(c) ==
  /\ call[c].phase = "idle"
  /\ breaker' = Allow
  /\ IF Allowed /\ inUse < Capacity
     THEN /\ inUse' = inUse + 1
          /\ call' = [call EXCEPT ![c] = [phase |-> "flying", deadline |-> now + CallTimeout]]
     ELSE UNCHANGED <<inUse, call>>
  /\ RefreshCells
  /\ UNCHANGED <<now, attempt, delay, since, trips>>

Finish(c, ok) ==
  /\ call[c].phase = "flying" /\ now < call[c].deadline
  /\ call' = [call EXCEPT ![c] = Idle]
  /\ Record(ok) /\ Release
  /\ IF ok THEN ResetRetry ELSE attempt < MaxAttempt /\ NextDelay
  /\ RefreshCells
  /\ UNCHANGED now

\* TimeoutCore.tick fires once.
TimeOut(c) ==
  /\ call[c].phase = "flying" /\ now >= call[c].deadline
  /\ attempt < MaxAttempt
  /\ call' = [call EXCEPT ![c].phase = "late"]
  /\ Record(FALSE) /\ NextDelay
  /\ UNCHANGED inUse
  /\ RefreshCells
  /\ UNCHANGED now

ReturnLate(c) ==
  /\ call[c].phase = "late"
  /\ call' = [call EXCEPT ![c] = Idle]
  /\ Release
  /\ UNCHANGED breaker /\ RefreshCells
  /\ UNCHANGED <<now, attempt, delay, since, trips>>

Pass ==
  /\ now < MaxTime
  /\ now' = now + 1
  /\ UNCHANGED <<breaker, inUse, call, attempt, delay, cells, since, trips>>

Next == Pass \/ \E c \in Calls : Start(c) \/ TimeOut(c) \/ ReturnLate(c) \/ \E ok \in BOOLEAN : Finish(c, ok)

Spec == Init /\ [][Next]_resilienceVars

----------------------------------------------------------------------------
TypeOK ==
  /\ now \in 0..MaxTime /\ attempt \in 0..MaxAttempt
  /\ breaker.state \in {"Closed", "Open", "HalfOpen"} /\ Len(breaker.outcomes) <= WindowSize
  /\ cells = [state |-> breaker.state, inUse |-> inUse]

(* The breaker is closed exactly as long as it may be: the outcomes recorded *)
(* since it closed last hold fewer failures than the threshold, and it opens *)
(* for that many or a failed probe, whatever calls from before report later. *)
TripIsJustified ==
  /\ breaker.state = "Closed" => Failures(since) < Threshold
  /\ trips = {} => breaker.state = "Closed"
  /\ \A t \in trips : t.probe \/ t.failures >= Threshold

(* After a trip the service is left alone for the reset time: no call is let *)
(* through, and a call that is flying then was started before the trip.      *)
OpenSheds ==
  \A t \in trips : now < t.at + ResetTimeout =>
    /\ breaker.state = "Open"
    /\ \A c \in Calls : call[c].phase = "flying" => call[c].deadline <= t.at + CallTimeout

(* Each call under way holds one permit, also after it timed out, and the    *)
(* delays grow up to the cap.                                                *)
PermitsAndDelays ==
  /\ inUse = Cardinality({c \in Calls : call[c].phase # "idle"}) /\ inUse <= Capacity
  /\ delay <= Cap /\ (attempt = 0 <=> delay = 0)
=============================================================================
