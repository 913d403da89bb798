----------------------------- MODULE Deadlines -----------------------------
(* The caller-driven primitives of src/src/stdlib.js: Timer, Timeout and     *)
(* RevisionBarrier.  They hold no clock: every call brings a logical time,   *)
(* which may be behind that of an earlier call.  pollAsync and observeAsync  *)
(* await adapters between reading the state and settling it, so that several *)
(* calls are under way at once.                                              *)
EXTENDS Integers, FiniteSets

CONSTANTS Polls,       \* calls of pollAsync, and of observeAsync, under way at once
          MaxNow,      \* the largest clock value, MAX_U64 of the code
          RequiredRevision,    \* the revision the barrier waits for
          MaxRevision  \* bound on revisions

VARIABLES timer,     \* [deadline, lastNow, firedAt]
          timeout,   \* [deadline, lastNow, terminal]
          polls,     \* poll -> what its two adapters answered, <<>> when not under way
          barrier,   \* [revision, generation, deadline, lastNow, terminal]
          observers, \* observers that await their cancellation
          answers,   \* answers the callers got, in no order (history)
          fired,     \* times at which the timer said it fired (history)
          raised,    \* distinct growing revisions the barrier was shown while it waited (history)
          held       \* the predicate held at a revision that was enough (history)

deadlineVars == <<timer, timeout, polls, barrier, observers, answers, fired, raised, held>>

Clock == 0..MaxNow
Unset == -1
Waiting == "pending"
OperationStates == {"pending", "completed", "unavailable"}
CancellationStates == {"pending", "cancelled", "unavailable"}

\* checkedDeadline: a sum past the largest clock value makes no timer.
Deadlines(now) == {now + span : span \in 0..(MaxNow - now)}

Init ==
  /\ \E now \in Clock, open \in BOOLEAN : \E deadline \in Deadlines(now) :
       /\ timer = [deadline |-> deadline, lastNow |-> now, firedAt |-> Unset]
       /\ timeout = [deadline |-> deadline, lastNow |-> now, terminal |-> Waiting]
       /\ barrier = [revision |-> 0, generation |-> 0, lastNow |-> Unset, terminal |-> Waiting,
                     deadline |-> IF open THEN MaxNow + 1 ELSE deadline]
  /\ polls = [p \in Polls |-> <<>>]
  /\ observers = {}
  /\ answers = [poll |-> {}, barrier |-> {}]
  /\ fired = {} /\ raised = {} /\ held = FALSE

----------------------------------------------------------------------------
TimerObserve(now) ==
  /\ timer' = CASE timer.firedAt # Unset \/ now < timer.lastNow -> timer
                [] now >= timer.deadline -> [timer EXCEPT !.lastNow = now, !.firedAt = now]
                [] OTHER -> [timer EXCEPT !.lastNow = now]
  /\ fired' = IF timer'.firedAt = Unset THEN fired ELSE fired \cup {timer'.firedAt}
  /\ UNCHANGED <<timeout, polls, barrier, observers, answers, raised, held>>

----------------------------------------------------------------------------
(* Timeout. *)

\* Mutant: the deadline itself is still in time.
PrePollLate(now) ==
  IF timeout.terminal # Waiting THEN timeout
  ELSE [timeout EXCEPT !.lastNow = now, !.terminal = IF now > timeout.deadline THEN "timed_out" ELSE Waiting]

\* What a call finds before its adapters are asked.
PrePoll(now) ==
  CASE timeout.terminal # Waiting -> timeout
    [] timeout.terminal = Waiting /\ now < timeout.lastNow -> [timeout EXCEPT !.terminal = "regression"]
    [] OTHER -> [timeout EXCEPT !.lastNow = now,
                                !.terminal = IF now >= timeout.deadline THEN "timed_out" ELSE Waiting]

\* Mutant: what the adapters answered counts, whatever was settled meanwhile.
SettleAgain(operation, cancellation) ==
  [timeout EXCEPT !.terminal = IF operation # "pending" THEN operation ELSE cancellation]

\* The operation comes before the cancellation.
Resolve(operation, cancellation) ==
  IF timeout.terminal # Waiting THEN timeout
  ELSE [timeout EXCEPT !.terminal = IF operation # "pending" THEN operation ELSE cancellation]

Answered(kind, outcome) == answers' = [answers EXCEPT ![kind] = @ \cup {outcome}]

Poll(now) ==
  /\ timeout' = PrePoll(now)
  /\ Answered("poll", timeout'.terminal)
  /\ timeout'.terminal # Waiting
  /\ UNCHANGED <<timer, polls, barrier, observers, fired, raised, held>>

\* pollAsync up to its await: both adapters are invoked and answer later.
PollAsync(p, now) ==
  /\ polls[p] = <<>>
  /\ timeout' = PrePoll(now)
  /\ timeout'.terminal = Waiting
  /\ polls' = [polls EXCEPT ![p] = <<"asked", "asked">>]
  /\ UNCHANGED <<timer, barrier, observers, answers, fired, raised, held>>

\* An adapter's promise resolves.
Adapter(p) ==
  /\ polls[p] # <<>>
  /\ \/ polls[p][1] = "asked" /\ \E s \in OperationStates : polls' = [polls EXCEPT ![p][1] = s]
     \/ polls[p][2] = "asked" /\ \E s \in CancellationStates : polls' = [polls EXCEPT ![p][2] = s]
  /\ UNCHANGED <<timer, timeout, barrier, observers, answers, fired, raised, held>>

\* The rest of pollAsync; that of poll when nothing comes in between.
PollResume(p) ==
  /\ polls[p] # <<>> /\ polls[p][1] # "asked" /\ polls[p][2] # "asked"
  /\ timeout' = Resolve(polls[p][1], polls[p][2])
  /\ Answered("poll", timeout'.terminal)
  /\ polls' = [polls EXCEPT ![p] = <<>>]
  /\ UNCHANGED <<timer, barrier, observers, fired, raised, held>>

----------------------------------------------------------------------------
(* RevisionBarrier. *)

BeginObserve(now) ==
  CASE barrier.terminal # Waiting -> barrier
    [] barrier.terminal = Waiting /\ now < barrier.lastNow -> [barrier EXCEPT !.terminal = "regression"]
    [] OTHER -> [barrier EXCEPT !.lastNow = now,
                                !.terminal = IF now >= barrier.deadline THEN "timed_out" ELSE Waiting]

AcceptRevision(b, revision) ==
  IF b.terminal = Waiting /\ revision > b.revision
  THEN [b EXCEPT !.revision = revision, !.generation = @ + 1] ELSE b

Satisfied(b, predicate) ==
  IF b.terminal = Waiting /\ predicate /\ b.revision >= RequiredRevision
  THEN [b EXCEPT !.terminal = "satisfied"] ELSE b

Observed(b, predicate) == barrier' = Satisfied(b, predicate)

\* History: what the barrier was shown while it waited.
Shown(waiting, revision, predicate) ==
  /\ raised' = IF waiting /\ \A r \in raised \cup {0} : revision > r THEN raised \cup {revision} ELSE raised
  /\ held' = (held \/ (waiting /\ predicate /\ \E r \in raised' \cup {0} : r >= RequiredRevision))

\* observe and observeAsync up to the await.
Observe(p, now, predicate) ==
  /\ p \notin observers
  /\ Observed(BeginObserve(now), predicate)
  /\ Shown(BeginObserve(now).terminal = Waiting, 0, predicate)
  /\ IF barrier'.terminal = Waiting
     THEN observers' = observers \cup {p} /\ UNCHANGED answers
     ELSE Answered("barrier", barrier'.terminal) /\ UNCHANGED observers
  /\ UNCHANGED <<timer, timeout, polls, fired>>

\* Mutant: the answer of an awaited cancellation settles the barrier again.
CancelAgain(state) == [barrier EXCEPT !.terminal = state]

ResolveCancellation(state) ==
  IF barrier.terminal # Waiting \/ state = "pending" THEN barrier ELSE [barrier EXCEPT !.terminal = state]

ObserveResume(p, state) ==
  /\ p \in observers
  /\ barrier' = ResolveCancellation(state)
  /\ observers' = observers \ {p}
  /\ Answered("barrier", barrier'.terminal)
  /\ UNCHANGED <<timer, timeout, polls, fired, raised, held>>

RegisterRecheck(now, revision, predicate) ==
  /\ Observed(AcceptRevision(BeginObserve(now), revision), predicate)
  /\ Shown(BeginObserve(now).terminal = Waiting, revision, predicate)
  /\ Answered("barrier", barrier'.terminal)
  /\ UNCHANGED <<timer, timeout, polls, observers, fired>>

AdvanceRevision(revision, predicate) ==
  /\ Observed(AcceptRevision(barrier, revision), predicate)
  /\ Shown(barrier.terminal = Waiting, revision, predicate)
  /\ Answered("barrier", barrier'.terminal)
  /\ UNCHANGED <<timer, timeout, polls, observers, fired>>

Dispose ==
  /\ barrier' = IF barrier.terminal = Waiting THEN [barrier EXCEPT !.terminal = "disposed"] ELSE barrier
  /\ Answered("barrier", barrier'.terminal)
  /\ UNCHANGED <<timer, timeout, polls, observers, fired, raised, held>>

----------------------------------------------------------------------------
TimeoutNext ==
  \/ \E now \in Clock : TimerObserve(now) \/ Poll(now) \/ \E p \in Polls : PollAsync(p, now)
  \/ \E p \in Polls : Adapter(p) \/ PollResume(p)

BarrierNext ==
  \/ \E predicate \in BOOLEAN :
       \/ \E now \in Clock : \/ \E p \in Polls : Observe(p, now, predicate)
                             \/ \E r \in 0..MaxRevision : RegisterRecheck(now, r, predicate)
       \/ \E r \in 0..MaxRevision : AdvanceRevision(r, predicate)
  \/ \E p \in Polls, s \in CancellationStates : ObserveResume(p, s)
  \/ Dispose

Next == TimeoutNext \/ BarrierNext

Spec == Init /\ [][Next]_deadlineVars

----------------------------------------------------------------------------
TypeOK ==
  /\ timer.firedAt \in Clock \cup {Unset}
  /\ timeout.lastNow \in Clock /\ barrier.revision \in 0..MaxRevision
  /\ observers \subseteq Polls

(* One outcome: whatever calls overlap and whatever their adapters answer,   *)
(* the callers that are told an outcome are all told the one that stays.     *)
OneOutcome ==
  /\ answers.poll \subseteq {Waiting, timeout.terminal}
  /\ answers.barrier \subseteq {Waiting, barrier.terminal}
  /\ Cardinality(fired) <= 1

(* A deadline once seen has passed: from the first call at or after it the   *)
(* primitive is settled, and an operation that completes later is too late.  *)
DeadlineSettles ==
  /\ timeout.lastNow >= timeout.deadline => timeout.terminal # Waiting \/ answers.poll = {}
  /\ barrier.lastNow >= barrier.deadline => barrier.terminal # Waiting
  /\ \A t \in fired : t >= timer.deadline

(* No wake-up is missed and none is spurious: the barrier is satisfied       *)
(* exactly when it was shown, while it waited, its predicate holding at a    *)
(* revision that is enough, and its generation counts the revisions it rose  *)
(* to.                                                                       *)
BarrierIsExact ==
  /\ (barrier.terminal = "satisfied") = held
  /\ held => barrier.revision >= RequiredRevision
  /\ barrier.generation = Cardinality(raised)
=============================================================================
