------------------------------ MODULE Streams ------------------------------
(* The sources and operators on a logical clock: temporal.js (timer,         *)
(* deadline, interval, cron), rateshape.js (debounce, throttle, sampling) and*)
(* windowing.js (tumbling, sliding and session windows).  One stream of      *)
(* inputs feeds all of them, the host ticks them with its clock, which may   *)
(* jump.  An element is named by its place in the stream, and a window folds *)
(* its elements into the sequence of them: every associative merge is an     *)
(* image of that one.  Every operator keeps in "out" what it emitted to its  *)
(* cell, with the time.                                                      *)
EXTENDS Integers, Sequences, FiniteSets, SequencesExt, FiniteSetsExt, Folds

CONSTANTS MaxTime,     \* bound on the clock
          MaxInputs,   \* bound on the stream
          FireAt,      \* of the timer and the deadline
          Period,      \* of the interval, the time window and the time sampler
          Cycle, Offsets,   \* of the cron pattern
          Quiet, Window, Gap,   \* debounce, throttle, session
          Size, Slide  \* of the count windows; the count sampler takes one of Size

VARIABLES now, ticked,              \* the host's clock, the last tick
          inputs,                   \* when each element came
          timer, interval, cron,
          debounce, leading, trailing, counted, timed, drawn,
          count, time, sliding, session

sources == <<timer, interval, cron>>
shapers == <<debounce, leading, trailing, counted, timed, drawn>>
windows == <<count, time, sliding, session>>
streamVars == <<now, ticked, inputs, sources, shapers, windows>>

NoneYet == 0
Never == -1
Stream == [i \in DOMAIN inputs |-> i]
Emit(cell, e) == Append(cell.out, [at |-> now, what |-> e])
Emitted(cell) == [i \in DOMAIN cell.out |-> cell.out[i].what]

----------------------------------------------------------------------------
(* temporal.js. *)

\* Single-shot: TimerCell, and DeadlineCell whose value expires.
TimerTick ==
  timer' = IF timer.fired \/ now < FireAt THEN timer ELSE [fired |-> TRUE, edges |-> timer.edges + 1]

\* Mutant: a jump past several boundaries counts as one.
OneBoundary(next) == IF now < next THEN 0 ELSE 1

\* Boundaries of the interval in (frontier, now].
FiresThisTick(next) == IF now < next THEN 0 ELSE (now - next) \div Period + 1

IntervalTick ==
  LET n == FiresThisTick(interval.next)
  IN interval' = [count |-> interval.count + n, next |-> interval.next + n * Period]

\* The number of m in 1..n with m mod Cycle = o.
CountUpto(n, o) == IF o = 0 THEN n \div Cycle ELSE IF o <= n THEN (n - o) \div Cycle + 1 ELSE 0
MatchesIn(lo, hi) == FoldSet(LAMBDA o, sum : sum + CountUpto(hi, o) - CountUpto(lo, o), 0, Offsets)

CronTick ==
  cron' = IF now <= cron.cursor THEN cron
          ELSE [count |-> cron.count + MatchesIn(cron.cursor, now), cursor |-> now]

\* The first match after the cursor: of this block of Cycle or of the next.
CronNextFire ==
  LET base == ((cron.cursor + 1) \div Cycle) * Cycle
      candidates == {base + n * Cycle + o : n \in {0, 1}, o \in Offsets}
  IN Min({c \in candidates : c > cron.cursor})

----------------------------------------------------------------------------
(* rateshape.js. *)

\* Mutant: an input does not put off the deadline of a pending one.
FirstDeadline == IF debounce.pending = NoneYet THEN now + Quiet ELSE debounce.fireAt

QuietDeadline == now + Quiet

DebounceInput(v) == debounce' = [debounce EXCEPT !.pending = v, !.fireAt = QuietDeadline]

DebounceTick ==
  LET fires == debounce.pending # NoneYet /\ debounce.fireAt <= now
  IN debounce' = IF fires THEN [debounce EXCEPT !.pending = NoneYet, !.out = Emit(debounce, debounce.pending)]
                 ELSE debounce

LeadingInput(v) ==
  leading' = IF leading.windowEnd # Never /\ now < leading.windowEnd THEN leading
             ELSE [windowEnd |-> now + Window, out |-> Emit(leading, v)]

TrailingInput(v) ==
  trailing' = [trailing EXCEPT !.windowStart = IF @ = Never THEN now ELSE @, !.pending = v]

TrailingTick ==
  LET fires == trailing.windowStart # Never /\ now >= trailing.windowStart + Window
  IN trailing' = IF fires THEN [windowStart |-> Never, pending |-> NoneYet, out |-> Emit(trailing, trailing.pending)]
                 ELSE trailing

\* One of Size elements.
CountedInput(v) ==
  LET n == counted.counter + 1
  IN counted' = [counter |-> n, out |-> IF n % Size = 0 THEN Emit(counted, v) ELSE counted.out]

TimedInput(v) == timed' = [timed EXCEPT !.held = v]

After(next) == next + ((now - next) \div Period + 1) * Period

\* The held element stays for the next boundary.
TimedTick ==
  timed' = IF now < timed.next THEN timed
           ELSE [timed EXCEPT !.next = After(@), !.out = IF timed.held = NoneYet THEN @ ELSE Emit(timed, timed.held)]

\* The draw passes or not.
DrawnInput(v) == drawn' \in {drawn, [out |-> Emit(drawn, v)]}

----------------------------------------------------------------------------
(* windowing.js. *)

CountPush(v) ==
  LET acc == Append(count.acc, v)
  IN count' = IF Len(acc) >= Size THEN [acc |-> <<>>, out |-> Emit(count, acc)] ELSE [count EXCEPT !.acc = acc]

\* The time of the element is not looked at.
TimePush(v) == time' = [time EXCEPT !.acc = Append(@, v)]

TimeTick ==
  time' = IF now < time.next THEN time
          ELSE [acc |-> <<>>, next |-> After(time.next), 
                out |-> IF time.acc = <<>> THEN time.out ELSE Emit(time, time.acc)]

SlidingPush(v) ==
  LET all == Append(sliding.buffer, v)
      buffer == IF Len(all) > Size THEN Tail(all) ELSE all
      slides == sliding.since + 1 >= Slide
  IN sliding' = [buffer |-> buffer, since |-> IF slides THEN 0 ELSE sliding.since + 1,
                 out |-> IF slides THEN Emit(sliding, buffer) ELSE sliding.out]

Idle == session.last # Never /\ now - session.last > Gap /\ session.acc # <<>>

SessionPush(v) ==
  session' = [acc |-> IF Idle THEN <<v>> ELSE Append(session.acc, v), last |-> now,
              out |-> IF Idle THEN Emit(session, session.acc) ELSE session.out]

\* Mutant: a flush keeps the session it emitted.
FlushKeeps == session' = IF Idle THEN [session EXCEPT !.out = Emit(session, session.acc)] ELSE session

SessionFlush ==
  session' = IF Idle THEN [session EXCEPT !.acc = <<>>, !.out = Emit(session, session.acc)] ELSE session

----------------------------------------------------------------------------
Init ==
  /\ now = 0 /\ ticked = 0 /\ inputs = <<>>
  /\ timer = [fired |-> FALSE, edges |-> 0]
  /\ interval = [count |-> 0, next |-> Period]
  /\ cron = [count |-> 0, cursor |-> 0]
  /\ debounce = [pending |-> NoneYet, fireAt |-> 0, out |-> <<>>]
  /\ leading = [windowEnd |-> Never, out |-> <<>>]
  /\ trailing = [windowStart |-> Never, pending |-> NoneYet, out |-> <<>>]
  /\ counted = [counter |-> 0, out |-> <<>>]
  /\ timed = [held |-> NoneYet, next |-> Period, out |-> <<>>]
  /\ drawn = [out |-> <<>>]
  /\ count = [acc |-> <<>>, out |-> <<>>]
  /\ time = [acc |-> <<>>, next |-> Period, out |-> <<>>]
  /\ sliding = [buffer |-> <<>>, since |-> 0, out |-> <<>>]
  /\ session = [acc |-> <<>>, last |-> Never, out |-> <<>>]

Input(v) ==
  /\ v <= MaxInputs
  /\ inputs' = Append(inputs, now)
  /\ DebounceInput(v) /\ LeadingInput(v) /\ TrailingInput(v)
  /\ CountedInput(v) /\ TimedInput(v) /\ DrawnInput(v)
  /\ CountPush(v) /\ TimePush(v) /\ SlidingPush(v) /\ SessionPush(v)
  /\ UNCHANGED <<now, ticked, sources>>

Tick ==
  /\ ticked' = now
  /\ TimerTick /\ IntervalTick /\ CronTick
  /\ DebounceTick /\ TrailingTick /\ TimedTick
  /\ TimeTick /\ SessionFlush
  /\ UNCHANGED <<now, inputs, leading, counted, drawn, count, sliding>>

\* The clock jumps; nothing has to be ticked in between.
Advance(to) ==
  /\ now < to /\ to <= MaxTime
  /\ now' = to
  /\ UNCHANGED <<ticked, inputs, sources, shapers, windows>>

Next == Input(Len(inputs) + 1) \/ Tick \/ \E to \in 1..MaxTime : Advance(to)

Spec == Init /\ [][Next]_streamVars

----------------------------------------------------------------------------
TypeOK ==
  /\ now \in 0..MaxTime /\ ticked \in 0..now
  /\ Len(inputs) <= MaxInputs
  /\ timer \in [fired : BOOLEAN, edges : 0..1]
  /\ \A out \in {debounce.out, leading.out, trailing.out, counted.out, timed.out, drawn.out} :
       \A i \in DOMAIN out : out[i].at <= now /\ out[i].what \in DOMAIN inputs

(* However the clock jumps, the interval has counted every boundary and the  *)
(* cron pattern every match up to the last tick, and what they announce as   *)
(* their next fire is the first one after it.                                *)
FiresAreCounted ==
  /\ timer.fired = (ticked >= FireAt) /\ (timer.fired <=> timer.edges = 1)
  /\ interval.count = ticked \div Period
  /\ interval.next = (ticked \div Period + 1) * Period
  /\ cron.count = Cardinality({m \in 1..ticked : m % Cycle \in Offsets})
  /\ CronNextFire = Min({m \in (ticked + 1)..(ticked + Cycle) : m % Cycle \in Offsets})

(* The tumbling and the session windows cut the stream: what they emitted    *)
(* and still hold is every element once, in order; the sessions are cut      *)
(* exactly where the stream paused longer than the gap; the sliding windows  *)
(* are the last Size elements at every slide.                                *)
WindowsCutTheStream ==
  /\ FlattenSeq(Emitted(count)) \o count.acc = Stream
  /\ FlattenSeq(Emitted(time)) \o time.acc = Stream
  /\ FlattenSeq(Emitted(session)) \o session.acc = Stream
  /\ \A s \in ToSet(Emitted(session)) \cup {session.acc} : \A i \in 1..(Len(s) - 1) :
       inputs[s[i + 1]] - inputs[s[i]] <= Gap
  /\ \A s \in ToSet(Emitted(session)) : LET e == s[Len(s)] IN
       e < Len(inputs) => inputs[e + 1] - inputs[e] > Gap
  /\ \A i \in DOMAIN sliding.out : sliding.out[i].what = SubSeq(Stream, Max({1, i * Slide - Size + 1}), i * Slide)

(* The shapers drop elements but never the newest: a debounced element was   *)
(* followed by quiet, two throttled emissions are a window apart, and the    *)
(* last element was emitted or still waits.                                  *)
ShapersKeepTheNewest ==
  /\ \A i \in DOMAIN debounce.out : LET e == debounce.out[i] IN
       /\ e.at - inputs[e.what] >= Quiet
       /\ e.what < Len(inputs) => inputs[e.what + 1] >= e.at
  /\ \A out \in {leading.out, trailing.out} : \A i \in 1..(Len(out) - 1) : out[i + 1].at - out[i].at >= Window
  /\ inputs # <<>> => /\ Len(inputs) \in {debounce.pending} \cup ToSet(Emitted(debounce))
                      /\ Len(inputs) \in {trailing.pending} \cup ToSet(Emitted(trailing))
=============================================================================
