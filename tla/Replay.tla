------------------------------- MODULE Replay -------------------------------
(* The replay harness of src/src/replay.js: a graph is rebuilt from an event *)
(* log, what it observes is digested at checkpoints, and a second replay is  *)
(* compared with the fingerprint of the first.  The graph is anything: at    *)
(* every sample each of its cells shows any value, or is missing.            *)
(*                                                                           *)
(* A value is <<tag, content>>: "n" null, "b" boolean, "i" bigint, "f"       *)
(* number, "s" string (a sequence of bytes), "l" array, "t" Set, "m" mapping *)
(* (the members in the order they were added), "u" undefined.  A digest is   *)
(* the canonical bytes; the decimal length of a frame is one of them.        *)
EXTENDS Integers, Sequences, FiniteSets, SequencesExt, FiniteSetsExt, Folds, TLC

CONSTANTS Logs,        \* event logs, sequences of <<seq, payload>>
          Strides,     \* checkpoint strides
          Labels,      \* names of cells
          Atoms,       \* the values that are not made of others
          Observable,  \* values the cells of a graph with events show
          Structures   \* further values, shown by a graph without events

VARIABLES logs,        \* the recorded and the replayed log
          strides,     \* the strides of the two harnesses
          applied,     \* events applied in the replay under way
          phase,       \* 1: recording, 2: replaying, 3: compared
          samples,     \* per replay the checkpoints, <<seq, label -> digest>>
          truth,       \* per replay what was observed after each event (history)
          verdict      \* what check says

replayVars == <<logs, strides, applied, phase, samples, truth, verdict>>

Initial == -1
Tags == <<"b", "f", "i", "l", "m", "n", "s", "t">>
TagByte(tag) == CHOOSE i \in DOMAIN Tags : Tags[i] = tag

----------------------------------------------------------------------------
(* canonicalBytes.  NoEncoding stands for the ReplayEncodingError.           *)

NoEncoding == <<>>

\* Mutant: members are concatenated without their lengths.
FrameUnsized(tag, body) == <<TagByte(tag)>> \o body

Frame(tag, body) == <<TagByte(tag), Len(body)>> \o body

CompareBytes(a, b) ==
  \E n \in 1..Min({Len(a) + 1, Len(b)}) :
    /\ SubSeq(a, 1, n - 1) = SubSeq(b, 1, n - 1)
    /\ n > Len(a) \/ (n <= Len(a) /\ a[n] < b[n])

SortedBytes(parts) == FlattenSeq(SortSeq(parts, CompareBytes))

Members(v) ==
  CASE v[1] \in {"l", "t"} -> v[2]
    [] v[1] = "m" -> [i \in 1..2 * Len(v[2]) |-> v[2][(i + 1) \div 2][IF i % 2 = 1 THEN 1 ELSE 2]]
    [] OTHER -> <<>>

AtomBytes(v) ==
  CASE v[1] = "n" -> <<>>
    [] v[1] = "b" -> IF v[2] THEN <<1>> ELSE <<0>>
    [] v[1] = "s" -> v[2]
    [] OTHER -> <<v[2]>>

CanonicalBytes ==
  LET bytes[v \in Atoms \cup Structures] ==
        LET parts == [i \in DOMAIN Members(v) |-> bytes[Members(v)[i]]]
            entries == [i \in 1..Len(parts) \div 2 |-> parts[2 * i - 1] \o parts[2 * i]]
        IN IF v[1] = "u" \/ NoEncoding \in ToSet(parts) THEN NoEncoding
           ELSE CASE v[1] = "l" -> Frame("l", FlattenSeq(parts))
                  [] v[1] = "t" -> Frame("t", SortedBytes(parts))
                  [] v[1] = "m" -> Frame("m", SortedBytes(entries))
                  [] OTHER -> Frame(v[1], AtomBytes(v))
  IN bytes

(* What the encoding is for: the same value up to the order in which members *)
(* of sets and mappings were added.                                          *)
Same ==
  LET same[u \in Atoms \cup Structures, v \in Atoms \cup Structures] ==
        LET n == Len(u[2])
            pairing(ok(_, _)) == \E perm \in Permutations(1..n) : \A i \in 1..n : ok(u[2][i], v[2][perm[i]])
        IN /\ u[1] = v[1]
           /\ CASE u[1] = "l" -> Len(v[2]) = n /\ \A i \in 1..n : same[u[2][i], v[2][i]]
                [] u[1] = "t" -> Len(v[2]) = n /\ pairing(LAMBDA a, b : same[a, b])
                [] u[1] = "m" -> Len(v[2]) = n /\ pairing(LAMBDA a, b : same[a[1], b[1]] /\ same[a[2], b[2]])
                [] OTHER -> u = v
  IN same

----------------------------------------------------------------------------
(* ReplayHarness. *)

Init ==
  /\ logs \in Logs \X Logs
  /\ strides \in Strides \X Strides
  /\ applied = 0 /\ phase = 1
  /\ samples = << <<>>, <<>> >>
  /\ truth = << <<>>, <<>> >>
  /\ verdict = <<>>

Sampled(index) == index % strides[phase] = 0 \/ index = Len(logs[phase])
SeqAt(index) == IF index = 0 THEN Initial ELSE logs[phase][index][1]
Shown == IF logs = << <<>>, <<>> >> THEN Atoms \cup Structures ELSE Observable
Due == Len(truth[phase]) = applied   \* the state after the last event is not observed yet

\* ReplayCheckpoint.of: a value without an encoding throws out of the replay.
Sample(observed) ==
  LET cells == [label \in DOMAIN observed |-> CanonicalBytes[observed[label]]]
  IN /\ phase < 3 /\ Due
     /\ truth' = [truth EXCEPT ![phase] = Append(@, observed)]
     /\ IF Sampled(applied) /\ \E label \in DOMAIN cells : cells[label] = NoEncoding
        THEN phase' = 3 /\ verdict' = <<"encoding">> /\ UNCHANGED samples
        ELSE /\ samples' = IF Sampled(applied) \/ applied = 0
                           THEN [samples EXCEPT ![phase] = Append(@, <<SeqAt(applied), cells>>)] ELSE samples
             /\ UNCHANGED <<phase, verdict>>
     /\ UNCHANGED <<logs, strides, applied>>

ApplyEvent ==
  /\ phase < 3 /\ ~Due /\ applied < Len(logs[phase])
  /\ applied' = applied + 1
  /\ UNCHANGED <<logs, strides, phase, samples, truth, verdict>>

Rebuild ==
  /\ phase = 1 /\ ~Due /\ applied = Len(logs[1])
  /\ phase' = 2 /\ applied' = 0
  /\ UNCHANGED <<logs, strides, samples, truth, verdict>>

Differs(want, got) ==
  {label \in DOMAIN want[2] \cup DOMAIN got[2] :
     ~(label \in DOMAIN want[2] \cap DOMAIN got[2] /\ want[2][label] = got[2][label])}

\* compare: the labels that differ at the first checkpoint where any does.
Compare(want, got) ==
  LET differing == SelectInSeq([i \in 1..Min({Len(want), Len(got)}) |-> Differs(want[i], got[i])],
                               LAMBDA labels : labels # {})
  IN IF differing # 0 THEN <<"diverged", want[differing][1], Differs(want[differing], got[differing])>>
     ELSE IF Len(want) # Len(got) THEN <<"count">>
     ELSE <<"same">>

\* revalidate comes before any value is compared.
Verdict ==
  IF logs[1] # logs[2] THEN <<"log">>
  ELSE IF strides[1] # strides[2] THEN <<"stride">>
  ELSE Compare(samples[1], samples[2])

Check ==
  /\ phase = 2 /\ ~Due /\ applied = Len(logs[2])
  /\ phase' = 3
  /\ verdict' = Verdict
  /\ UNCHANGED <<logs, strides, applied, samples, truth>>

Next ==
  \/ \E labels \in SUBSET Labels : \E observed \in [labels -> Shown] : Sample(observed)
  \/ ApplyEvent \/ Rebuild \/ Check

Spec == Init /\ [][Next]_replayVars

----------------------------------------------------------------------------
TypeOK == applied \in 0..Max({Len(log) : log \in Logs}) /\ phase \in 1..3

(* A replay is accepted only if its log and stride are those recorded and    *)
(* both graphs showed the same values at the start, at the end and at every  *)
(* stride; a divergence is reported at the first checkpoint where the values *)
(* parted and names exactly the cells that did.                              *)
SameView(a, b) ==
  DOMAIN a = DOMAIN b /\ \A label \in DOMAIN a : Same[a[label], b[label]]
At(index) == index = 0 \/ index % strides[1] = 0 \/ index = Len(logs[1])

VerdictIsRight ==
  phase = 3 /\ verdict # <<"encoding">> =>
    LET parted == {i \in 0..Len(logs[1]) : At(i) /\ ~SameView(truth[1][i + 1], truth[2][i + 1])}
        first == Min(parted)
    IN CASE logs[1] # logs[2] -> verdict = <<"log">>
         [] logs[1] = logs[2] /\ strides[1] # strides[2] -> verdict = <<"stride">>
         [] OTHER -> IF parted = {} THEN verdict = <<"same">>
                     ELSE verdict = <<"diverged", IF first = 0 THEN Initial ELSE logs[1][first][1],
                            {label \in Labels : LET a == truth[1][first + 1] b == truth[2][first + 1]
                               IN /\ label \in DOMAIN a \cup DOMAIN b
                                  /\ ~(label \in DOMAIN a \cap DOMAIN b /\ Same[a[label], b[label]])}>>
=============================================================================
