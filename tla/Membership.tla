----------------------------- MODULE Membership -----------------------------
(* Failure detection of src/src/membership.js and the ephemeral presence of  *)
(* src/src/presence.js on the same logical clock: peers send heartbeats that *)
(* may be delayed past a departure, stop without a word, leave and come back.*)
(* An observer folds the events the core returns, as a listener of           *)
(* MembershipCell would.                                                     *)
(*                                                                           *)
(* phi exceeds the threshold 8 when the silence is longer than the mean      *)
(* interval by more than about 5.2 standard deviations (of at least minStd = *)
(* 0.1): the comparison is made in integers, with the squares multiplied out.*)
EXTENDS Integers, Sequences, FiniteSets, SequencesExt, Folds

CONSTANTS Peers,
          MaxTime,         \* bound on the logical clock
          SuspectTimeout,
          MaxSamples,      \* length of the detector's window
          Ttl,             \* time to live of presence
          MaxCalls         \* bound on calls at one time

VARIABLES now,
          calls,     \* calls since the clock moved
          peers,     \* peer -> [state, window, last, since], for the peers known
          peerSet,   \* what the reactive peer set shows
          told,      \* peer -> its state as the events tell
          entries,   \* peer -> expiry of its presence
          present    \* what the reactive presence shows

membershipVars == <<now, calls, peers, peerSet, told, entries, present>>

Sum(w) == FoldLeft(LAMBDA a, x : a + x, 0, w)
SumOfSquares(w) == FoldLeft(LAMBDA a, x : a + x * x, 0, w)
SquaredDeviations == 27   \* 5.2 squared

\* Mutant: a rhythm takes two intervals to know.
SuspiciousLate(r) ==
  LET n == Len(r.window)
      over == n * (now - r.last) - Sum(r.window)
      spread == n * SumOfSquares(r.window) - Sum(r.window) ^ 2
  IN n > 1 /\ over > 0 /\ 100 * over * over > SquaredDeviations * (IF 100 * spread > n * n THEN 100 * spread ELSE n * n)

\* phi(now) > phiThreshold; a window without samples gives 0.
Suspicious(r) ==
  LET n == Len(r.window)
      over == n * (now - r.last) - Sum(r.window)                   \* n times the excess over the mean
      spread == n * SumOfSquares(r.window) - Sum(r.window) ^ 2     \* n^2 times the variance
  IN n > 0 /\ over > 0 /\ 100 * over * over > SquaredDeviations * (IF 100 * spread > n * n THEN 100 * spread ELSE n * n)

Beaten(r) ==
  [r EXCEPT !.window = LET w == Append(@, now - r.last)
                       IN IF Len(w) > MaxSamples THEN Tail(w) ELSE w,
            !.last = now]

AliveSet(records) == {p \in DOMAIN records : records[p].state = "Alive"}
Live(m) == {p \in DOMAIN m : now < m[p]}
With(f, k, v) == [x \in DOMAIN f \cup {k} |-> IF x = k THEN v ELSE f[x]]

Init ==
  /\ now = 0 /\ calls = 0
  /\ peers = <<>> /\ told = <<>> /\ peerSet = {}
  /\ entries = <<>> /\ present = {}

----------------------------------------------------------------------------
(* MembershipCell: the core's step, then the peer set is refreshed.          *)

Call == calls < MaxCalls /\ calls' = calls + 1 /\ UNCHANGED now
RefreshPeers == peerSet' = AliveSet(peers')
RefreshPresent == present' = Live(entries')

\* A join starts a new detector and says so unless the peer was alive.
Joined(p) ==
  /\ peers' = With(peers, p, [state |-> "Alive", window |-> <<>>, last |-> now, since |-> -1])
  /\ told' = IF p \in DOMAIN peers /\ peers[p].state = "Alive" THEN told ELSE With(told, p, "Alive")

Join(p) == Call /\ Joined(p) /\ RefreshPeers /\ UNCHANGED <<entries, present>>


\* Of a peer that left only the detector hears.
Revived(r) == IF r.state = "Left" THEN r ELSE [r EXCEPT !.state = "Alive", !.since = -1]

\* The presence of the peer is kept by the same heartbeat.
Heartbeat(p) ==
  /\ Call
  /\ IF p \notin DOMAIN peers THEN Joined(p)
     ELSE /\ peers' = [peers EXCEPT ![p] = Revived(Beaten(@))]
          /\ told' = IF peers[p].state \in {"Alive", "Left"} THEN told ELSE With(told, p, "Alive")
  /\ RefreshPeers
  /\ entries' = With(entries, p, now + Ttl)
  /\ RefreshPresent

\* The host evicts the presence of a peer that leaves.
Leave(p) ==
  /\ Call
  /\ p \in DOMAIN peers /\ peers[p].state # "Left"
  /\ peers' = [peers EXCEPT ![p].state = "Left", ![p].since = -1]
  /\ told' = With(told, p, "Left")
  /\ RefreshPeers
  /\ entries' = Restrict(entries, DOMAIN entries \ {p})
  /\ RefreshPresent

Ticked(r) ==
  CASE r.state = "Alive" /\ Suspicious(r) -> [r EXCEPT !.state = "Suspect", !.since = now]
    [] r.state = "Suspect" /\ now - r.since >= SuspectTimeout -> [r EXCEPT !.state = "Dead"]
    [] OTHER -> r

Tick ==
  /\ Call
  /\ peers' = [p \in DOMAIN peers |-> Ticked(peers[p])]
  /\ told' = [p \in DOMAIN told |-> IF peers'[p].state # peers[p].state THEN peers'[p].state ELSE told[p]]
  /\ RefreshPeers
  /\ entries' = Restrict(entries, Live(entries))
  /\ RefreshPresent

\* The clock moves on; the host ticks at least once before it does.
Pass ==
  /\ now < MaxTime /\ calls > 0
  /\ \A p \in DOMAIN peers : Ticked(peers[p]) = peers[p]
  /\ Live(entries) = DOMAIN entries
  /\ now' = now + 1 /\ calls' = 0
  /\ UNCHANGED <<peers, peerSet, told, entries, present>>

Next == Tick \/ Pass \/ \E p \in Peers : Join(p) \/ Heartbeat(p) \/ Leave(p)

Spec == Init /\ [][Next]_membershipVars

----------------------------------------------------------------------------
TypeOK ==
  /\ now \in 0..MaxTime /\ calls \in 0..MaxCalls
  /\ \A p \in DOMAIN peers : /\ peers[p].state \in {"Alive", "Suspect", "Dead", "Left"}
                             /\ Len(peers[p].window) <= MaxSamples

(* Listener, reader and core agree: the states the events tell are those of  *)
(* the core, and the peer set shows exactly the peers alive.                 *)
EventsTellStates ==
  /\ DOMAIN told = DOMAIN peers
  /\ \A p \in DOMAIN peers : told[p] = peers[p].state
  /\ peerSet = AliveSet(peers)

(* A peer whose rhythm is known and that has been silent for four times its  *)
(* longest interval and the suspect timeout is not taken for alive once the  *)
(* host has ticked: whatever was lost, revived or rejoined before.           *)
Longest(w) == CHOOSE x \in ToSet(w) : \A y \in ToSet(w) : y <= x
SilenceIsNoticed ==
  \A p \in DOMAIN peers : LET r == peers[p] IN
    r.window # <<>> /\ now - r.last > 4 * Longest(r.window) + 1 /\ Ticked(r) = r => p \notin peerSet
=============================================================================
