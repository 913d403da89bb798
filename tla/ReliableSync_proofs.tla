------------------------- MODULE ReliableSync_proofs -------------------------
(***************************************************************************)
(* That the connection is safe, for every number of frames, faults and     *)
(* restarts.                                                               *)
(*                                                                         *)
(* What has to be carried along is where every frame is.  A frame that its *)
(* producer drained is covered by the other peer's cursor, or retained in  *)
(* the outbox; on a carrier in use it is covered or in transit, or a       *)
(* replay that nothing can overtake will send it; and in transit each      *)
(* delta comes behind all the deltas before it.  All of that fails once a  *)
(* peer has restarted, and what then remains (WithinStream) is what keeps  *)
(* the cursor accounted for and the refinement true.                       *)
(***************************************************************************)
EXTENDS ReliableSync, TLAPS

-----------------------------------------------------------------------------
(* What is in transit from p lies within what p drained and accepted, and a *)
(* snapshot is behind nothing that comes before it.                         *)
WithinStream(p) ==
  LET d == driver[p]
      seen == driver[Other(p)].lastEpoch
  IN
  /\ d.drained <= d.host
  /\ d.outbox \cup d.todo \subseteq 1 .. d.drained
  /\ seen <= d.host
  /\ \A i \in 1 .. Len(link[p]) :
       /\ link[p][i].kind = "delta" => link[p][i].epoch \in 1 .. d.drained
       /\ link[p][i].kind = "snapshot" =>
            /\ seen <= link[p][i].epoch
            /\ link[p][i].epoch <= d.host
            /\ \A j \in 1 .. i - 1 :
                 link[p][j].kind \in {"delta", "snapshot"} =>
                   link[p][j].epoch <= link[p][i].epoch

(* The other peer has the frame, or it is among the first n in transit. *)
Reaches(p, e, n) ==
  \/ e <= driver[Other(p)].lastEpoch
  \/ \E i \in 1 .. n : link[p][i] = Message("delta", e)

Arrives(p, e) == Reaches(p, e, Len(link[p]))

(* Without restarts: acks tell the truth, ... *)
AcksAreTrue(p) ==
  /\ driver[p].ackedThrough <= driver[Other(p)].lastEpoch
  /\ \A i \in 1 .. Len(link[p]) :
       link[p][i].kind = "ack" => link[p][i].epoch <= driver[p].lastEpoch

(* ... what is not covered is retained, ... *)
Retained(p) ==
  \A e \in 1 .. driver[p].drained :
    e \in driver[p].outbox \/ e <= driver[Other(p)].lastEpoch

(* ... nobody has a reason to ask for a snapshot, ... *)
NoResync(p) ==
  /\ ~driver[p].resyncing
  /\ \A i \in 1 .. Len(link[p]) : link[p][i].kind \in {"delta", "ack"}

(* ... a delta in transit comes behind all the deltas before it, ... *)
Gapless(p) ==
  \A i \in 1 .. Len(link[p]) :
    link[p][i].kind = "delta" =>
      \A e \in 1 .. link[p][i].epoch - 1 : Reaches(p, e, i - 1)

(* ... and on a carrier in use a frame arrives, is being replayed, or waits *)
(* for a replay that nothing can overtake: the sink is stalled, or a tick   *)
(* has yet to begin.                                                        *)
Resends(p) ==
  LET d == driver[p] IN
  /\ d.phase # "idle" /\ d.replayPending => d.stalled
  /\ p \in joined =>
       IF d.phase = "replay"
       THEN \A e \in 1 .. d.drained : e \in d.todo \/ Arrives(p, e)
       ELSE d.stalled \/ d.replayPending \/ \A e \in 1 .. d.drained : Arrives(p, e)

Unbroken(p) ==
  AcksAreTrue(p) /\ Retained(p) /\ NoResync(p) /\ Gapless(p) /\ Resends(p)

IInv ==
  /\ TypeOK
  /\ CursorAccounted
  /\ \A p \in Peers : WithinStream(p)
  /\ restarts = 0 => \A p \in Peers : Unbroken(p)

-----------------------------------------------------------------------------
(* There are two peers, and each is the other of the other.                 *)
LEMMA OtherPeer ==
  ASSUME NEW p \in Peers
  PROVE  /\ Other(p) \in Peers /\ Other(p) # p /\ Other(Other(p)) = p
         /\ \A q \in Peers : q = p \/ q = Other(p)
<1> PICK a \in Peers, b \in Peers : a # b /\ Peers = {a, b}
  BY PeersAssumption
<1>1. \A x \in Peers : Other(x) \in Peers /\ Other(x) # x
  BY DEF Other
<1> QED  BY <1>1

(* Sequences of messages that a send, a receive or a break makes.           *)
LEMMA Appended ==
  ASSUME NEW s \in Seq(Messages), NEW m \in Messages
  PROVE  /\ Append(s, m) \in Seq(Messages)
         /\ Len(Append(s, m)) = Len(s) + 1
         /\ \A i \in 1 .. Len(s) : Append(s, m)[i] = s[i]
         /\ Append(s, m)[Len(s) + 1] = m
  OBVIOUS

LEMMA Consumed ==
  ASSUME NEW s \in Seq(Messages), s # <<>>
  PROVE  /\ Tail(s) \in Seq(Messages)
         /\ Len(s) \in Nat /\ Len(s) >= 1 /\ Len(Tail(s)) = Len(s) - 1
         /\ \A i \in 1 .. Len(s) - 1 : Tail(s)[i] = s[i + 1]
         /\ Head(s) = s[1] /\ s[1] \in Messages
  OBVIOUS

LEMMA Cut ==
  ASSUME NEW s \in Seq(Messages), NEW n \in 0 .. Len(s)
  PROVE  /\ SubSeq(s, 1, n) \in Seq(Messages)
         /\ Len(SubSeq(s, 1, n)) = n
         /\ \A i \in 1 .. n : SubSeq(s, 1, n)[i] = s[i]
  OBVIOUS

(* The induction starts.                                                    *)
LEMMA InitIInv == Init => IInv
<1> SUFFICES ASSUME Init PROVE IInv
  OBVIOUS
<1> USE BoundsAssumption DEF Init
<1>1. FreshDriver \in Drivers
  BY DEF FreshDriver, Drivers, Epochs, Phases
<1>2. TypeOK
  BY <1>1 DEF TypeOK
<1>3. CursorAccounted
  <2>1. Accounted(FreshDriver)
    BY DEF Accounted, FreshDriver
  <2> QED  BY <2>1 DEF CursorAccounted
<1>4. ASSUME NEW p \in Peers PROVE WithinStream(p) /\ Unbroken(p)
  BY <1>4, OtherPeer DEF WithinStream, Unbroken, AcksAreTrue, Retained, NoResync, Gapless, Resends, FreshDriver, Arrives, Reaches
<1> QED  BY <1>2, <1>3, <1>4 DEF IInv, Unbroken

(* It is enough to look at the stepping peer and at the other.              *)
LEMMA Both ==
  ASSUME NEW p \in Peers, TypeOK', CursorAccounted',
         WithinStream(p)', WithinStream(Other(p))',
         restarts' = 0 => Unbroken(p)' /\ Unbroken(Other(p))'
  PROVE  IInv'
  BY OtherPeer DEF IInv, Unbroken

LEMMA Fields ==
  ASSUME NEW d \in Drivers
  PROVE  /\ {d.host, d.drained, d.ackedThrough, d.lastEpoch} \subseteq 0 .. MaxEpoch
         /\ {d.ackOwed, d.replayPending, d.stalled, d.resyncing} \subseteq BOOLEAN
         /\ {d.outbox, d.todo, d.unfolded, d.folded, d.dropped} \subseteq SUBSET (1 .. MaxEpoch)
         /\ d.phase \in Phases
  BY DEF Drivers, Epochs

LEMMA Typed ==
  ASSUME NEW p \in Peers, TypeOK, NEW d \in Drivers, Becomes(p, d),
         link' \in [Peers -> Seq(Messages)], joined' \subseteq Peers,
         faults' \in 0 .. MaxFaults, UNCHANGED restarts
  PROVE  /\ TypeOK'
         /\ driver'[p] = d
         /\ driver'[Other(p)] = driver[Other(p)]
  BY OtherPeer DEF TypeOK, Becomes

LEMMA InTransit ==
  ASSUME TypeOK, NEW p \in Peers
  PROVE  /\ link[p] \in Seq(Messages) /\ Len(link[p]) \in Nat
         /\ \A i \in 1 .. Len(link[p]) :
              link[p][i] \in Messages /\ link[p][i].epoch \in Nat
<1>1. link[p] \in Seq(Messages) /\ Len(link[p]) \in Nat
  BY DEF TypeOK
<1>2. \A m \in Messages : m.epoch \in Nat
  BY BoundsAssumption DEF Messages, Epochs
<1> QED  BY <1>1, <1>2

(* What a step that leaves p's own direction alone keeps of it.             *)
LEMMA StaysResent ==
  ASSUME NEW p \in Peers, TypeOK, TypeOK', Resends(p),
         p \in joined' => p \in joined,
         link'[p] = link[p],
         driver'[p].drained = driver[p].drained,
         driver'[p].todo = driver[p].todo,
         driver'[p].phase = driver[p].phase,
         driver'[p].stalled = driver[p].stalled,
         driver'[p].replayPending = driver[p].replayPending,
         driver[Other(p)].lastEpoch <= driver'[Other(p)].lastEpoch
  PROVE  Resends(p)'
<1>1. driver[Other(p)].lastEpoch \in Int /\ driver'[Other(p)].lastEpoch \in Int /\ driver[p].drained \in Nat
  BY OtherPeer, BoundsAssumption DEF TypeOK, Drivers, Epochs
<1>2. \A e \in 1 .. driver[p].drained : Arrives(p, e) => Arrives(p, e)'
  BY <1>1 DEF Arrives, Reaches
<1> QED  BY <1>2 DEF Resends

LEMMA StaysUnbroken ==
  ASSUME NEW p \in Peers, TypeOK, TypeOK', Unbroken(p),
         link'[p] = link[p],
         driver'[p].drained = driver[p].drained,
         driver'[p].outbox = driver[p].outbox,
         driver'[p].ackedThrough = driver[p].ackedThrough,
         driver'[p].resyncing = driver[p].resyncing,
         driver[p].lastEpoch <= driver'[p].lastEpoch,
         driver[Other(p)].lastEpoch <= driver'[Other(p)].lastEpoch,
         Resends(p)'
  PROVE  Unbroken(p)'
<1> USE BoundsAssumption
<1>1. /\ {driver[Other(p)].lastEpoch, driver'[Other(p)].lastEpoch} \subseteq Nat
      /\ {driver[p].lastEpoch, driver'[p].lastEpoch, driver[p].drained, driver[p].ackedThrough} \subseteq Nat
  BY OtherPeer DEF TypeOK, Drivers, Epochs
<1>2. link[p] \in Seq(Messages)
  BY DEF TypeOK
<1>3. AcksAreTrue(p)'
  <2>1. \A i \in 1 .. Len(link[p]) : link[p][i].epoch \in Nat
    BY InTransit
  <2> QED  BY <1>1, <2>1, SMTT(30) DEF Unbroken, AcksAreTrue
<1>4. Retained(p)' /\ NoResync(p)'
  BY <1>1 DEF Unbroken, Retained, NoResync
<1>5. ASSUME NEW e \in Nat, NEW n \in Nat, Reaches(p, e, n) PROVE Reaches(p, e, n)'
  BY <1>1, <1>5 DEF Reaches
<1>6. Gapless(p)'
  <2> SUFFICES ASSUME NEW i \in 1 .. Len(link[p]), link[p][i].kind = "delta",
                      NEW e \in 1 .. link[p][i].epoch - 1
               PROVE  Reaches(p, e, i - 1)'
    BY DEF Gapless
  <2>1. link[p][i] \in Messages /\ i \in Nat /\ i - 1 \in Nat
    BY <1>2
  <2>2. e \in Nat
    BY <2>1 DEF Messages, Epochs
  <2> QED  BY <1>5, <2>1, <2>2 DEF Unbroken, Gapless
<1> QED  BY <1>3, <1>4, <1>6 DEF Unbroken

(* The two records agree on everything the other peer depends on.           *)
SameStream(d, new) ==
  /\ new.host = d.host /\ new.drained = d.drained /\ new.outbox = d.outbox
  /\ new.ackedThrough = d.ackedThrough /\ new.resyncing = d.resyncing
  /\ new.lastEpoch = d.lastEpoch

(* A step of p that neither sends nor receives, ...                         *)
LEMMA Local ==
  ASSUME IInv, NEW p \in Peers, NEW new \in Drivers, Becomes(p, new),
         UNCHANGED <<link, joined, restarts>>, faults' \in 0 .. MaxFaults,
         driver[p].host <= new.host,
         new.drained = driver[p].drained,
         new.outbox = driver[p].outbox,
         new.ackedThrough = driver[p].ackedThrough,
         new.resyncing = driver[p].resyncing,
         new.lastEpoch = driver[p].lastEpoch,
         new.todo \subseteq 1 .. new.drained,
         Accounted(new),
         Resends(p) /\ Retained(p) /\ AcksAreTrue(p) => Resends(p)'
  PROVE  IInv'
<1> USE BoundsAssumption
<1> DEFINE q == Other(p)
           d == driver[p]
<1>1. q \in Peers /\ q # p /\ Other(q) = p
  BY OtherPeer
<1>2. /\ TypeOK /\ CursorAccounted /\ WithinStream(p) /\ WithinStream(q)
      /\ restarts = 0 => Unbroken(p) /\ Unbroken(q)
  BY <1>1 DEF IInv, Unbroken
<1>3. /\ TypeOK' /\ driver'[p] = new /\ driver'[q] = driver[q]
  BY <1>2, Typed DEF TypeOK
<1>4. CursorAccounted'
  BY <1>1, <1>2, <1>3, OtherPeer DEF CursorAccounted
<1>5. {d.host, d.drained, new.host, d.lastEpoch, driver[q].lastEpoch} \subseteq Nat
  BY <1>1, <1>2, Fields DEF TypeOK
<1>6. \A s \in Peers : \A i \in 1 .. Len(link[s]) : link[s][i].epoch \in Nat
  BY <1>2, InTransit
<1>7. WithinStream(p)'
  <2>1. new.drained <= new.host /\ driver[q].lastEpoch <= new.host
    BY <1>2, <1>5 DEF WithinStream
  <2>2. d.outbox \cup new.todo \subseteq 1 .. d.drained
    BY <1>2 DEF WithinStream
  <2>3. \A i \in 1 .. Len(link[p]) :
          /\ link[p][i].kind = "delta" => link[p][i].epoch \in 1 .. d.drained
          /\ link[p][i].kind = "snapshot" =>
               /\ driver[q].lastEpoch <= link[p][i].epoch
               /\ link[p][i].epoch <= d.host
               /\ \A j \in 1 .. i - 1 :
                    link[p][j].kind \in {"delta", "snapshot"} =>
                      link[p][j].epoch <= link[p][i].epoch
    BY <1>2 DEF WithinStream
  <2>4. \A n \in Nat : n <= d.host => n <= new.host
    BY <1>5
  <2>5. \A i \in 1 .. Len(link[p]) : link[p][i].kind = "snapshot" => link[p][i].epoch <= new.host
    BY <1>1, <1>6, <2>3, <2>4
  <2> QED  BY <1>1, <1>3, <2>1, <2>2, <2>3, <2>5 DEF WithinStream
<1>8. WithinStream(q)'
  BY <1>1, <1>2, <1>3 DEF WithinStream
<1>9. restarts = 0 => Unbroken(p)'
  BY <1>1, <1>2, <1>3, <1>5, StaysUnbroken DEF Unbroken
<1>10. restarts = 0 => Unbroken(q)'
  BY <1>1, <1>2, <1>3, <1>5, StaysUnbroken, StaysResent DEF Unbroken
<1> QED  BY <1>1, <1>3, <1>4, <1>7, <1>8, <1>9, <1>10, Both

LEMMA EnqueueIInv ==
  ASSUME IInv, NEW p \in Peers, Enqueue(p)
  PROVE  IInv'
<1> USE BoundsAssumption
<1> DEFINE d == driver[p]
           new == [d EXCEPT !.host = @ + 1]
<1>1. /\ d \in Drivers /\ d.host \in Nat /\ d.host < MaxEpoch
      /\ faults \in 0 .. MaxFaults /\ WithinStream(p) /\ Accounted(d) /\ TypeOK
  BY Fields DEF IInv, TypeOK, Enqueue, CursorAccounted
<1>2. new \in Drivers
  BY <1>1 DEF Drivers, Epochs
<1>3. Becomes(p, new) /\ UNCHANGED <<link, joined, restarts, faults>>
  BY DEF Enqueue, NoSend
<1>4. /\ new.host = d.host + 1 /\ new.drained = d.drained
      /\ new.outbox = d.outbox /\ new.todo = d.todo
      /\ new.ackedThrough = d.ackedThrough /\ new.resyncing = d.resyncing
      /\ new.lastEpoch = d.lastEpoch
      /\ new.phase = d.phase /\ new.stalled = d.stalled /\ new.replayPending = d.replayPending
      /\ new.folded = d.folded /\ new.unfolded = d.unfolded /\ new.dropped = d.dropped
  BY <1>1 DEF Drivers
<1> HIDE DEF new
<1>5. Accounted(new) /\ new.todo \subseteq 1 .. new.drained
  BY <1>1, <1>4 DEF Accounted, WithinStream
<1>6. Resends(p) => Resends(p)'
  <2>1. TypeOK' /\ driver'[p] = new /\ driver'[Other(p)] = driver[Other(p)]
    BY <1>1, <1>2, <1>3, Typed DEF TypeOK
  <2>2. driver[Other(p)].lastEpoch \in Nat
    BY <1>1, OtherPeer, Fields DEF TypeOK
  <2> QED  BY <1>1, <1>3, <1>4, <2>1, <2>2, StaysResent
<1> QED  BY <1>1, <1>2, <1>3, <1>4, <1>5, <1>6, Local

LEMMA PhaseStep ==
  ASSUME IInv, NEW p \in Peers, NEW ph \in {"drain", "receive", "ack"},
         driver[p].phase # "idle",
         driver[p].phase = "replay" => driver[p].todo = {},
         Becomes(p, [driver[p] EXCEPT !.phase = ph]), NoSend
  PROVE  IInv'
<1> USE BoundsAssumption
<1> DEFINE d == driver[p]
           new == [d EXCEPT !.phase = ph]
<1>1. /\ d \in Drivers /\ faults \in 0 .. MaxFaults /\ WithinStream(p)
      /\ Accounted(d) /\ TypeOK
  BY DEF IInv, TypeOK, CursorAccounted
<1>2. new \in Drivers
  BY <1>1 DEF Drivers, Phases
<1>3. Becomes(p, new) /\ UNCHANGED <<link, joined, restarts, faults>>
  BY DEF NoSend
<1>4. /\ SameStream(d, new) /\ new.todo = d.todo /\ new.phase = ph
      /\ new.stalled = d.stalled /\ new.replayPending = d.replayPending
      /\ new.folded = d.folded /\ new.unfolded = d.unfolded /\ new.dropped = d.dropped
  BY <1>1 DEF Drivers, SameStream
<1> HIDE DEF new
<1>5. Accounted(new) /\ new.todo \subseteq 1 .. new.drained /\ d.host \in Nat
  BY <1>1, <1>4, Fields DEF Accounted, WithinStream, SameStream
<1>6. /\ TypeOK' /\ driver'[p] = new /\ driver'[Other(p)] = driver[Other(p)]
  BY <1>1, <1>2, <1>3, Typed DEF TypeOK
<1>7. Resends(p) => Resends(p)'
  BY <1>3, <1>4, <1>6 DEF Resends, Arrives, Reaches, SameStream
<1> QED  BY <1>1, <1>2, <1>3, <1>4, <1>5, <1>7, Local DEF SameStream

LEMMA StartTickIInv ==
  ASSUME IInv, NEW p \in Peers, StartTick(p)
  PROVE  IInv'
<1> USE BoundsAssumption
<1> DEFINE d == driver[p]
<1>1. /\ d \in Drivers /\ faults \in 0 .. MaxFaults /\ WithinStream(p)
      /\ Accounted(d) /\ TypeOK /\ d.phase = "idle"
  BY DEF IInv, TypeOK, CursorAccounted, StartTick
<1>2. UNCHANGED <<link, joined, restarts, faults>>
  BY DEF NoSend, StartTick
<1>3. CASE d.replayPending
  <2> DEFINE new == [d EXCEPT !.phase = "replay", !.replayPending = FALSE,
                              !.todo = UnackedSuffix(d)]
  <2>1. UnackedSuffix(d) \subseteq d.outbox
    BY DEF UnackedSuffix
  <2>2. new \in Drivers
    BY <1>1, <2>1 DEF Drivers, Phases
  <2>3. Becomes(p, new)
    BY <1>3 DEF StartTick
  <2>4. /\ SameStream(d, new) /\ new.todo = UnackedSuffix(d) /\ new.phase = "replay"
        /\ new.replayPending = FALSE
        /\ new.folded = d.folded /\ new.unfolded = d.unfolded /\ new.dropped = d.dropped
    BY <1>1 DEF Drivers, SameStream
  <2> HIDE DEF new
  <2>5. Accounted(new) /\ new.todo \subseteq 1 .. new.drained /\ d.host \in Nat
    BY <1>1, <2>1, <2>4, Fields DEF Accounted, WithinStream, SameStream
  <2>6. /\ TypeOK' /\ driver'[p] = new /\ driver'[Other(p)] = driver[Other(p)]
    BY <1>1, <1>2, <2>2, <2>3, Typed DEF TypeOK
  <2>7. {driver[Other(p)].lastEpoch, d.drained, d.ackedThrough} \subseteq Nat
    BY <1>1, OtherPeer, Fields DEF TypeOK
  <2>8. Retained(p) /\ AcksAreTrue(p) => Resends(p)'
    BY <1>1, <1>2, <2>4, <2>6, <2>7
    DEF Resends, Arrives, Reaches, SameStream, Retained, AcksAreTrue, UnackedSuffix
  <2> QED  BY <1>1, <1>2, <2>2, <2>3, <2>4, <2>5, <2>8, Local DEF SameStream
<1>4. CASE ~d.replayPending
  <2> DEFINE new == [d EXCEPT !.phase = "drain"]
  <2>2. new \in Drivers
    BY <1>1 DEF Drivers, Phases
  <2>3. Becomes(p, new)
    BY <1>4 DEF StartTick
  <2>4. /\ SameStream(d, new) /\ new.todo = d.todo /\ new.phase = "drain"
        /\ new.replayPending = d.replayPending /\ new.stalled = d.stalled
        /\ new.folded = d.folded /\ new.unfolded = d.unfolded /\ new.dropped = d.dropped
    BY <1>1 DEF Drivers, SameStream
  <2> HIDE DEF new
  <2>5. Accounted(new) /\ new.todo \subseteq 1 .. new.drained /\ d.host \in Nat
    BY <1>1, <2>4, Fields DEF Accounted, WithinStream, SameStream
  <2>6. /\ TypeOK' /\ driver'[p] = new /\ driver'[Other(p)] = driver[Other(p)]
    BY <1>1, <1>2, <2>2, <2>3, Typed DEF TypeOK
  <2>7. Resends(p) => Resends(p)'
    BY <1>1, <1>2, <1>4, <2>4, <2>6 DEF Resends, Arrives, Reaches, SameStream
  <2> QED  BY <1>1, <1>2, <2>2, <2>3, <2>4, <2>5, <2>7, Local DEF SameStream
<1> QED  BY <1>3, <1>4

LEMMA ReceiveThrowsIInv ==
  ASSUME IInv, NEW p \in Peers, ReceiveThrows(p)
  PROVE  IInv'
<1> USE BoundsAssumption
<1> DEFINE d == driver[p]
           new == [d EXCEPT !.phase = "idle", !.dropped = @ \cup d.unfolded,
                            !.unfolded = {}]
<1>1. /\ d \in Drivers /\ faults \in 0 .. MaxFaults /\ WithinStream(p)
      /\ Accounted(d) /\ TypeOK
  BY DEF IInv, TypeOK, CursorAccounted
<1>2. new \in Drivers
  BY <1>1 DEF Drivers, Phases
<1>3. Becomes(p, new) /\ UNCHANGED <<link, joined, restarts, faults>> /\ p \notin joined
  BY DEF NoSend, ReceiveThrows
<1>4. /\ SameStream(d, new) /\ new.todo = d.todo /\ new.phase = "idle"
      /\ new.folded = d.folded /\ new.unfolded = {} /\ new.dropped = d.dropped \cup d.unfolded
  BY <1>1 DEF Drivers, SameStream
<1> HIDE DEF new
<1>5. Accounted(new) /\ new.todo \subseteq 1 .. new.drained /\ d.host \in Nat
  BY <1>1, <1>4, Fields DEF Accounted, WithinStream, SameStream
<1>6. /\ TypeOK' /\ driver'[p] = new /\ driver'[Other(p)] = driver[Other(p)]
  BY <1>1, <1>2, <1>3, Typed DEF TypeOK
<1>7. Resends(p)'
  BY <1>3, <1>4, <1>6 DEF Resends
<1> QED  BY <1>1, <1>2, <1>3, <1>4, <1>5, <1>7, Local DEF SameStream

LEMMA ReturnStep ==
  ASSUME IInv, NEW p \in Peers, driver[p].phase = "ack",
         Becomes(p, Return(driver[p])), faults' \in 0 .. MaxFaults,
         UNCHANGED <<link, joined, restarts>>
  PROVE  IInv'
<1> USE BoundsAssumption
<1> DEFINE d == driver[p]
           new == Return(d)
<1>1. /\ d \in Drivers /\ WithinStream(p) /\ Accounted(d) /\ TypeOK
  BY DEF IInv, TypeOK, CursorAccounted
<1>2. new \in Drivers
  BY <1>1 DEF Drivers, Phases, Return
<1>3. Becomes(p, new)
  OBVIOUS
<1>4. /\ SameStream(d, new) /\ new.todo = d.todo /\ new.phase = "idle"
      /\ new.stalled = d.stalled /\ new.replayPending = d.replayPending
      /\ new.folded = d.folded \cup d.unfolded /\ new.unfolded = {}
      /\ new.dropped = d.dropped \ d.unfolded
  BY <1>1 DEF Drivers, SameStream, Return
<1> HIDE DEF new
<1>5. Accounted(new) /\ new.todo \subseteq 1 .. new.drained /\ d.host \in Nat
  BY <1>1, <1>4, Fields DEF Accounted, WithinStream, SameStream
<1>6. /\ TypeOK' /\ driver'[p] = new /\ driver'[Other(p)] = driver[Other(p)]
  BY <1>1, <1>2, <1>3, Typed DEF TypeOK
<1>7. Resends(p) => Resends(p)'
  BY <1>4, <1>6 DEF Resends, Arrives, Reaches, SameStream
<1> QED  BY <1>1, <1>2, <1>3, <1>4, <1>5, <1>7, Local DEF SameStream

(* ... a step that sends a delta or an ack, and what it brings about, ...   *)
LEMMA SendStep ==
  ASSUME IInv, NEW p \in Peers, NEW new \in Drivers, NEW m \in Messages,
         p \in joined, Becomes(p, new), Delivered(p, m),
         m.kind \in {"delta", "ack"},
         m.kind = "delta" => m.epoch \in 1 .. new.drained,
         m.kind = "ack" => m.epoch = driver[p].lastEpoch,
         new.host = driver[p].host,
         driver[p].drained <= new.drained, new.drained <= new.host,
         new.outbox \cup new.todo \subseteq 1 .. new.drained,
         new.ackedThrough = driver[p].ackedThrough,
         new.resyncing = driver[p].resyncing,
         new.lastEpoch = driver[p].lastEpoch,
         Accounted(new),
         Unbroken(p) => /\ Retained(p)' /\ Resends(p)'
                        /\ m.kind = "delta" => \A e \in 1 .. m.epoch - 1 : Arrives(p, e)
  PROVE  IInv'
<1> USE BoundsAssumption
<1> DEFINE q == Other(p)
           d == driver[p]
<1>1. q \in Peers /\ q # p /\ Other(q) = p
  BY OtherPeer
<1>2. /\ TypeOK /\ CursorAccounted /\ WithinStream(p) /\ WithinStream(q)
      /\ restarts = 0 => Unbroken(p) /\ Unbroken(q)
  BY <1>1 DEF IInv, Unbroken
<1>3. /\ link[p] \in Seq(Messages) /\ Len(link[p]) \in Nat
      /\ \A i \in 1 .. Len(link[p]) : link[p][i] \in Messages /\ link[p][i].epoch \in Nat
  BY <1>2, InTransit
<1>4. /\ link' \in [Peers -> Seq(Messages)] /\ link'[p] = Append(link[p], m) /\ link'[q] = link[q]
      /\ UNCHANGED <<joined, faults, restarts>>
  BY <1>1, <1>2, <1>3, Appended DEF Delivered, TypeOK
<1>5. /\ Len(link'[p]) = Len(link[p]) + 1
      /\ \A i \in 1 .. Len(link[p]) : link'[p][i] = link[p][i]
      /\ link'[p][Len(link[p]) + 1] = m
  BY <1>3, <1>4, Appended
<1>6. /\ TypeOK' /\ driver'[p] = new /\ driver'[q] = driver[q]
  BY <1>2, <1>4, Typed DEF TypeOK
<1>7. CursorAccounted'
  BY <1>1, <1>2, <1>6, OtherPeer DEF CursorAccounted
<1>8. /\ {d.host, d.drained, new.host, new.drained, d.lastEpoch, d.ackedThrough, driver[q].lastEpoch} \subseteq Nat
      /\ m.epoch \in Nat
  BY <1>1, <1>2, Fields DEF TypeOK, Messages, Epochs
<1>9. WithinStream(p)'
  <2>1. /\ new.drained <= new.host /\ driver[q].lastEpoch <= new.host
    BY <1>2 DEF WithinStream
  <2>2. ASSUME NEW i \in 1 .. Len(link[p]) + 1
        PROVE  /\ link'[p][i].kind = "delta" => link'[p][i].epoch \in 1 .. new.drained
               /\ link'[p][i].kind = "snapshot" =>
                    /\ driver[q].lastEpoch <= link'[p][i].epoch
                    /\ link'[p][i].epoch <= new.host
                    /\ \A j \in 1 .. i - 1 :
                         link'[p][j].kind \in {"delta", "snapshot"} =>
                           link'[p][j].epoch <= link'[p][i].epoch
    <3>1. CASE i = Len(link[p]) + 1
      BY <1>5, <3>1
    <3>2. CASE i \in 1 .. Len(link[p])
      <4>1. /\ link'[p][i] = link[p][i] /\ link[p][i].epoch \in Nat
            /\ \A j \in 1 .. i - 1 : j \in 1 .. Len(link[p]) /\ link'[p][j] = link[p][j]
        BY <1>3, <1>5, <3>2
      <4>2. /\ link[p][i].kind = "delta" => link[p][i].epoch \in 1 .. d.drained
            /\ link[p][i].kind = "snapshot" =>
                 /\ driver[q].lastEpoch <= link[p][i].epoch
                 /\ link[p][i].epoch <= d.host
                 /\ \A j \in 1 .. i - 1 :
                      link[p][j].kind \in {"delta", "snapshot"} =>
                        link[p][j].epoch <= link[p][i].epoch
        BY <1>2, <3>2 DEF WithinStream
      <4>3. link[p][i].kind = "delta" => link[p][i].epoch \in 1 .. new.drained
        BY <1>8, <4>1, <4>2
      <4>4. \A j \in 1 .. i - 1 :
              link[p][i].kind = "snapshot" /\ link'[p][j].kind \in {"delta", "snapshot"} =>
                link'[p][j].epoch <= link[p][i].epoch
        BY <4>1, <4>2
      <4> QED  BY <4>1, <4>2, <4>3, <4>4
    <3> QED  BY <1>3, <3>1, <3>2
  <2> QED  BY <1>5, <1>6, <2>1, <2>2 DEF WithinStream
<1>10. WithinStream(q)'
  BY <1>1, <1>2, <1>4, <1>6 DEF WithinStream
<1>11. ASSUME restarts = 0 PROVE Unbroken(p)'
  <2>1. Unbroken(p)
    BY <1>2, <1>11
  <2>2. ASSUME NEW e \in Nat, NEW n \in 0 .. Len(link[p]), Reaches(p, e, n)
        PROVE  Reaches(p, e, n)'
    <3>1. driver'[q].lastEpoch = driver[q].lastEpoch
      BY <1>6
    <3>2. \A i \in 1 .. n : link'[p][i] = link[p][i]
      BY <1>3, <1>5
    <3> QED  BY <2>2, <3>1, <3>2 DEF Reaches
  <2>3. Gapless(p)'
    <3> SUFFICES ASSUME NEW i \in 1 .. Len(link[p]) + 1, link'[p][i].kind = "delta",
                        NEW e \in 1 .. link'[p][i].epoch - 1
                 PROVE  Reaches(p, e, i - 1)'
      BY <1>5 DEF Gapless
    <3>1. CASE i = Len(link[p]) + 1
      BY <1>3, <1>5, <1>8, <2>1, <2>2, <3>1 DEF Arrives
    <3>2. CASE i \in 1 .. Len(link[p])
      <4>1. /\ link'[p][i] = link[p][i] /\ link[p][i].kind = "delta"
            /\ e \in 1 .. link[p][i].epoch - 1
        BY <1>5, <3>2
      <4>2. e \in Nat /\ i - 1 \in 0 .. Len(link[p])
        BY <1>3, <3>2, <4>1
      <4>3. Reaches(p, e, i - 1)
        BY <2>1, <3>2, <4>1 DEF Unbroken, Gapless
      <4> QED  BY <2>2, <4>2, <4>3
    <3> QED  BY <1>3, <3>1, <3>2
  <2>4. NoResync(p)'
    <3>1. /\ ~d.resyncing
          /\ \A i \in 1 .. Len(link[p]) : link[p][i].kind \in {"delta", "ack"}
      BY <2>1 DEF Unbroken, NoResync
    <3>2. \A i \in 1 .. Len(link'[p]) : i \in 1 .. Len(link[p]) \/ i = Len(link[p]) + 1
      BY <1>3, <1>5
    <3> QED  BY <1>5, <1>6, <3>1, <3>2 DEF NoResync
  <2>5. AcksAreTrue(p)'
    <3>1. /\ d.ackedThrough <= driver[q].lastEpoch
          /\ \A i \in 1 .. Len(link[p]) :
               link[p][i].kind = "ack" => link[p][i].epoch <= d.lastEpoch
      BY <2>1 DEF Unbroken, AcksAreTrue
    <3>2. driver'[p].ackedThrough <= driver'[q].lastEpoch
      BY <1>6, <3>1
    <3>3. ASSUME NEW i \in 1 .. Len(link'[p]), link'[p][i].kind = "ack"
          PROVE  link'[p][i].epoch <= driver'[p].lastEpoch
      <4>1. CASE i = Len(link[p]) + 1
        BY <1>5, <1>6, <1>8, <3>3, <4>1
      <4>2. CASE i \in 1 .. Len(link[p])
        BY <1>5, <1>6, <3>1, <3>3, <4>2
      <4> QED  BY <1>3, <1>5, <4>1, <4>2
    <3> QED  BY <3>2, <3>3 DEF AcksAreTrue
  <2> QED  BY <2>1, <2>3, <2>4, <2>5 DEF Unbroken
<1>12. restarts = 0 => Unbroken(q)'
  <2>1. driver[p].lastEpoch <= driver'[p].lastEpoch /\ driver[q].lastEpoch <= driver'[q].lastEpoch
    BY <1>6, <1>8
  <2>2. Resends(q) => Resends(q)'
    BY <1>1, <1>2, <1>4, <1>6, <2>1, StaysResent
  <2>3. Unbroken(q) => Resends(q)
    BY DEF Unbroken
  <2> QED  BY <1>1, <1>2, <1>4, <1>6, <2>1, <2>2, <2>3, StaysUnbroken
<1> QED  BY <1>1, <1>4, <1>6, <1>7, <1>9, <1>10, <1>11, <1>12, Both

LEMMA Sent ==
  ASSUME TypeOK, NEW p \in Peers, NEW m \in Messages, Delivered(p, m),
         driver'[Other(p)] = driver[Other(p)]
  PROVE  \A e : Arrives(p, e) \/ m = Message("delta", e) => Arrives(p, e)'
<1>1. link[p] \in Seq(Messages) /\ Len(link[p]) \in Nat
  BY InTransit
<1>2. /\ Len(link'[p]) = Len(link[p]) + 1
      /\ \A i \in 1 .. Len(link[p]) : link'[p][i] = link[p][i]
      /\ link'[p][Len(link[p]) + 1] = m
  BY <1>1, Appended DEF Delivered, TypeOK
<1>3. TAKE e
<1>4. CASE Arrives(p, e)
  BY <1>1, <1>2, <1>4 DEF Arrives, Reaches
<1>5. CASE m = Message("delta", e)
  BY <1>1, <1>2, <1>5 DEF Arrives, Reaches
<1> QED  BY <1>4, <1>5

LEMMA ReplayIInv ==
  ASSUME IInv, NEW p \in Peers, Replay(p)
  PROVE  IInv'
<1> USE BoundsAssumption
<1> DEFINE d == driver[p]
<1>1. /\ d \in Drivers /\ faults \in 0 .. MaxFaults /\ WithinStream(p)
      /\ Accounted(d) /\ TypeOK /\ d.phase = "replay" /\ joined \subseteq Peers
  BY DEF IInv, TypeOK, CursorAccounted, Replay
<1>2. {d.host, d.drained} \subseteq Nat
  BY <1>1, Fields
<1>3. ASSUME NEW e \in Oldest(d.todo), Delivered(p, Message("delta", e)),
             Becomes(p, [d EXCEPT !.todo = @ \ {e}])
      PROVE  IInv'
  <2> DEFINE new == [d EXCEPT !.todo = @ \ {e}]
             m == Message("delta", e)
  <2>1. e \in d.todo /\ (\A x \in d.todo : e <= x) /\ d.todo \subseteq 1 .. d.drained
    BY <1>1, <1>3 DEF Oldest, WithinStream
  <2>2. new \in Drivers
    BY <1>1 DEF Drivers
  <2>3. /\ SameStream(d, new) /\ new.todo = d.todo \ {e} /\ new.phase = "replay"
        /\ new.stalled = d.stalled /\ new.replayPending = d.replayPending
        /\ new.folded = d.folded /\ new.unfolded = d.unfolded /\ new.dropped = d.dropped
    BY <1>1 DEF Drivers, SameStream
  <2>4. Becomes(p, new)
    BY <1>3
  <2> HIDE DEF new
  <2>5. e \in 1 .. MaxEpoch
    BY <1>1, <2>1, Fields
  <2>6. m \in Messages /\ m.kind = "delta" /\ m.epoch = e
    BY <2>5 DEF Message, Messages, Epochs
  <2>7. /\ Accounted(new) /\ new.drained <= new.host
        /\ new.outbox \cup new.todo \subseteq 1 .. new.drained
    BY <1>1, <2>3 DEF Accounted, WithinStream, SameStream
  <2>8. p \in joined /\ UNCHANGED <<joined, restarts, faults>>
    BY <1>3 DEF Delivered
  <2>9. driver'[p] = new /\ driver'[Other(p)] = driver[Other(p)]
    BY <1>1, <2>2, <2>4, OtherPeer DEF TypeOK, Becomes
  <2>10. ASSUME Unbroken(p)
         PROVE  /\ Retained(p)' /\ Resends(p)'
                /\ \A x \in 1 .. e - 1 : Arrives(p, x)
    <3>1. \A x \in 1 .. d.drained : x \in d.todo \/ Arrives(p, x)
      BY <1>1, <2>8, <2>10 DEF Unbroken, Resends
    <3>2. \A x \in 1 .. d.drained : x \in new.todo \/ Arrives(p, x)'
      BY <1>1, <1>3, <2>3, <2>6, <2>9, <3>1, Sent
    <3>3. Resends(p)'
      BY <1>1, <2>3, <2>8, <2>9, <2>10, <3>2 DEF Unbroken, Resends, SameStream
    <3>4. Retained(p)'
      BY <2>3, <2>9, <2>10 DEF Unbroken, Retained, SameStream
    <3>5. ASSUME NEW x \in 1 .. e - 1 PROVE Arrives(p, x)
      <4>1. x \in 1 .. d.drained /\ x < e
        BY <1>2, <2>1, <3>5
      <4> QED  BY <1>2, <2>1, <3>1, <4>1
    <3> QED  BY <3>3, <3>4, <3>5
  <2>11. d.host = new.host /\ d.drained = new.drained /\ d.drained <= new.drained
    BY <1>2, <2>3 DEF SameStream
  <2>12. m.kind = "delta" => m.epoch \in 1 .. new.drained
    BY <2>1, <2>6, <2>11
  <2> QED
    BY <1>3, <2>2, <2>3, <2>4, <2>6, <2>7, <2>8, <2>10, <2>11, <2>12, SendStep DEF SameStream
<1>4. ASSUME Refused(p),
             Becomes(p, [d EXCEPT !.stalled = TRUE, !.replayPending = TRUE,
                                  !.todo = {}, !.phase = "drain"])
      PROVE  IInv'
  <2> DEFINE new == [d EXCEPT !.stalled = TRUE, !.replayPending = TRUE,
                              !.todo = {}, !.phase = "drain"]
  <2>1. new \in Drivers
    BY <1>1 DEF Drivers, Phases
  <2>2. /\ SameStream(d, new) /\ new.todo = {} /\ new.phase = "drain"
        /\ new.stalled = TRUE /\ new.replayPending = TRUE
        /\ new.folded = d.folded /\ new.unfolded = d.unfolded /\ new.dropped = d.dropped
    BY <1>1 DEF Drivers, SameStream
  <2>3. Becomes(p, new)
    BY <1>4
  <2> HIDE DEF new
  <2>4. UNCHANGED <<link, joined, restarts>> /\ faults' \in 0 .. MaxFaults
    BY <1>1, <1>4 DEF Refused, CountFault
  <2>5. Accounted(new) /\ new.todo \subseteq 1 .. new.drained
    BY <1>1, <2>2 DEF Accounted, SameStream
  <2>6. driver'[p] = new
    BY <1>1, <2>1, <2>3, <2>4, Typed DEF TypeOK
  <2>7. Resends(p)'
    BY <2>2, <2>6 DEF Resends
  <2> QED  BY <1>2, <2>1, <2>2, <2>3, <2>4, <2>5, <2>7, Local DEF SameStream
<1> QED  BY <1>3, <1>4 DEF Replay

LEMMA AckCursorIInv ==
  ASSUME IInv, NEW p \in Peers, AckCursor(p)
  PROVE  IInv'
<1> USE BoundsAssumption
<1> DEFINE d == driver[p]
<1>1. /\ d \in Drivers /\ faults \in 0 .. MaxFaults /\ WithinStream(p)
      /\ Accounted(d) /\ TypeOK /\ d.phase = "ack" /\ joined \subseteq Peers
  BY DEF IInv, TypeOK, CursorAccounted, AckCursor
<1>2. {d.host, d.drained} \subseteq Nat /\ d.lastEpoch \in 0 .. MaxEpoch
  BY <1>1, Fields
<1>3. ASSUME Delivered(p, Message("ack", d.lastEpoch)),
             Becomes(p, [Return(d) EXCEPT !.ackOwed = FALSE])
      PROVE  IInv'
  <2> DEFINE new == [Return(d) EXCEPT !.ackOwed = FALSE]
             m == Message("ack", d.lastEpoch)
  <2>1. new \in Drivers
    BY <1>1 DEF Drivers, Phases, Return
  <2>2. /\ SameStream(d, new) /\ new.todo = d.todo /\ new.phase = "idle"
        /\ new.stalled = d.stalled /\ new.replayPending = d.replayPending
        /\ new.folded = d.folded \cup d.unfolded /\ new.unfolded = {}
        /\ new.dropped = d.dropped \ d.unfolded
    BY <1>1 DEF Drivers, SameStream, Return
  <2>3. Becomes(p, new)
    BY <1>3
  <2> HIDE DEF new
  <2>4. m \in Messages /\ m.kind = "ack" /\ m.epoch = d.lastEpoch
    BY <1>2 DEF Message, Messages, Epochs
  <2>5. /\ Accounted(new) /\ new.drained <= new.host
        /\ new.outbox \cup new.todo \subseteq 1 .. new.drained
    BY <1>1, <2>2 DEF Accounted, WithinStream, SameStream
  <2>6. p \in joined /\ UNCHANGED <<joined, restarts, faults>>
    BY <1>3 DEF Delivered
  <2>7. driver'[p] = new /\ driver'[Other(p)] = driver[Other(p)]
    BY <1>1, <2>1, <2>3, OtherPeer DEF TypeOK, Becomes
  <2>8. ASSUME Unbroken(p) PROVE Retained(p)' /\ Resends(p)'
    <3>1. \A x : Arrives(p, x) => Arrives(p, x)'
      BY <1>1, <1>3, <2>4, <2>7, Sent
    <3>2. Resends(p)'
      BY <1>1, <2>2, <2>6, <2>7, <2>8, <3>1 DEF Unbroken, Resends, SameStream
    <3> QED  BY <2>2, <2>7, <2>8, <3>2 DEF Unbroken, Retained, SameStream
  <2>9. d.drained <= new.drained
    BY <1>2, <2>2 DEF SameStream
  <2> QED
    BY <1>3, <2>1, <2>2, <2>3, <2>4, <2>5, <2>6, <2>8, <2>9, SendStep DEF SameStream
<1>4. ASSUME Refused(p), Becomes(p, Return(d)) PROVE IInv'
  <2>1. UNCHANGED <<link, joined, restarts>> /\ faults' \in 0 .. MaxFaults
    BY <1>1, <1>4 DEF Refused, CountFault
  <2> QED  BY <1>1, <1>4, <2>1, ReturnStep
<1>5. ASSUME NoSend, Becomes(p, Return(d)) PROVE IInv'
  BY <1>1, <1>5, ReturnStep DEF NoSend
<1> QED  BY <1>3, <1>4, <1>5 DEF AckCursor

LEMMA DrainIInv ==
  ASSUME IInv, NEW p \in Peers, Drain(p)
  PROVE  IInv'
<1> USE BoundsAssumption
<1> DEFINE d == driver[p]
           e == d.drained + 1
           appended == [d EXCEPT !.drained = e, !.outbox = @ \cup {e}]
           q == Other(p)
<1>1. /\ d \in Drivers /\ faults \in 0 .. MaxFaults /\ WithinStream(p)
      /\ Accounted(d) /\ TypeOK /\ d.phase = "drain" /\ ~d.stalled
      /\ d.drained < d.host /\ joined \subseteq Peers
  BY DEF IInv, TypeOK, CursorAccounted, Drain
<1>2. /\ {d.host, d.drained} \subseteq 0 .. MaxEpoch /\ e \in 1 .. MaxEpoch
      /\ d.outbox \cup {e} \in SUBSET (1 .. MaxEpoch) /\ e \in 0 .. MaxEpoch
  BY <1>1, Fields
<1>3. ASSUME Delivered(p, Message("delta", e)), Becomes(p, appended)
      PROVE  IInv'
  <2> DEFINE m == Message("delta", e)
  <2>1. appended \in Drivers
    BY <1>1, <1>2 DEF Drivers, Epochs
  <2>2. /\ appended.host = d.host /\ appended.drained = e
        /\ appended.outbox = d.outbox \cup {e} /\ appended.todo = d.todo
        /\ appended.ackedThrough = d.ackedThrough /\ appended.resyncing = d.resyncing
        /\ appended.lastEpoch = d.lastEpoch
        /\ appended.phase = "drain" /\ appended.stalled = FALSE
        /\ appended.replayPending = d.replayPending
        /\ appended.folded = d.folded /\ appended.unfolded = d.unfolded
        /\ appended.dropped = d.dropped
    BY <1>1 DEF Drivers
  <2>3. Becomes(p, appended)
    BY <1>3
  <2> HIDE DEF appended
  <2>4. m \in Messages /\ m.kind = "delta" /\ m.epoch = e
    BY <1>2 DEF Message, Messages, Epochs
  <2>5. d.outbox \cup d.todo \subseteq 1 .. d.drained
    BY <1>1 DEF WithinStream
  <2>6. /\ Accounted(appended) /\ appended.drained <= appended.host
        /\ d.drained <= appended.drained
        /\ appended.outbox \cup appended.todo \subseteq 1 .. appended.drained
    BY <1>1, <1>2, <2>2, <2>5 DEF Accounted
  <2>7. p \in joined /\ UNCHANGED <<joined, restarts, faults>>
    BY <1>3 DEF Delivered
  <2>8. driver'[p] = appended /\ driver'[q] = driver[q]
    BY <1>1, <2>1, <2>3, OtherPeer DEF TypeOK, Becomes
  <2>9. ASSUME Unbroken(p)
        PROVE  /\ Retained(p)' /\ Resends(p)'
               /\ \A x \in 1 .. e - 1 : Arrives(p, x)
    <3>1. \A x \in 1 .. d.drained : Arrives(p, x)
      BY <1>1, <2>7, <2>9 DEF Unbroken, Resends
    <3>2. \A x \in 1 .. e : x \in 1 .. d.drained \/ x = e
      BY <1>2
    <3>3. \A x \in 1 .. e : Arrives(p, x)'
      BY <1>1, <1>3, <2>4, <2>8, <3>1, <3>2, Sent
    <3>4. Resends(p)'
      BY <1>1, <2>2, <2>7, <2>8, <2>9, <3>3 DEF Unbroken, Resends
    <3>5. Retained(p)'
      BY <2>2, <2>8, <2>9, <3>2 DEF Unbroken, Retained
    <3> QED  BY <1>2, <3>1, <3>4, <3>5
  <2>10. m.kind = "delta" => m.epoch \in 1 .. appended.drained
    BY <1>2, <2>2, <2>4
  <2> QED
    BY <1>3, <2>1, <2>2, <2>3, <2>4, <2>6, <2>7, <2>9, <2>10, SendStep
<1>4. ASSUME Refused(p),
             Becomes(p, [appended EXCEPT !.stalled = TRUE, !.phase = "receive"])
      PROVE  IInv'
  <2> DEFINE new == [appended EXCEPT !.stalled = TRUE, !.phase = "receive"]
  <2>1. new \in Drivers
    BY <1>1, <1>2 DEF Drivers, Epochs, Phases
  <2>2. /\ new.host = d.host /\ new.drained = e
        /\ new.outbox = d.outbox \cup {e} /\ new.todo = d.todo
        /\ new.ackedThrough = d.ackedThrough /\ new.resyncing = d.resyncing
        /\ new.lastEpoch = d.lastEpoch
        /\ new.phase = "receive" /\ new.stalled = TRUE
        /\ new.folded = d.folded /\ new.unfolded = d.unfolded /\ new.dropped = d.dropped
    BY <1>1 DEF Drivers
  <2>3. Becomes(p, new)
    BY <1>4
  <2> HIDE DEF new
  <2>4. UNCHANGED <<link, joined, restarts>> /\ faults' \in 0 .. MaxFaults
    BY <1>1, <1>4 DEF Refused, CountFault
  <2>5. /\ TypeOK' /\ driver'[p] = new /\ driver'[q] = driver[q]
    BY <1>1, <2>1, <2>3, <2>4, Typed DEF TypeOK
  <2>6. /\ q \in Peers /\ q # p /\ Other(q) = p
        /\ WithinStream(q) /\ CursorAccounted
        /\ restarts = 0 => Unbroken(p) /\ Unbroken(q)
    BY OtherPeer DEF IInv, Unbroken
  <2>7. CursorAccounted'
    BY <1>1, <2>2, <2>5, <2>6, OtherPeer DEF CursorAccounted, Accounted
  <2>8. WithinStream(p)'
    <3>1. \A n : n \in 1 .. d.drained => n \in 1 .. e
      BY <1>2
    <3>2. e <= d.host /\ e \in 1 .. e
      BY <1>1, <1>2
    <3> QED  BY <1>1, <2>2, <2>4, <2>5, <3>1, <3>2 DEF WithinStream
  <2>9. WithinStream(q)'
    BY <2>2, <2>4, <2>5, <2>6 DEF WithinStream
  <2>10. ASSUME Unbroken(p) PROVE Unbroken(p)'
    <3>1. \A x \in 1 .. e : x \in 1 .. d.drained \/ x = e
      BY <1>2
    <3>2. Retained(p)'
      BY <2>2, <2>5, <2>10, <3>1 DEF Unbroken, Retained
    <3>3. Resends(p)'
      BY <2>2, <2>5 DEF Resends
    <3>4. AcksAreTrue(p)' /\ NoResync(p)' /\ Gapless(p)'
      BY <2>2, <2>4, <2>5, <2>10 DEF Unbroken, AcksAreTrue, NoResync, Gapless, Reaches
    <3> QED  BY <3>2, <3>3, <3>4 DEF Unbroken
  <2>11. ASSUME Unbroken(q) PROVE Unbroken(q)'
    <3>1. link' = link /\ joined' = joined /\ Other(q) = p /\ q # p
      BY <2>4, <2>6
    <3>2. \A x, n : Reaches(q, x, n) <=> Reaches(q, x, n)'
      BY ONLY <2>2, <2>5, <3>1 DEF Reaches
    <3>3. AcksAreTrue(q)' /\ Retained(q)' /\ NoResync(q)'
      BY <2>2, <2>5, <2>11, <3>1 DEF Unbroken, AcksAreTrue, NoResync, Retained
    <3>4. Gapless(q)'
      BY <2>11, <3>1, <3>2 DEF Unbroken, Gapless
    <3>5. Resends(q)'
      BY <2>5, <2>11, <3>1, <3>2 DEF Unbroken, Resends, Arrives
    <3> QED  BY <3>3, <3>4, <3>5 DEF Unbroken
  <2> QED  BY <2>4, <2>5, <2>6, <2>7, <2>8, <2>9, <2>10, <2>11, Both
<1> QED  BY <1>3, <1>4 DEF Drain

LEMMA PhasesIInv ==
  ASSUME IInv, NEW p \in Peers, ReplayDone(p) \/ DrainDone(p) \/ ReceiveDone(p)
  PROVE  IInv'
<1>1. CASE ReplayDone(p)
  BY <1>1, PhaseStep DEF ReplayDone
<1>2. CASE DrainDone(p)
  BY <1>2, PhaseStep DEF DrainDone
<1>3. CASE ReceiveDone(p)
  BY <1>3, PhaseStep DEF ReceiveDone
<1> QED  BY <1>1, <1>2, <1>3

(* ... and a step that takes the oldest message from the other direction.   *)
LEMMA Advance ==
  ASSUME TypeOK, TypeOK', NEW q \in Peers, link[q] # <<>>,
         link'[q] = Tail(link[q]), driver'[q] = driver[q], UNCHANGED joined,
         driver[Other(q)].lastEpoch <= driver'[Other(q)].lastEpoch,
         link[q][1].kind = "delta" => link[q][1].epoch <= driver'[Other(q)].lastEpoch,
         Unbroken(q)
  PROVE  Unbroken(q)'
<1> USE BoundsAssumption
<1> DEFINE n == Len(link[q])
           seen == driver[Other(q)].lastEpoch
           seen2 == driver'[Other(q)].lastEpoch
<1>1. /\ n \in Nat /\ n >= 1 /\ Len(link'[q]) = n - 1
      /\ \A i \in 1 .. n - 1 : link'[q][i] = link[q][i + 1]
      /\ \A i \in 1 .. n : link[q][i] \in Messages /\ link[q][i].epoch \in Nat
  BY Consumed, InTransit DEF TypeOK
<1>2. /\ {seen, seen2} \subseteq Nat
      /\ {driver[q].ackedThrough, driver[q].drained, driver[q].lastEpoch} \subseteq Nat
  BY OtherPeer, Fields, SMTT(30) DEF TypeOK
<1>3. ASSUME NEW e \in Nat, NEW i \in 1 .. n, Reaches(q, e, i)
      PROVE  Reaches(q, e, i - 1)'
  <2>1. CASE e <= seen
    BY <1>2, <2>1 DEF Reaches
  <2>2. ASSUME NEW k \in 1 .. i, link[q][k] = Message("delta", e)
        PROVE  Reaches(q, e, i - 1)'
    <3>1. link[q][k].kind = "delta" /\ link[q][k].epoch = e
      BY <2>2 DEF Message
    <3>2. CASE k = 1
      BY <1>2, <3>1, <3>2 DEF Reaches
    <3>3. CASE k # 1
      <4>1. k - 1 \in 1 .. i - 1 /\ k - 1 \in 1 .. n - 1 /\ (k - 1) + 1 = k
        BY <1>1, <3>3
      <4>2. link'[q][k - 1] = Message("delta", e)
        BY <1>1, <2>2, <4>1
      <4> QED  BY <4>1, <4>2 DEF Reaches
    <3> QED  BY <3>2, <3>3
  <2> QED  BY <1>3, <2>1, <2>2 DEF Reaches
<1>4. AcksAreTrue(q)'
  <2>1. /\ driver[q].ackedThrough <= seen
        /\ \A i \in 1 .. n : link[q][i].kind = "ack" => link[q][i].epoch <= driver[q].lastEpoch
    BY DEF Unbroken, AcksAreTrue
  <2>2. driver'[q].ackedThrough <= driver'[Other(q)].lastEpoch
    BY <1>2, <2>1
  <2>3. ASSUME NEW i \in 1 .. n - 1, link'[q][i].kind = "ack"
        PROVE  link'[q][i].epoch <= driver'[q].lastEpoch
    BY <1>1, <2>1, <2>3
  <2> QED  BY <1>1, <2>2, <2>3 DEF AcksAreTrue
<1>5. Retained(q)'
  BY <1>2 DEF Unbroken, Retained
<1>6. NoResync(q)'
  BY <1>1 DEF Unbroken, NoResync
<1>7. Gapless(q)'
  <2> SUFFICES ASSUME NEW i \in 1 .. n - 1, link'[q][i].kind = "delta",
                      NEW e \in 1 .. link'[q][i].epoch - 1
               PROVE  Reaches(q, e, i - 1)'
    BY <1>1 DEF Gapless
  <2>1. /\ i + 1 \in 1 .. n /\ link'[q][i] = link[q][i + 1] /\ (i + 1) - 1 = i
        /\ i \in 1 .. n /\ e \in Nat
    BY <1>1
  <2>2. Reaches(q, e, i)
    BY <2>1 DEF Unbroken, Gapless
  <2> QED  BY <1>3, <2>1, <2>2
<1>8. Resends(q)'
  <2>1. \A e \in 1 .. driver[q].drained : Arrives(q, e) => Arrives(q, e)'
    BY <1>1, <1>2, <1>3 DEF Arrives
  <2> QED  BY <2>1 DEF Unbroken, Resends
<1> QED  BY <1>4, <1>5, <1>6, <1>7, <1>8 DEF Unbroken

LEMMA ReceiveStep ==
  ASSUME IInv, NEW p \in Peers, NEW new \in Drivers, Becomes(p, new),
         link[Other(p)] # <<>>,
         link' \in [Peers -> Seq(Messages)],
         link'[Other(p)] = Tail(link[Other(p)]),
         UNCHANGED <<joined, restarts>>, faults' \in 0 .. MaxFaults,
         WithinStream(p)', Accounted(new),
         driver[p].lastEpoch <= new.lastEpoch,
         \/ new.lastEpoch = driver[p].lastEpoch
         \/ /\ link[Other(p)][1].kind \in {"delta", "snapshot"}
            /\ new.lastEpoch = link[Other(p)][1].epoch,
         restarts = 0 =>
           /\ Unbroken(p)'
           /\ link[Other(p)][1].kind = "delta" =>
                link[Other(p)][1].epoch <= new.lastEpoch
  PROVE  IInv'
<1> USE BoundsAssumption
<1> DEFINE q == Other(p)
           d == driver[p]
           n == Len(link[q])
<1>1. q \in Peers /\ q # p /\ Other(q) = p
  BY OtherPeer
<1>2. /\ TypeOK /\ CursorAccounted /\ WithinStream(q)
      /\ restarts = 0 => Unbroken(q)
  BY <1>1 DEF IInv, Unbroken
<1>3. /\ TypeOK' /\ driver'[p] = new /\ driver'[q] = driver[q]
  BY <1>2, Typed DEF TypeOK
<1>4. CursorAccounted'
  BY <1>1, <1>2, <1>3, OtherPeer DEF CursorAccounted
<1>5. /\ n \in Nat /\ n >= 1 /\ Len(link'[q]) = n - 1
      /\ \A i \in 1 .. n - 1 : link'[q][i] = link[q][i + 1]
      /\ \A i \in 1 .. n : link[q][i] \in Messages /\ link[q][i].epoch \in Nat
  BY <1>1, <1>2, Consumed, InTransit DEF TypeOK
<1>6. {d.lastEpoch, new.lastEpoch, driver[q].host, driver[q].drained} \subseteq Nat
  BY <1>1, <1>2, Fields DEF TypeOK
<1>7. WithinStream(q)'
  <2>1. /\ driver[q].drained <= driver[q].host
        /\ driver[q].outbox \cup driver[q].todo \subseteq 1 .. driver[q].drained
        /\ d.lastEpoch <= driver[q].host
        /\ \A i \in 1 .. n :
             /\ link[q][i].kind = "delta" => link[q][i].epoch \in 1 .. driver[q].drained
             /\ link[q][i].kind = "snapshot" =>
                  /\ d.lastEpoch <= link[q][i].epoch
                  /\ link[q][i].epoch <= driver[q].host
                  /\ \A j \in 1 .. i - 1 :
                       link[q][j].kind \in {"delta", "snapshot"} =>
                         link[q][j].epoch <= link[q][i].epoch
    BY <1>1, <1>2 DEF WithinStream
  <2>2. 1 \in 1 .. n
    BY <1>5
  <2>3. new.lastEpoch <= driver[q].host
    BY <1>5, <1>6, <2>1, <2>2
  <2>4. ASSUME NEW i \in 1 .. n - 1
        PROVE  /\ link'[q][i].kind = "delta" => link'[q][i].epoch \in 1 .. driver[q].drained
               /\ link'[q][i].kind = "snapshot" =>
                    /\ new.lastEpoch <= link'[q][i].epoch
                    /\ link'[q][i].epoch <= driver[q].host
                    /\ \A j \in 1 .. i - 1 :
                         link'[q][j].kind \in {"delta", "snapshot"} =>
                           link'[q][j].epoch <= link'[q][i].epoch
    <3>1. /\ i + 1 \in 1 .. n /\ link'[q][i] = link[q][i + 1] /\ 1 \in 1 .. (i + 1) - 1
      BY <1>5
    <3>2. \A j \in 1 .. i - 1 :
            /\ j + 1 \in 1 .. (i + 1) - 1
            /\ link'[q][j] = link[q][j + 1]
      BY <1>5
    <3>3. link'[q][i].kind = "delta" => link'[q][i].epoch \in 1 .. driver[q].drained
      BY <2>1, <3>1
    <3>4. ASSUME link'[q][i].kind = "snapshot"
          PROVE  /\ d.lastEpoch <= link[q][i + 1].epoch
                 /\ link[q][i + 1].epoch <= driver[q].host
                 /\ \A j \in 1 .. (i + 1) - 1 :
                      link[q][j].kind \in {"delta", "snapshot"} =>
                        link[q][j].epoch <= link[q][i + 1].epoch
      BY <2>1, <3>1, <3>4
    <3>5. ASSUME link'[q][i].kind = "snapshot"
          PROVE  /\ new.lastEpoch <= link'[q][i].epoch
                 /\ \A j \in 1 .. i - 1 :
                      link'[q][j].kind \in {"delta", "snapshot"} =>
                        link'[q][j].epoch <= link'[q][i].epoch
      BY <3>1, <3>2, <3>4, <3>5
    <3> QED  BY <3>1, <3>3, <3>4, <3>5
  <2> QED  BY <1>1, <1>3, <1>5, <2>1, <2>3, <2>4 DEF WithinStream
<1>8. restarts = 0 => Unbroken(q)'
  BY <1>1, <1>2, <1>3, Advance
<1> QED  BY <1>1, <1>3, <1>4, <1>7, <1>8, Both

(* What a message that is received next can be.                             *)
LEMMA Incoming ==
  ASSUME IInv, NEW p \in Peers, driver[p].phase = "receive", Inbound(p) # <<>>
  PROVE  LET q == Other(p)
             d == driver[p]
             m == Head(Inbound(p))
         IN  /\ q \in Peers /\ q # p /\ Other(q) = p
             /\ link[q] # <<>> /\ m = link[q][1] /\ m \in Messages /\ m.epoch \in Epochs
             /\ TypeOK /\ d \in Drivers /\ WithinStream(p) /\ Accounted(d)
             /\ {d.host, d.lastEpoch, d.drained, driver[q].lastEpoch, d.ackedThrough} \subseteq Nat
             /\ m.kind = "delta" => m.epoch >= 1
             /\ m.kind = "snapshot" => d.lastEpoch <= m.epoch
             /\ restarts = 0 =>
                  /\ Unbroken(p) /\ Unbroken(q)
                  /\ m.kind \in {"delta", "ack"}
                  /\ m.kind = "delta" => m.epoch - 1 <= d.lastEpoch
                  /\ m.kind = "ack" => m.epoch <= driver[q].lastEpoch
<1> USE BoundsAssumption
<1> DEFINE q == Other(p)
           d == driver[p]
           m == Head(Inbound(p))
<1>1. q \in Peers /\ q # p /\ Other(q) = p
  BY OtherPeer
<1>2. link[q] # <<>> /\ Inbound(p) = link[q]
  BY DEF Inbound
<1>3. /\ TypeOK /\ d \in Drivers /\ driver[q] \in Drivers
      /\ WithinStream(p) /\ WithinStream(q) /\ Accounted(d)
      /\ restarts = 0 => Unbroken(p) /\ Unbroken(q)
  BY <1>1 DEF IInv, TypeOK, CursorAccounted, Unbroken
<1>4. /\ m = link[q][1] /\ m \in Messages /\ 1 \in 1 .. Len(link[q])
  BY <1>1, <1>2, <1>3, Consumed DEF TypeOK
<1>5. m.epoch \in Epochs
  BY <1>4 DEF Messages
<1>6. {d.host, d.lastEpoch, d.drained, driver[q].lastEpoch, d.ackedThrough} \subseteq Nat
  BY <1>3, Fields
<1>7. /\ m.kind = "delta" => m.epoch \in 1 .. driver[q].drained
      /\ m.kind = "snapshot" => d.lastEpoch <= m.epoch
  BY <1>1, <1>3, <1>4 DEF WithinStream
<1>8. m.kind = "delta" => m.epoch >= 1
  BY <1>3, <1>7, Fields
<1>9. ASSUME Unbroken(q)
      PROVE  /\ m.kind \in {"delta", "ack"}
             /\ m.kind = "delta" => m.epoch - 1 <= d.lastEpoch
             /\ m.kind = "ack" => m.epoch <= driver[q].lastEpoch
  <2>1. m.kind \in {"delta", "ack"}
    BY <1>4, <1>9 DEF Unbroken, NoResync
  <2>2. m.kind = "ack" => m.epoch <= driver[q].lastEpoch
    BY <1>4, <1>9 DEF Unbroken, AcksAreTrue
  <2>3. ASSUME m.kind = "delta", ~ (m.epoch - 1 <= d.lastEpoch) PROVE FALSE
    <3>1. m.epoch \in Nat /\ m.epoch - 1 \in 1 .. m.epoch - 1
      BY <1>5, <1>6, <2>3 DEF Epochs
    <3>2. Reaches(q, m.epoch - 1, 1 - 1)
      BY <1>4, <1>9, <2>3, <3>1 DEF Unbroken, Gapless
    <3> QED  BY <1>1, <2>3, <3>2 DEF Reaches
  <2> QED  BY <2>1, <2>2, <2>3
<1> QED  BY <1>1, <1>2, <1>3, <1>4, <1>5, <1>6, <1>7, <1>8, <1>9

(* A receive that sends nothing, or whose reply the sink refuses, and one  *)
(* whose reply goes out: only a restart gives a reason for one.             *)
LEMMA Unanswered ==
  ASSUME IInv, NEW p \in Peers, driver[p].phase = "receive", Inbound(p) # <<>>,
         NEW new \in Drivers, Becomes(p, new), Consume(p),
         UNCHANGED <<joined, restarts>>, faults' \in 0 .. MaxFaults,
         new.host = driver[p].host, new.drained = driver[p].drained,
         new.todo = driver[p].todo, new.outbox \subseteq driver[p].outbox,
         new.phase = driver[p].phase, new.replayPending = driver[p].replayPending,
         Accounted(new),
         driver[p].lastEpoch <= new.lastEpoch,
         \/ new.lastEpoch = driver[p].lastEpoch
         \/ /\ Head(Inbound(p)).kind \in {"delta", "snapshot"}
            /\ new.lastEpoch = Head(Inbound(p)).epoch,
         restarts = 0 =>
           /\ new.resyncing = driver[p].resyncing /\ new.stalled = driver[p].stalled
           /\ new.ackedThrough <= driver[Other(p)].lastEpoch
           /\ \A e \in driver[p].outbox \ new.outbox : e <= driver[Other(p)].lastEpoch
           /\ Head(Inbound(p)).kind = "delta" => Head(Inbound(p)).epoch <= new.lastEpoch
  PROVE  IInv'
<1> USE BoundsAssumption
<1> DEFINE q == Other(p)
           d == driver[p]
           m == Head(Inbound(p))
<1>1. /\ q \in Peers /\ q # p /\ Other(q) = p
      /\ link[q] # <<>> /\ m = link[q][1]
      /\ TypeOK /\ WithinStream(p) /\ {d.lastEpoch, d.drained} \subseteq Nat
      /\ restarts = 0 => Unbroken(p)
  BY Incoming
<1>2. /\ link' \in [Peers -> Seq(Messages)]
      /\ link'[q] = Tail(link[q]) /\ link'[p] = link[p]
  BY <1>1, Consumed DEF Consume, TypeOK
<1>3. /\ TypeOK' /\ driver'[p] = new /\ driver'[q] = driver[q]
  BY <1>1, <1>2, Typed DEF TypeOK
<1>4. WithinStream(p)'
  BY <1>1, <1>2, <1>3 DEF WithinStream
<1>5. ASSUME restarts = 0 PROVE Unbroken(p)'
  <2>1. Unbroken(p)
    BY <1>1, <1>5
  <2>2. AcksAreTrue(p)'
    <3>1. \A i \in 1 .. Len(link[p]) :
            /\ link[p][i].epoch \in Nat
            /\ link[p][i].kind = "ack" => link[p][i].epoch <= d.lastEpoch
      BY <1>1, <2>1, InTransit DEF Unbroken, AcksAreTrue
    <3>2. new.lastEpoch \in Nat
      BY Fields
    <3> QED  BY <1>1, <1>2, <1>3, <1>5, <3>1, <3>2 DEF AcksAreTrue
  <2>3. Retained(p)'
    BY <1>3, <1>5, <2>1 DEF Unbroken, Retained
  <2>4. NoResync(p)'
    BY <1>2, <1>3, <1>5, <2>1 DEF Unbroken, NoResync
  <2>5. Gapless(p)'
    <3>1. \A e, n : Reaches(p, e, n) => Reaches(p, e, n)'
      BY <1>2, <1>3 DEF Reaches
    <3> QED  BY <1>2, <2>1, <3>1 DEF Unbroken, Gapless
  <2>6. Resends(p)'
    BY <1>1, <1>2, <1>3, <1>5, <2>1 DEF Unbroken, Resends, Arrives, Reaches
  <2> QED  BY <2>2, <2>3, <2>4, <2>5, <2>6 DEF Unbroken
<1> QED  BY <1>1, <1>2, <1>4, <1>5, ReceiveStep

LEMMA Answered ==
  ASSUME IInv, NEW p \in Peers, driver[p].phase = "receive", Inbound(p) # <<>>,
         NEW new \in Drivers, Becomes(p, new),
         NEW r \in Messages, ConsumeAndSend(p, r), Rest,
         new.host = driver[p].host, new.drained = driver[p].drained,
         new.todo = driver[p].todo, new.outbox = driver[p].outbox,
         Accounted(new), new.lastEpoch = driver[p].lastEpoch,
         r.kind = "request" \/ r = Message("snapshot", driver[p].host),
         restarts # 0
  PROVE  IInv'
<1> USE BoundsAssumption
<1> DEFINE q == Other(p)
           d == driver[p]
           n == Len(link[p])
<1>1. /\ q \in Peers /\ q # p /\ Other(q) = p
      /\ link[q] # <<>>
      /\ TypeOK /\ WithinStream(p)
      /\ {d.lastEpoch, d.drained, d.host, driver[q].lastEpoch} \subseteq Nat
  BY Incoming
<1>2. /\ link' \in [Peers -> Seq(Messages)]
      /\ link'[q] = Tail(link[q]) /\ link'[p] = Append(link[p], r)
  BY <1>1, Consumed, Appended DEF ConsumeAndSend, TypeOK
<1>3. /\ TypeOK' /\ driver'[p] = new /\ driver'[q] = driver[q]
  BY <1>1, <1>2, Typed DEF TypeOK, Rest
<1>4. /\ n \in Nat /\ Len(link'[p]) = n + 1
      /\ \A i \in 1 .. n : link'[p][i] = link[p][i] /\ link[p][i].epoch \in Nat
      /\ link'[p][n + 1] = r
  BY <1>1, <1>2, Appended, InTransit, SMTT(30)
<1>5. WithinStream(p)'
  <2>1. /\ d.drained <= d.host /\ driver[q].lastEpoch <= d.host
        /\ d.outbox \cup d.todo \subseteq 1 .. d.drained
        /\ \A i \in 1 .. n :
             /\ link[p][i].kind = "delta" => link[p][i].epoch \in 1 .. d.drained
             /\ link[p][i].kind = "snapshot" =>
                  /\ driver[q].lastEpoch <= link[p][i].epoch
                  /\ link[p][i].epoch <= d.host
                  /\ \A j \in 1 .. i - 1 :
                       link[p][j].kind \in {"delta", "snapshot"} =>
                         link[p][j].epoch <= link[p][i].epoch
    BY <1>1 DEF WithinStream
  <2>2. ASSUME NEW i \in 1 .. n + 1
        PROVE  /\ link'[p][i].kind = "delta" => link'[p][i].epoch \in 1 .. d.drained
               /\ link'[p][i].kind = "snapshot" =>
                    /\ driver[q].lastEpoch <= link'[p][i].epoch
                    /\ link'[p][i].epoch <= d.host
                    /\ \A j \in 1 .. i - 1 :
                         link'[p][j].kind \in {"delta", "snapshot"} =>
                           link'[p][j].epoch <= link'[p][i].epoch
    <3>1. CASE i = n + 1
      <4>1. r.kind # "delta" /\ (r.kind = "snapshot" => r.epoch = d.host)
        BY DEF Message
      <4>2. \A j \in 1 .. n :
              link[p][j].kind \in {"delta", "snapshot"} => link[p][j].epoch <= d.host
        BY <1>1, <1>4, <2>1, SMTT(30)
      <4>3. \A j \in 1 .. i - 1 : j \in 1 .. n
        BY <1>4, <3>1
      <4>4. \A j \in 1 .. i - 1 :
              link'[p][j].kind \in {"delta", "snapshot"} => link'[p][j].epoch <= d.host
        BY <1>4, <4>2, <4>3
      <4>5. link'[p][i] = r
        BY <1>4, <3>1
      <4> QED  BY <1>1, <2>1, <4>1, <4>4, <4>5
    <3>2. CASE i \in 1 .. n
      <4>1. \A j \in 1 .. i - 1 : j \in 1 .. n
        BY <1>4, <3>2
      <4> QED  BY <1>4, <2>1, <3>2, <4>1
    <3> QED  BY <1>4, <3>1, <3>2
  <2> QED  BY <1>3, <1>4, <2>1, <2>2 DEF WithinStream
<1>6. UNCHANGED <<joined, restarts>> /\ faults' \in 0 .. MaxFaults
  BY <1>1 DEF TypeOK, Rest
<1>7. d.lastEpoch <= new.lastEpoch
  BY <1>1
<1> QED  BY <1>1, <1>2, <1>5, <1>6, <1>7, ReceiveStep

LEMMA ReplyIInv ==
  ASSUME IInv, NEW p \in Peers, driver[p].phase = "receive", Inbound(p) # <<>>,
         NEW d \in Drivers, NEW r \in Messages, Reply(p, d, r),
         d.host = driver[p].host, d.drained = driver[p].drained,
         d.todo = driver[p].todo, d.outbox = driver[p].outbox,
         d.phase = driver[p].phase, d.replayPending = driver[p].replayPending,
         Accounted(d), d.lastEpoch = driver[p].lastEpoch,
         r.kind = "request" \/ r = Message("snapshot", driver[p].host),
         restarts # 0
  PROVE  IInv'
<1> USE BoundsAssumption
<1>1. ASSUME ConsumeAndSend(p, r), Becomes(p, d), Rest PROVE IInv'
  BY <1>1, Answered
<1>2. ASSUME CountFault(p), Consume(p), Becomes(p, [d EXCEPT !.stalled = TRUE]),
             UNCHANGED <<joined, restarts>>
      PROVE  IInv'
  <2> DEFINE new == [d EXCEPT !.stalled = TRUE]
  <2>1. /\ new \in Drivers
        /\ new.host = d.host /\ new.drained = d.drained /\ new.todo = d.todo
        /\ new.outbox = d.outbox /\ new.phase = d.phase
        /\ new.replayPending = d.replayPending /\ new.lastEpoch = d.lastEpoch
        /\ new.folded = d.folded /\ new.unfolded = d.unfolded /\ new.dropped = d.dropped
    BY DEF Drivers
  <2>2. Becomes(p, new)
    BY <1>2
  <2> HIDE DEF new
  <2>3. faults' \in 0 .. MaxFaults
    BY <1>2 DEF CountFault, IInv, TypeOK
  <2>4. Accounted(new) /\ d.lastEpoch <= d.lastEpoch
    BY <2>1, Fields DEF Accounted
  <2> QED  BY <1>2, <2>1, <2>2, <2>3, <2>4, Unanswered
<1> QED  BY <1>1, <1>2 DEF Reply

LEMMA ReceiveIInv ==
  ASSUME IInv, NEW p \in Peers, Receive(p)
  PROVE  IInv'
<1> USE BoundsAssumption
<1> DEFINE q == Other(p)
           d == driver[p]
           m == Head(Inbound(p))
<1>1. d.phase = "receive" /\ Inbound(p) # <<>>
  BY DEF Receive
<1>2. /\ q \in Peers /\ q # p /\ Other(q) = p
      /\ link[q] # <<>> /\ m = link[q][1] /\ m \in Messages /\ m.epoch \in Epochs
      /\ TypeOK /\ d \in Drivers /\ WithinStream(p) /\ Accounted(d)
      /\ {d.host, d.lastEpoch, d.drained, driver[q].lastEpoch, d.ackedThrough} \subseteq Nat
      /\ m.kind = "delta" => m.epoch >= 1
      /\ m.kind = "snapshot" => d.lastEpoch <= m.epoch
      /\ restarts = 0 =>
           /\ Unbroken(p) /\ Unbroken(q)
           /\ m.kind \in {"delta", "ack"}
           /\ m.kind = "delta" => m.epoch - 1 <= d.lastEpoch
           /\ m.kind = "ack" => m.epoch <= driver[q].lastEpoch
  BY <1>1, Incoming
<1>3. d.host \in Epochs /\ d.lastEpoch \in Epochs /\ m.epoch \in Nat
  BY <1>2, Fields DEF Epochs
<1>4. faults \in 0 .. MaxFaults
  BY <1>2 DEF TypeOK
<1>5. restarts = 0 =>
        /\ d.ackedThrough <= driver[q].lastEpoch
        /\ ~d.resyncing
  BY <1>2 DEF Unbroken, AcksAreTrue, NoResync
<1> HIDE DEF m
<1>6. ASSUME ReceiveAck(p, m) PROVE IInv'
  <2>1. /\ m.kind = "ack" /\ Becomes(p, AckThrough(d, m.epoch)) /\ Consume(p) /\ Rest
    BY <1>6 DEF ReceiveAck
  <2>2. CASE m.epoch <= d.ackedThrough
    <3>1. Becomes(p, d)
      BY <2>1, <2>2 DEF AckThrough
    <3> QED  BY <1>1, <1>2, <1>4, <1>5, <2>1, <3>1, Unanswered DEF Rest, m
  <2>3. CASE ~ (m.epoch <= d.ackedThrough)
    <3> DEFINE new == [d EXCEPT !.ackedThrough = m.epoch,
                                !.outbox = {x \in @ : x > m.epoch}]
    <3>1. Becomes(p, new)
      BY <2>1, <2>3, SMTT(30) DEF AckThrough
    <3>2. /\ new \in Drivers
          /\ new.host = d.host /\ new.drained = d.drained /\ new.todo = d.todo
          /\ new.outbox = {x \in d.outbox : x > m.epoch} /\ new.phase = d.phase
          /\ new.ackedThrough = m.epoch /\ new.resyncing = d.resyncing
          /\ new.stalled = d.stalled
          /\ new.replayPending = d.replayPending /\ new.lastEpoch = d.lastEpoch
          /\ new.folded = d.folded /\ new.unfolded = d.unfolded /\ new.dropped = d.dropped
      BY <1>2 DEF Drivers
    <3> HIDE DEF new
    <3>3. Accounted(new) /\ d.lastEpoch <= new.lastEpoch
      BY <1>2, <3>2 DEF Accounted
    <3>4. d.outbox \subseteq Nat
      BY <1>2, Fields
    <3>5. restarts = 0 => \A e \in d.outbox \ new.outbox : e <= driver[q].lastEpoch
      BY <1>2, <1>3, <2>1, <3>2, <3>4
    <3>6. restarts = 0 => new.ackedThrough <= driver[q].lastEpoch
      BY <1>2, <2>1, <3>2
    <3>7. new.outbox \subseteq d.outbox
      BY <3>2
    <3> QED
      BY <1>1, <1>4, <2>1, <3>1, <3>2, <3>3, <3>5, <3>6, <3>7, Unanswered DEF Rest, m
  <2> QED  BY <2>2, <2>3
<1>7. ASSUME ReceiveRequest(p, m) PROVE IInv'
  <2>1. Reply(p, d, Message("snapshot", d.host)) /\ restarts # 0
    BY <1>2, <1>7 DEF ReceiveRequest
  <2>2. Message("snapshot", d.host) \in Messages
    BY <1>3 DEF Message, Messages
  <2> QED  BY <1>1, <1>2, <2>1, <2>2, ReplyIInv
<1>8. ASSUME NEW epochs \in SUBSET (1 .. MaxEpoch),
             m.kind \in {"delta", "snapshot"}, d.lastEpoch <= m.epoch,
             1 .. m.epoch = (1 .. d.lastEpoch) \cup epochs,
             Becomes(p, Apply(d, epochs, m.epoch)), Consume(p), Rest
      PROVE  IInv'
  <2> DEFINE new == Apply(d, epochs, m.epoch)
  <2>1. new \in Drivers
    <3>1. d.unfolded \cup epochs \in SUBSET (1 .. MaxEpoch)
      BY <1>2, Fields
    <3> QED  BY <1>2, <3>1 DEF Drivers, Apply
  <2>2. /\ new.host = d.host /\ new.drained = d.drained /\ new.todo = d.todo
        /\ new.outbox = d.outbox /\ new.phase = d.phase
        /\ new.ackedThrough = d.ackedThrough /\ new.resyncing = FALSE
        /\ new.stalled = d.stalled
        /\ new.replayPending = d.replayPending /\ new.lastEpoch = m.epoch
        /\ new.folded = d.folded /\ new.unfolded = d.unfolded \cup epochs
        /\ new.dropped = d.dropped
    BY <1>2 DEF Drivers, Apply
  <2>3. Becomes(p, new)
    BY <1>8
  <2> HIDE DEF new
  <2>4. Accounted(new)
    BY <1>2, <1>8, <2>2 DEF Accounted
  <2>5. /\ d.lastEpoch <= new.lastEpoch
        /\ m.kind = "delta" => m.epoch <= new.lastEpoch
    BY <1>3, <1>8, <2>2
  <2>6. restarts = 0 => new.resyncing = d.resyncing
    BY <1>2, <1>5, <2>2, Fields
  <2> QED
    BY <1>1, <1>4, <1>5, <1>8, <2>1, <2>2, <2>3, <2>4, <2>5, <2>6, Unanswered DEF Rest, m
<1>9. ASSUME ReceiveSnapshot(p, m) PROVE IInv'
  <2>1. 1 .. m.epoch = (1 .. d.lastEpoch) \cup (1 .. m.epoch) /\ 1 .. m.epoch \in SUBSET (1 .. MaxEpoch)
    BY <1>2, <1>3, <1>9 DEF ReceiveSnapshot, Epochs
  <2> QED  BY <1>2, <1>8, <1>9, <2>1 DEF ReceiveSnapshot
<1>10. ASSUME ReceiveDelta(p, m) PROVE IInv'
  <2>1. m.kind = "delta" /\ m.epoch >= 1
    BY <1>2, <1>10 DEF ReceiveDelta
  <2>2. ASSUME m.epoch - 1 = d.lastEpoch, Becomes(p, Apply(d, {m.epoch}, m.epoch)),
               Consume(p), Rest
        PROVE  IInv'
    <3>1. /\ d.lastEpoch <= m.epoch /\ {m.epoch} \in SUBSET (1 .. MaxEpoch)
          /\ 1 .. m.epoch = (1 .. d.lastEpoch) \cup {m.epoch}
      BY <1>2, <1>3, <2>1, <2>2 DEF Epochs
    <3> QED  BY <1>8, <2>1, <2>2, <3>1
  <2>3. ASSUME \/ m.epoch - 1 < d.lastEpoch
               \/ m.epoch - 1 > d.lastEpoch /\ d.resyncing,
               UNCHANGED driver, Consume(p), Rest
        PROVE  IInv'
    <3>1. Becomes(p, d)
      BY <1>2, <2>3 DEF Becomes, TypeOK
    <3>2. /\ d.lastEpoch <= d.lastEpoch
          /\ restarts = 0 => m.epoch <= d.lastEpoch
      BY <1>2, <1>3, <1>5, <2>1, <2>3
    <3> QED  BY <1>1, <1>2, <1>4, <1>5, <2>3, <3>1, <3>2, Unanswered DEF Rest, m
  <2>4. ASSUME m.epoch - 1 > d.lastEpoch, ~d.resyncing,
               Reply(p, [d EXCEPT !.resyncing = TRUE], Message("request", d.lastEpoch))
        PROVE  IInv'
    <3> DEFINE new == [d EXCEPT !.resyncing = TRUE]
               r == Message("request", d.lastEpoch)
    <3>1. /\ new \in Drivers
          /\ new.host = d.host /\ new.drained = d.drained /\ new.todo = d.todo
          /\ new.outbox = d.outbox /\ new.phase = d.phase
          /\ new.replayPending = d.replayPending /\ new.lastEpoch = d.lastEpoch
          /\ new.folded = d.folded /\ new.unfolded = d.unfolded /\ new.dropped = d.dropped
      BY <1>2 DEF Drivers
    <3>2. Reply(p, new, r)
      BY <2>4
    <3> HIDE DEF new
    <3>3. restarts # 0
      BY <1>2, <1>3, <2>1, <2>4
    <3>4. r \in Messages /\ r.kind = "request"
      BY <1>3 DEF Message, Messages
    <3>5. Accounted(new)
      BY <1>2, <3>1 DEF Accounted
    <3> QED  BY <1>1, <3>1, <3>2, <3>3, <3>4, <3>5, ReplyIInv
  <2> QED  BY <1>10, <2>2, <2>3, <2>4 DEF ReceiveDelta
<1> QED  BY <1>6, <1>7, <1>9, <1>10 DEF Receive, m

(* Breaks, reconnects and restarts.                                         *)
LEMMA CarrierGoneIInv ==
  ASSUME IInv, CarrierGone, UNCHANGED <<driver, restarts>>, faults' \in 0 .. MaxFaults
  PROVE  IInv'
<1> USE BoundsAssumption
<1>1. TypeOK /\ CursorAccounted
  BY DEF IInv
<1>2. PICK keep \in [Peers -> UNION {0 .. Len(link[p]) : p \in Peers}] :
        /\ \A p \in Peers : keep[p] <= Len(link[p])
        /\ link' = [p \in Peers |-> SubSeq(link[p], 1, keep[p])]
  BY DEF CarrierGone
<1>3. \A p \in Peers : keep[p] \in 0 .. Len(link[p])
  <2> SUFFICES ASSUME NEW p \in Peers PROVE keep[p] \in 0 .. Len(link[p])
    OBVIOUS
  <2>1. PICK q \in Peers : keep[p] \in 0 .. Len(link[q])
    OBVIOUS
  <2>2. Len(link[p]) \in Nat /\ Len(link[q]) \in Nat
    BY <1>1, InTransit
  <2> QED  BY <1>2, <2>1, <2>2
<1>4. ASSUME NEW p \in Peers
      PROVE  /\ link'[p] \in Seq(Messages) /\ Len(link'[p]) = keep[p]
             /\ \A i \in 1 .. keep[p] : i \in 1 .. Len(link[p]) /\ link'[p][i] = link[p][i]
             /\ keep[p] \in Nat
  <2>1. link[p] \in Seq(Messages) /\ Len(link[p]) \in Nat /\ keep[p] \in 0 .. Len(link[p])
    BY <1>1, <1>3, InTransit
  <2>2. link'[p] = SubSeq(link[p], 1, keep[p])
    BY <1>2
  <2> QED  BY <2>1, <2>2, Cut, SMTT(30)
<1>5. joined' = {}
  BY DEF CarrierGone
<1>6. link' \in [Peers -> Seq(Messages)]
  BY <1>2, <1>4
<1>7. TypeOK' /\ CursorAccounted'
  BY <1>1, <1>5, <1>6 DEF TypeOK, CursorAccounted
<1>8. ASSUME NEW p \in Peers PROVE WithinStream(p)'
  <2>1. WithinStream(p)
    BY DEF IInv
  <2>2. \A i \in 1 .. keep[p] : \A j \in 1 .. i - 1 : j \in 1 .. keep[p]
    BY <1>4
  <2>3. ASSUME NEW i \in 1 .. keep[p]
        PROVE  /\ link'[p][i].kind = "delta" => link'[p][i].epoch \in 1 .. driver[p].drained
               /\ link'[p][i].kind = "snapshot" =>
                    /\ driver[Other(p)].lastEpoch <= link'[p][i].epoch
                    /\ link'[p][i].epoch <= driver[p].host
                    /\ \A j \in 1 .. i - 1 :
                         link'[p][j].kind \in {"delta", "snapshot"} =>
                           link'[p][j].epoch <= link'[p][i].epoch
    <3>1. /\ i \in 1 .. Len(link[p]) /\ link'[p][i] = link[p][i]
          /\ \A j \in 1 .. i - 1 : link'[p][j] = link[p][j]
      BY <1>4, <2>2
    <3> QED  BY <2>1, <3>1 DEF WithinStream
  <2> QED  BY <1>4, <2>1, <2>3 DEF WithinStream
<1>9. ASSUME restarts = 0, NEW p \in Peers PROVE Unbroken(p)'
  <2>1. Unbroken(p)
    BY <1>9 DEF IInv, Unbroken
  <2>2. AcksAreTrue(p)' /\ Retained(p)' /\ NoResync(p)'
    BY <1>4, <2>1 DEF Unbroken, AcksAreTrue, Retained, NoResync
  <2>3. Gapless(p)'
    <3> SUFFICES ASSUME NEW i \in 1 .. keep[p], link'[p][i].kind = "delta",
                        NEW e \in 1 .. link'[p][i].epoch - 1
                 PROVE  Reaches(p, e, i - 1)'
      BY <1>4 DEF Gapless
    <3>1. Reaches(p, e, i - 1)
      BY <1>4, <2>1 DEF Unbroken, Gapless
    <3>2. \A j \in 1 .. i - 1 : j \in 1 .. keep[p]
      BY <1>4
    <3> QED  BY <1>4, <3>1, <3>2 DEF Reaches
  <2>4. Resends(p)'
    BY <1>5, <2>1 DEF Unbroken, Resends
  <2> QED  BY <2>2, <2>3, <2>4 DEF Unbroken
<1> QED  BY <1>7, <1>8, <1>9 DEF IInv, Unbroken

LEMMA RejoinIInv ==
  ASSUME IInv, NEW p \in Peers, Rejoin(p)
  PROVE  IInv'
<1> USE BoundsAssumption
<1> DEFINE q == Other(p)
           d == driver[p]
           new == OnReconnect(d)
           empty == [s \in Peers |-> <<>>]
<1>1. /\ q \in Peers /\ q # p /\ Other(q) = p
      /\ TypeOK /\ CursorAccounted /\ WithinStream(p) /\ WithinStream(q)
      /\ d \in Drivers /\ faults \in 0 .. MaxFaults /\ joined \subseteq Peers
      /\ restarts = 0 => Unbroken(p) /\ Unbroken(q)
  BY OtherPeer DEF IInv, Unbroken, TypeOK
<1>2. /\ Becomes(p, new) /\ d.phase = "idle" /\ p \notin joined
      /\ joined' = joined \cup {p} /\ UNCHANGED <<faults, restarts>>
      /\ link' = IF joined = {} THEN empty ELSE link
  BY DEF Rejoin
<1>3. new \in Drivers
  BY <1>1 DEF Drivers, OnReconnect
<1>4. /\ SameStream(d, new) /\ new.todo = d.todo /\ new.phase = d.phase
      /\ new.replayPending = TRUE
      /\ new.folded = d.folded /\ new.unfolded = d.unfolded /\ new.dropped = d.dropped
  BY <1>1 DEF Drivers, SameStream, OnReconnect
<1> HIDE DEF new
<1>5. /\ empty \in [Peers -> Seq(Messages)]
      /\ \A s \in Peers : Len(empty[s]) = 0
  OBVIOUS
<1>6. link' \in [Peers -> Seq(Messages)]
  BY <1>1, <1>2, <1>5 DEF TypeOK
<1>7. /\ TypeOK' /\ driver'[p] = new /\ driver'[q] = driver[q]
  BY <1>1, <1>2, <1>3, <1>6, Typed
<1>8. CursorAccounted'
  BY <1>1, <1>4, <1>7, OtherPeer DEF CursorAccounted, Accounted, SameStream
<1>9. ASSUME NEW s \in {p, q}
      PROVE  /\ WithinStream(s)'
             /\ restarts = 0 => AcksAreTrue(s)' /\ Retained(s)' /\ NoResync(s)' /\ Gapless(s)'
  <2>1. CASE joined = {}
    <3>1. link'[s] = <<>> /\ Len(link'[s]) = 0
      BY <1>1, <1>2, <1>5, <2>1
    <3>2. WithinStream(s)'
      BY <1>1, <1>4, <1>7, <3>1 DEF WithinStream, SameStream
    <3>3. restarts = 0 => AcksAreTrue(s)' /\ Retained(s)' /\ NoResync(s)' /\ Gapless(s)'
      BY <1>1, <1>4, <1>7, <3>1
      DEF Unbroken, AcksAreTrue, Retained, NoResync, Gapless, SameStream
    <3> QED  BY <3>2, <3>3
  <2>2. CASE joined # {}
    <3>1. link' = link
      BY <1>2, <2>2
    <3>2. WithinStream(s)'
      BY <1>1, <1>4, <1>7, <3>1 DEF WithinStream, SameStream
    <3>3. restarts = 0 => AcksAreTrue(s)' /\ Retained(s)' /\ NoResync(s)' /\ Gapless(s)'
      BY <1>1, <1>4, <1>7, <3>1
      DEF Unbroken, AcksAreTrue, Retained, NoResync, Gapless, Reaches, SameStream
    <3> QED  BY <3>2, <3>3
  <2> QED  BY <2>1, <2>2
<1>10. Resends(p)'
  BY <1>2, <1>4, <1>7 DEF Resends
<1>11. restarts = 0 => Resends(q)'
  <2>1. CASE q \in joined
    BY <1>1, <1>2, <1>4, <1>7, <2>1 DEF Unbroken, Resends, Arrives, Reaches, SameStream
  <2>2. CASE q \notin joined
    BY <1>1, <1>2, <1>7, <2>2 DEF Unbroken, Resends
  <2> QED  BY <2>1, <2>2
<1>12. restarts = 0 => Unbroken(p)' /\ Unbroken(q)'
  BY <1>9, <1>10, <1>11 DEF Unbroken
<1> QED  BY <1>1, <1>2, <1>7, <1>8, <1>9, <1>12, Both

LEMMA RestartIInv ==
  ASSUME IInv, NEW p \in Peers, Restart(p)
  PROVE  IInv'
<1> USE BoundsAssumption
<1> DEFINE q == Other(p)
           d == driver[p]
<1>1. /\ q \in Peers /\ q # p /\ Other(q) = p
      /\ TypeOK /\ CursorAccounted /\ WithinStream(p) /\ WithinStream(q)
      /\ driver[q] \in Drivers
  BY OtherPeer DEF IInv, TypeOK
<1>2. /\ Becomes(p, FreshDriver) /\ d.host = 0 /\ joined' = {}
      /\ restarts < MaxRestarts /\ restarts' = restarts + 1 /\ UNCHANGED faults
      /\ link' = [s \in Peers |-> <<>>]
  BY DEF Restart
<1>3. FreshDriver \in Drivers
  BY DEF FreshDriver, Drivers, Epochs, Phases
<1>4. /\ link' \in [Peers -> Seq(Messages)]
      /\ \A s \in Peers : Len(link'[s]) = 0
  BY <1>2
<1>5. /\ restarts' \in 0 .. MaxRestarts /\ restarts' # 0
  BY <1>1, <1>2 DEF TypeOK
<1>6. /\ TypeOK' /\ driver'[p] = FreshDriver /\ driver'[q] = driver[q]
  BY <1>1, <1>2, <1>3, <1>4, <1>5 DEF TypeOK, Becomes
<1>7. CursorAccounted'
  <2>1. Accounted(FreshDriver)
    BY DEF Accounted, FreshDriver
  <2> QED  BY <1>1, <1>6, <2>1, OtherPeer DEF CursorAccounted
<1>8. {driver[q].host, driver[q].drained, driver[q].lastEpoch} \subseteq Nat
  BY <1>1, Fields
<1>9. WithinStream(p)'
  BY <1>1, <1>2, <1>4, <1>6, <1>8 DEF WithinStream, FreshDriver
<1>10. WithinStream(q)'
  BY <1>1, <1>2, <1>4, <1>6, <1>8 DEF WithinStream, FreshDriver
<1> QED  BY <1>1, <1>5, <1>6, <1>7, <1>9, <1>10, Both

(* Every step keeps the invariant.                                          *)
LEMMA Inductive == Spec => []IInv
<1>1. IInv /\ [Next]_vars => IInv'
  <2> SUFFICES ASSUME IInv, [Next]_vars PROVE IInv'
    OBVIOUS
  <2>1. ASSUME NEW p \in Peers, Tick(p) PROVE IInv'
    BY <2>1, StartTickIInv, ReplayIInv, PhasesIInv, DrainIInv, ReceiveIInv,
       ReceiveThrowsIInv, AckCursorIInv DEF Tick
  <2>2. ASSUME NEW p \in Peers, Enqueue(p) \/ Rejoin(p) \/ Restart(p) PROVE IInv'
    BY <2>2, EnqueueIInv, RejoinIInv, RestartIInv
  <2>3. faults \in 0 .. MaxFaults /\ MaxFaults \in Nat
    BY BoundsAssumption DEF IInv, TypeOK
  <2>4. ASSUME NEW p \in Peers, Abandon(p) PROVE IInv'
    BY <2>3, <2>4, CarrierGoneIInv DEF Abandon
  <2>5. ASSUME Disconnect PROVE IInv'
    <3>1. faults' \in 0 .. MaxFaults
      BY <2>3, <2>5 DEF Disconnect
    <3> QED  BY <2>5, <3>1, CarrierGoneIInv DEF Disconnect
  <2>6. ASSUME UNCHANGED vars PROVE IInv'
    BY <2>6
    DEF vars, IInv, Unbroken, TypeOK, CursorAccounted, WithinStream, AcksAreTrue, Retained,
        NoResync, Gapless, Resends, Arrives, Reaches
  <2> QED  BY <2>1, <2>2, <2>4, <2>5, <2>6 DEF Next
<1> QED  BY <1>1, InitIInv, PTL DEF Spec

(* For any bounds: however replays, gaps, snapshots, refusals, breaks and   *)
(* restarts interleave, the receiver's cursor and its host's projection     *)
(* agree, and a receiver that never restarted never asks for a snapshot.    *)
THEOREM SafetyAlways == Spec => []Safety
<1>1. IInv => Safety
  BY DEF IInv, Unbroken, Safety, NoGapWithoutRestart, NoResync
<1> QED  BY <1>1, Inductive, PTL

(* For any bounds: no ack prunes a frame that the other peer lacks.         *)
THEOREM RetainedAlways == Spec => []RetainedUntilCovered
<1>1. IInv => RetainedUntilCovered
  BY DEF IInv, Unbroken, RetainedUntilCovered, Retained
<1> QED  BY <1>1, Inductive, PTL

(* A receive leaves the cursor or moves it on, within what the other peer's *)
(* host accepted; a step that keeps a peer's host and cursor is a stutter.  *)
LEMMA ReceiveMoves ==
  ASSUME IInv, NEW p \in Peers, Receive(p)
  PROVE  /\ restarts' = restarts
         /\ \E new : /\ Becomes(p, new) /\ new.host = driver[p].host
                     /\ \/ new.lastEpoch = driver[p].lastEpoch
                        \/ new.lastEpoch \in driver[p].lastEpoch + 1 .. driver[Other(p)].host
<1> USE BoundsAssumption
<1> DEFINE q == Other(p)
           d == driver[p]
           m == Head(Inbound(p))
<1>1. driver[p].phase = "receive" /\ Inbound(p) # <<>>
  BY DEF Receive
<1>2. /\ q \in Peers /\ q # p /\ Other(q) = p
      /\ link[q] # <<>> /\ m = link[q][1] /\ m \in Messages /\ m.epoch \in Nat
      /\ TypeOK /\ d \in Drivers /\ d.lastEpoch \in Nat
      /\ m.kind = "snapshot" => d.lastEpoch <= m.epoch
  BY <1>1, Incoming DEF Epochs
<1>3. {driver[q].host, driver[q].drained} \subseteq Nat
  BY <1>2, Fields DEF TypeOK
<1>4. m.kind \in {"delta", "snapshot"} => m.epoch <= driver[q].host
  <2>1. 1 \in 1 .. Len(link[q]) /\ WithinStream(q)
    BY <1>2, Consumed DEF IInv, TypeOK
  <2> QED  BY <1>2, <1>3, <2>1 DEF WithinStream
<1> HIDE DEF m
<1>5. ASSUME ReceiveAck(p, m)
      PROVE  /\ restarts' = restarts /\ Becomes(p, AckThrough(d, m.epoch))
             /\ AckThrough(d, m.epoch).host = d.host
             /\ AckThrough(d, m.epoch).lastEpoch = d.lastEpoch
  BY <1>2, <1>5 DEF ReceiveAck, Rest, AckThrough, Drivers
<1>6. ASSUME NEW old \in Drivers, NEW r, Reply(p, old, r), old.host = d.host, old.lastEpoch = d.lastEpoch
      PROVE  /\ restarts' = restarts
             /\ \E new : Becomes(p, new) /\ new.host = d.host /\ new.lastEpoch = d.lastEpoch
  <2>1. /\ [old EXCEPT !.stalled = TRUE].host = d.host
        /\ [old EXCEPT !.stalled = TRUE].lastEpoch = d.lastEpoch
    BY <1>6 DEF Drivers
  <2>2. restarts' = restarts
    BY <1>6 DEF Reply, Rest
  <2>3. Becomes(p, old) \/ Becomes(p, [old EXCEPT !.stalled = TRUE])
    BY <1>6 DEF Reply
  <2> QED  BY <1>6, <2>1, <2>2, <2>3
<1>7. ASSUME NEW epochs, d.lastEpoch <= m.epoch, m.kind \in {"delta", "snapshot"},
             Becomes(p, Apply(d, epochs, m.epoch))
      PROVE  \E new : /\ Becomes(p, new) /\ new.host = d.host
                      /\ \/ new.lastEpoch = d.lastEpoch
                         \/ new.lastEpoch \in d.lastEpoch + 1 .. driver[q].host
  <2>1. /\ Apply(d, epochs, m.epoch).host = d.host
        /\ Apply(d, epochs, m.epoch).lastEpoch = m.epoch
    BY <1>2 DEF Apply, Drivers
  <2>2. m.epoch = d.lastEpoch \/ m.epoch \in d.lastEpoch + 1 .. driver[q].host
    BY <1>2, <1>3, <1>4, <1>7
  <2> QED  BY <1>7, <2>1, <2>2
<1>8. CASE ReceiveRequest(p, m)
  BY <1>2, <1>6, <1>8 DEF ReceiveRequest
<1>9. CASE ReceiveSnapshot(p, m)
  BY <1>2, <1>7, <1>9 DEF ReceiveSnapshot, Rest
<1>10. CASE ReceiveDelta(p, m)
  <2>1. ASSUME m.kind = "delta", m.epoch - 1 = d.lastEpoch,
               Becomes(p, Apply(d, {m.epoch}, m.epoch)), Rest
        PROVE  /\ restarts' = restarts
               /\ \E new : /\ Becomes(p, new) /\ new.host = d.host
                           /\ \/ new.lastEpoch = d.lastEpoch
                              \/ new.lastEpoch \in d.lastEpoch + 1 .. driver[q].host
    <3>1. d.lastEpoch <= m.epoch
      BY <1>2, <2>1
    <3> QED  BY <1>7, <2>1, <3>1 DEF Rest
  <2>2. ASSUME UNCHANGED driver, Rest
        PROVE  restarts' = restarts /\ Becomes(p, d)
    BY <1>2, <2>2 DEF Rest, Becomes, TypeOK
  <2>3. ASSUME Reply(p, [d EXCEPT !.resyncing = TRUE], Message("request", d.lastEpoch))
        PROVE  /\ restarts' = restarts
               /\ \E new : Becomes(p, new) /\ new.host = d.host /\ new.lastEpoch = d.lastEpoch
    <3>1. /\ [d EXCEPT !.resyncing = TRUE] \in Drivers
          /\ [d EXCEPT !.resyncing = TRUE].host = d.host
          /\ [d EXCEPT !.resyncing = TRUE].lastEpoch = d.lastEpoch
      BY <1>2 DEF Drivers
    <3> QED  BY <1>6, <2>3, <3>1
  <2> QED  BY <1>10, <2>1, <2>2, <2>3 DEF ReceiveDelta
<1> QED  BY <1>5, <1>8, <1>9, <1>10 DEF Receive, m

LEMMA Quiet ==
  ASSUME TypeOK, NEW p \in Peers, NEW new, Becomes(p, new),
         new.host = driver[p].host, new.lastEpoch = driver[p].lastEpoch
  PROVE  /\ [s \in Peers |-> driver[s].host]' = [s \in Peers |-> driver[s].host]
         /\ [s \in Peers |-> driver[s].lastEpoch]' = [s \in Peers |-> driver[s].lastEpoch]
  BY DEF TypeOK, Becomes

(* For any bounds: the driver implements the replicated prefix.  An applied *)
(* delta or snapshot is Adopt, an enqueue Produce, and all else stutters.   *)
THEOREM ImplementsPrefix == Spec => PrefixSpec
<1> USE BoundsAssumption
<1> DEFINE produced == [s \in Peers |-> driver[s].host]
           replica == [s \in Peers |-> driver[s].lastEpoch]
<1>1. Init => Prefix!Init
  BY DEF Init, Prefix!Init, FreshDriver
<1>2. IInv /\ [Next]_vars => [Prefix!Next]_Prefix!vars
  <2> SUFFICES ASSUME IInv, [Next]_vars PROVE [Prefix!Next]_Prefix!vars
    OBVIOUS
  <2> USE DEF Prefix!vars
  <2>1. TypeOK /\ \A p \in Peers : driver[p] \in Drivers
    BY DEF IInv, TypeOK
  <2>2. ASSUME NEW p \in Peers, NEW new, Becomes(p, new), restarts' = restarts,
               new.host = driver[p].host, new.lastEpoch = driver[p].lastEpoch
        PROVE  UNCHANGED Prefix!vars
    BY <2>1, <2>2, Quiet
  <2>3. ASSUME NEW p \in Peers, Enqueue(p) PROVE Prefix!Next
    <3>1. /\ driver' = [driver EXCEPT ![p] = [driver[p] EXCEPT !.host = @ + 1]]
          /\ UNCHANGED restarts
      BY <2>3 DEF Enqueue, Becomes, NoSend
    <3>2. /\ produced' = [produced EXCEPT ![p] = @ + 1]
          /\ replica' = replica
      BY <2>1, <3>1 DEF TypeOK, Drivers
    <3> QED  BY <3>1, <3>2 DEF Prefix!Next, Prefix!Produce
  <2>4. ASSUME NEW p \in Peers, Receive(p) PROVE [Prefix!Next]_Prefix!vars
    <3>1. restarts' = restarts
      BY <2>4, ReceiveMoves
    <3>2. PICK new :
            /\ Becomes(p, new) /\ new.host = driver[p].host
            /\ \/ new.lastEpoch = driver[p].lastEpoch
               \/ new.lastEpoch \in driver[p].lastEpoch + 1 .. driver[Other(p)].host
      BY <2>4, ReceiveMoves
    <3>3. CASE new.lastEpoch = driver[p].lastEpoch
      BY <2>2, <3>1, <3>2, <3>3
    <3>4. CASE new.lastEpoch \in driver[p].lastEpoch + 1 .. driver[Other(p)].host
      <4>1. /\ produced' = produced
            /\ replica' = [replica EXCEPT ![p] = new.lastEpoch]
        BY <2>1, <3>2 DEF Becomes, TypeOK
      <4>2. new.lastEpoch \in replica[p] + 1 .. produced[Other(p)] /\ Other(p) \in Peers \ {p}
        BY <3>4, OtherPeer
      <4>3. Prefix!Adopt(p)
        BY <3>1, <4>1, <4>2 DEF Prefix!Adopt
      <4> QED  BY <4>3 DEF Prefix!Next
    <3> QED  BY <3>2, <3>3, <3>4
  <2>5. ASSUME NEW p \in Peers, Restart(p) PROVE Prefix!Next
    <3>1. /\ driver' = [driver EXCEPT ![p] = FreshDriver] /\ driver[p].host = 0
          /\ restarts' = restarts + 1
      BY <2>5 DEF Restart, Becomes
    <3>2. /\ produced' = produced
          /\ replica' = [replica EXCEPT ![p] = 0]
      BY <2>1, <3>1 DEF TypeOK, FreshDriver
    <3> QED  BY <3>1, <3>2 DEF Prefix!Next, Prefix!Restart
  <2>6. ASSUME NEW p \in Peers, StartTick(p) PROVE UNCHANGED Prefix!vars
    <3> DEFINE new == IF driver[p].replayPending
                      THEN [driver[p] EXCEPT !.phase = "replay", !.replayPending = FALSE,
                                             !.todo = UnackedSuffix(driver[p])]
                      ELSE [driver[p] EXCEPT !.phase = "drain"]
    <3>1. Becomes(p, new) /\ restarts' = restarts
      BY <2>6 DEF StartTick, NoSend
    <3>2. new.host = driver[p].host /\ new.lastEpoch = driver[p].lastEpoch
      BY <2>1 DEF Drivers
    <3> QED  BY <2>2, <3>1, <3>2
  <2>7. ASSUME NEW p \in Peers, Replay(p) PROVE UNCHANGED Prefix!vars
    <3>1. restarts' = restarts
      BY <2>7 DEF Replay, Delivered, Refused
    <3>2. \A e : /\ [driver[p] EXCEPT !.todo = @ \ {e}].host = driver[p].host
                 /\ [driver[p] EXCEPT !.todo = @ \ {e}].lastEpoch = driver[p].lastEpoch
      BY <2>1 DEF Drivers
    <3> DEFINE kept == [driver[p] EXCEPT !.stalled = TRUE, !.replayPending = TRUE,
                                         !.todo = {}, !.phase = "drain"]
    <3>3. kept.host = driver[p].host /\ kept.lastEpoch = driver[p].lastEpoch
      BY <2>1 DEF Drivers
    <3>4. Becomes(p, kept) \/ \E e : Becomes(p, [driver[p] EXCEPT !.todo = @ \ {e}])
      BY <2>7 DEF Replay
    <3> HIDE DEF kept
    <3> QED  BY <2>2, <3>1, <3>2, <3>3, <3>4
  <2>8. ASSUME NEW p \in Peers, Drain(p) PROVE UNCHANGED Prefix!vars
    <3> DEFINE e == driver[p].drained + 1
               appended == [driver[p] EXCEPT !.drained = e, !.outbox = @ \cup {e}]
               stalled == [appended EXCEPT !.stalled = TRUE, !.phase = "receive"]
    <3>1. restarts' = restarts /\ (Becomes(p, appended) \/ Becomes(p, stalled))
      BY <2>8 DEF Drain, Delivered, Refused
    <3>2. /\ appended.host = driver[p].host /\ appended.lastEpoch = driver[p].lastEpoch
          /\ stalled.host = driver[p].host /\ stalled.lastEpoch = driver[p].lastEpoch
      BY <2>1 DEF Drivers
    <3> HIDE DEF appended, stalled
    <3> QED  BY <2>2, <3>1, <3>2
  <2>9. ASSUME NEW p \in Peers, ReplayDone(p) \/ DrainDone(p) \/ ReceiveDone(p)
        PROVE  UNCHANGED Prefix!vars
    <3>1. PICK ph : Becomes(p, [driver[p] EXCEPT !.phase = ph]) /\ restarts' = restarts
      BY <2>9 DEF ReplayDone, DrainDone, ReceiveDone, NoSend
    <3>2. /\ [driver[p] EXCEPT !.phase = ph].host = driver[p].host
          /\ [driver[p] EXCEPT !.phase = ph].lastEpoch = driver[p].lastEpoch
      BY <2>1 DEF Drivers
    <3> QED  BY <2>2, <3>1, <3>2
  <2>10. ASSUME NEW p \in Peers, ReceiveThrows(p) PROVE UNCHANGED Prefix!vars
    <3> DEFINE new == [driver[p] EXCEPT !.phase = "idle",
                                        !.dropped = @ \cup driver[p].unfolded,
                                        !.unfolded = {}]
    <3>1. Becomes(p, new) /\ restarts' = restarts
      BY <2>10 DEF ReceiveThrows, NoSend
    <3>2. new.host = driver[p].host /\ new.lastEpoch = driver[p].lastEpoch
      BY <2>1 DEF Drivers
    <3> QED  BY <2>2, <3>1, <3>2
  <2>11. ASSUME NEW p \in Peers, AckCursor(p) PROVE UNCHANGED Prefix!vars
    <3> DEFINE sent == [Return(driver[p]) EXCEPT !.ackOwed = FALSE]
    <3>1. restarts' = restarts /\ (Becomes(p, sent) \/ Becomes(p, Return(driver[p])))
      BY <2>11 DEF AckCursor, Delivered, Refused, NoSend
    <3>2. /\ sent.host = driver[p].host /\ sent.lastEpoch = driver[p].lastEpoch
          /\ Return(driver[p]).host = driver[p].host
          /\ Return(driver[p]).lastEpoch = driver[p].lastEpoch
      BY <2>1 DEF Drivers, Return
    <3> HIDE DEF sent
    <3> QED  BY <2>2, <3>1, <3>2
  <2>12. ASSUME NEW p \in Peers, Rejoin(p) PROVE UNCHANGED Prefix!vars
    <3>1. Becomes(p, OnReconnect(driver[p])) /\ restarts' = restarts
      BY <2>12 DEF Rejoin
    <3>2. /\ OnReconnect(driver[p]).host = driver[p].host
          /\ OnReconnect(driver[p]).lastEpoch = driver[p].lastEpoch
      BY <2>1 DEF Drivers, OnReconnect
    <3> QED  BY <2>2, <3>1, <3>2
  <2>13. ASSUME UNCHANGED <<driver, restarts>> PROVE UNCHANGED Prefix!vars
    BY <2>13
  <2> QED
    BY <2>3, <2>4, <2>5, <2>6, <2>7, <2>8, <2>9, <2>10, <2>11, <2>12, <2>13
    DEF Next, Tick, Abandon, Disconnect, vars
<1> QED  BY <1>1, <1>2, Inductive, PTL DEF Spec, PrefixSpec, Prefix!Spec
=============================================================================
