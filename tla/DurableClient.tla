---------------------------- MODULE DurableClient ----------------------------
(***************************************************************************)
(* DurableClient of src/src/durable-client.js: it classifies the ingress   *)
(* messages and the host receipts it observes by identity, and folds the   *)
(* projections of each owner through an IngressCore of its own (sequence   *)
(* one below the source position, the owner's generation as the fence, a   *)
(* conflating KeepLatest merge) that it drains after every admission.      *)
(*                                                                         *)
(* The core's decision is Ingress's, instantiated with the default policy  *)
(* at a small reorder window.  A payload is one of the fingerprints that   *)
(* deliveries may disagree about; encodings and validation are left out.   *)
(***************************************************************************)
EXTENDS Integers, Sequences, FiniteSets, SequencesExt

CONSTANTS Owners, Messages, Fingerprints,
          ReorderWindow, MaxGeneration, MaxPosition,
          MaxObserved     \* bound on the messages and receipts observed

VARIABLES scopes,       \* the scopes of the client's IngressCore
          latest,       \* owner -> the projection it shows, NothingYet for none
          applied,      \* owner -> the source positions it says it applied
          identities,   \* the projections seen, with their fingerprints
          messages,     \* message id -> the payload first seen under it
          delivered,    \* the message ids observed, in order
          receipts,     \* receipt id -> the receipt kept for it
          verdict,      \* what the last call returned, or that it threw
          folded        \* ghost: owner -> the projections merged, in order

clientVars ==
    <<scopes, latest, applied, identities, messages, delivered, receipts, verdict, folded>>

NothingYet == <<>>

Core == INSTANCE Ingress WITH
    Keys <- Owners, HighWater <- 64, Horizon <- 1000, ReceiptCapacity <- 256,
    Overflows <- {"conflate"}, OpenRaises <- FALSE, MaxGen <- MaxGeneration,
    MaxSeq <- MaxPosition - 1, MaxNow <- MaxPosition, MaxErrors <- 0,
    overflow <- "conflate", observedNow <- 0, receipts <- <<>>,
    change <- [scopes |-> [o \in Owners |-> {}], receipts |-> {}]

Init ==
    /\ scopes = [o \in Owners |-> Core!Unknown]
    /\ latest = [o \in Owners |-> NothingYet] /\ applied = [o \in Owners |-> <<>>]
    /\ folded = [o \in Owners |-> <<>>]
    /\ identities = {} /\ messages = <<>> /\ delivered = <<>> /\ receipts = <<>>
    /\ verdict = "none"
------------------------------------------------------------------------------
\* Delivery order is kept whatever the verdict; the first payload stays.
ObserveIngress(m, payload) ==
    /\ Len(delivered) < MaxObserved
    /\ delivered' = Append(delivered, m)
    /\ messages' = IF m \in DOMAIN messages THEN messages ELSE (m :> payload) @@ messages
    /\ verdict' = IF m \notin DOMAIN messages THEN "first"
                  ELSE IF messages[m] = payload THEN "duplicate" ELSE "conflict"
    /\ UNCHANGED <<scopes, latest, applied, identities, receipts, folded>>

\* A receipt that disagrees with the one kept throws before it is kept.
ObserveHostReceipt(id, outcome) ==
    /\ verdict' = IF id \notin DOMAIN receipts THEN "recorded"
                  ELSE IF receipts[id] = outcome THEN "duplicate" ELSE "throws"
    /\ receipts' = IF id \in DOMAIN receipts THEN receipts ELSE (id :> outcome) @@ receipts
    /\ UNCHANGED <<scopes, latest, applied, identities, messages, delivered, folded>>
------------------------------------------------------------------------------
(* Projections. *)

Conflicts(o, g, p, f) == \E i \in identities : i.owner = o /\ i.at = <<g, p>> /\ i.print # f

Through(s) == IF s = Core!Unknown THEN -1
              ELSE IF s.lifecycle = "closed" THEN -1 ELSE s.deliveredThrough

Admission(o, g, p) ==
    LET e == [generation |-> g, sequence |-> p - 1, stampedAt |-> p]
    IN  Core!Decide(Core!Existing(o, e), e)

\* The scope an admission leaves: a refused envelope creates none.
Admitted(o, d) ==
    IF d.kind = "refused" /\ scopes[o] = Core!Unknown THEN Core!Unknown ELSE d.scope

\* Mutant: the position of the envelope is recorded, not the run it released.
AppliedEnvelope(before, after) == IF after > before THEN <<after + 1>> ELSE <<>>

\* The positions appended when the watermark moved: before + 2 .. after + 1.
NewlyApplied(before, after) == [i \in 1..(after - before) |-> before + 1 + i]

\* Mutant: the head of what was merged is shown.
MergedHead(window) == window[1]

\* KeepLatest: the last of what was merged since the last drain.
Merged(window) == Last(window)

ObserveProjection(o, g, p, f) ==
    LET d      == Admission(o, g, p)
        s      == Admitted(o, d)
        before == Through(scopes[o])
        after  == Through(s)
        window == IF s = Core!Unknown THEN <<>> ELSE s.window
    IN  /\ ~Conflicts(o, g, p, f)
        /\ identities' = identities \cup {[owner |-> o, at |-> <<g, p>>, print |-> f]}
        /\ applied' = [applied EXCEPT ![o] = @ \o NewlyApplied(before, after)]
        /\ scopes' = [scopes EXCEPT ![o] =
                         IF s = Core!Unknown THEN s ELSE [s EXCEPT !.window = <<>>]]
        /\ latest' = [latest EXCEPT ![o] = IF window = <<>> THEN @ ELSE Merged(window)]
        /\ folded' = [folded EXCEPT ![o] = @ \o window]
        /\ verdict' = d.kind
        /\ UNCHANGED <<messages, delivered, receipts>>

RefuseProjection(o, g, p, f) ==
    /\ Conflicts(o, g, p, f)
    /\ verdict' = "throws"
    /\ UNCHANGED <<scopes, latest, applied, identities, messages, delivered, receipts, folded>>

IdentityNext ==
    \E m \in Messages, f \in Fingerprints : ObserveIngress(m, f) \/ ObserveHostReceipt(m, f)

ProjectionNext ==
    \E o \in Owners, g \in 1..MaxGeneration, p \in 1..MaxPosition, f \in Fingerprints :
      ObserveProjection(o, g, p, f) \/ RefuseProjection(o, g, p, f)

Next == IdentityNext \/ ProjectionNext

Spec == Init /\ [][Next]_clientVars
------------------------------------------------------------------------------
TypeOK ==
    /\ \A o \in Owners : /\ Len(applied[o]) <= MaxGeneration * MaxPosition
                         /\ latest[o] # NothingYet => latest[o] \in (1..MaxGeneration) \X (0..(MaxPosition - 1))
    /\ DOMAIN messages \subseteq Messages /\ DOMAIN receipts \subseteq Messages
    /\ delivered \in Seq(Messages)

\* The projection shown for an owner is the newest one folded: of the newest
\* generation met, at the end of its gap-free run from the first position,
\* however the deliveries were repeated, reordered or fenced.
ShowsTheNewest ==
    \A o \in Owners : latest[o] # NothingYet =>
        /\ latest[o] = Last(folded[o])
        /\ \A i \in DOMAIN folded[o] :
             LET g == folded[o][i][1] q == folded[o][i][2] IN
             /\ g <= latest[o][1]
             /\ q > 0 => i > 1 /\ folded[o][i - 1] = <<g, q - 1>>

\* While the owner keeps its generation, the positions reported as applied are
\* those that were folded, in order and once each, the buffered successors that
\* a late arrival releases among them.
AppliedAsFolded ==
    \A o \in Owners :
      (\A i \in DOMAIN folded[o] : folded[o][i][1] = folded[o][1][1])
          => applied[o] = [i \in DOMAIN folded[o] |-> folded[o][i][2] + 1]
==============================================================================
