------------------------------- MODULE Relay -------------------------------
(***************************************************************************)
(* A link of relay.js: an Outbox, a transport that frames what it drains,  *)
(* and an Inbox that hands out credits.  A producer's operation is its     *)
(* number; a window is the sequence of the operations it stands for, as    *)
(* the merge policy (merge.js) coalesces it.                               *)
(* Egress is paced by a token bucket and prompted by a window counter.     *)
(*                                                                         *)
(* The durable tail of a relay is the SpillStore of the same file, which   *)
(* no relay is wired to: windows paged out by a relay that overflows, an   *)
(* egress that delivers pages, acknowledges them and has them reclaimed,   *)
(* and crashes after which it delivers what is unacknowledged again.       *)
(***************************************************************************)
EXTENDS Naturals, Sequences, SequencesExt

CONSTANTS MaxOps, MaxCredits, FrameSize, WindowOps, Tokens, HighWaters,
          Modes, PageSize, MaxWindows, MaxCrashes

VARIABLES policy, overflow, highWater,
          outbox, inbox,   \* RelayCells: [head, pending]; an empty head is null
          wire, hand,      \* windows in the transport's buffer, and polled
          credits, tokens, gathered,
          app,             \* the fold of what the application consumed
          ops,             \* operations produced so far
          accepted         \* ghost: the flat fold of what was ingested

linkVars == <<policy, overflow, highWater, outbox, inbox, wire, hand, credits,
              tokens, gathered, app, ops, accepted>>

VARIABLES mode, pages,     \* sequence of [id, summary], a summary a set of windows
          openFill, nextId, acked,
          windows, crashes,
          delivered        \* ghost: what reached the downstream

tailVars == <<mode, pages, openFill, nextId, acked, windows, crashes, delivered>>
relayVars == <<linkVars, tailVars>>

Newest(s) == IF s = <<>> THEN 0 ELSE s[Len(s)]

\* KeepLatest, Max and RawFifo of merge.js; the empty window is the unit that
\* RelayCell makes of null.
MergeBy(p, old, op) ==
  CASE old = <<>> -> op
    [] op = <<>> -> old
    [] p = "RawFifo" -> old \o op
    [] p = "KeepLatest" -> op
    [] p = "Max" -> IF Newest(op) > Newest(old) THEN op ELSE old

Merge(old, op) == MergeBy(policy, old, op)
Conflates(p) == p # "RawFifo"

\* overflowIsLegal, and what the constructor throws for.
Legal(p, o) == o = "Conflate" => Conflates(p)

Empty == [head |-> <<>>, pending |-> 0]
Full(box) == box.pending >= highWater

\* The overflow policies at the high-water mark; Spill, not wired, merges on.
\* For mutants: a full window that conflates replaces what it held.
ConflateReplaces(box, value) ==
  IF Full(box) /\ overflow = "Block" THEN box
  ELSE [head |-> IF Full(box) THEN value ELSE Merge(box.head, value),
        pending |-> box.pending + 1]

Ingress(box, value) ==
  CASE Full(box) /\ overflow \in {"Block", "DropNewest"} -> box
    [] Full(box) /\ overflow = "DropOldest" -> [head |-> value, pending |-> 1]
    [] OTHER -> [head |-> Merge(box.head, value), pending |-> box.pending + 1]

Taken(box) == ~(Full(box) /\ overflow \in {"Block", "DropNewest"})

\* The producer sends; a window that has gathered enough operations is due.
Send ==
  /\ ops < MaxOps
  /\ ops' = ops + 1
  /\ outbox' = Ingress(outbox, <<ops + 1>>)
  /\ gathered' = IF gathered + 1 >= WindowOps THEN 0 ELSE gathered + 1
  /\ accepted' = IF Taken(outbox) THEN Merge(accepted, <<ops + 1>>) ELSE accepted
  /\ UNCHANGED <<policy, overflow, highWater, inbox, wire, hand, credits, tokens, app>>

\* A drain passes the token bucket and takes the whole window.
Drain ==
  /\ tokens > 0 /\ outbox.head # <<>>
  /\ tokens' = tokens - 1
  /\ wire' = Append(wire, outbox.head)
  /\ outbox' = Empty
  /\ UNCHANGED <<policy, overflow, highWater, inbox, hand, credits, gathered, app, ops, accepted>>

\* The logical clock refills the bucket and closes the window.
Tick ==
  /\ tokens < Tokens \/ gathered > 0
  /\ tokens' = IF tokens < Tokens THEN tokens + 1 ELSE Tokens
  /\ gathered' = 0
  /\ UNCHANGED <<policy, overflow, highWater, outbox, inbox, wire, hand, credits, app, ops, accepted>>

\* The transport hands over at most a frame of what is in its buffer.
Poll ==
  /\ hand = <<>> /\ wire # <<>>
  /\ LET n == IF FrameSize < Len(wire) THEN FrameSize ELSE Len(wire) IN
       hand' = SubSeq(wire, 1, n) /\ wire' = SubSeq(wire, n + 1, Len(wire))
  /\ UNCHANGED <<policy, overflow, highWater, outbox, inbox, credits, tokens, gathered, app, ops, accepted>>

\* For mutants: the transport reads on without a credit.
DeliverAnyway ==
  /\ hand # <<>>
  /\ inbox' = Ingress(inbox, Head(hand))
  /\ credits' = IF credits = 0 THEN 0 ELSE credits - 1
  /\ hand' = Tail(hand)
  /\ UNCHANGED <<policy, overflow, highWater, outbox, wire, tokens, gathered, app, ops, accepted>>

\* The transport delivers while there is a credit; what a full inbox blocks
\* has cost its credit and stays with the transport.
Deliver ==
  /\ hand # <<>> /\ credits > 0
  /\ inbox' = Ingress(inbox, Head(hand))
  /\ hand' = IF Full(inbox) /\ overflow = "Block" THEN hand ELSE Tail(hand)
  /\ credits' = credits - 1
  /\ UNCHANGED <<policy, overflow, highWater, outbox, wire, tokens, gathered, app, ops, accepted>>

Consume(replenish) ==
  /\ inbox.head # <<>> \/ credits < MaxCredits
  /\ app' = Merge(app, inbox.head)
  /\ inbox' = Empty
  /\ credits' = IF credits + replenish < MaxCredits THEN credits + replenish ELSE MaxCredits
  /\ UNCHANGED <<policy, overflow, highWater, outbox, wire, hand, tokens, gathered, ops, accepted>>

\* An operator retunes the bound while windows are filled.
Retune(h) ==
  /\ h # highWater
  /\ highWater' = h
  /\ UNCHANGED <<policy, overflow, outbox, inbox, wire, hand, credits, tokens, gathered, app, ops, accepted>>

LinkInit ==
  /\ policy \in {"RawFifo", "KeepLatest", "Max"}
  /\ overflow \in {"Block", "DropNewest", "DropOldest", "Conflate", "Spill"}
  /\ Legal(policy, overflow)
  /\ highWater \in HighWaters
  /\ outbox = Empty /\ inbox = Empty
  /\ wire = <<>> /\ hand = <<>>
  /\ credits = MaxCredits /\ tokens = Tokens /\ gathered = 0
  /\ app = <<>> /\ accepted = <<>>
  /\ ops = 0

LinkNext ==
  /\ \/ Send \/ Drain \/ Tick \/ Poll \/ Deliver
     \/ \E n \in 0 .. MaxCredits : Consume(n)
     \/ \E h \in HighWaters : Retune(h)
  /\ UNCHANGED tailVars

----------------------------------------------------------------------------
(* The durable tail. *)

Pushed(window) == Append(pages, [id |-> nextId, summary |-> window])

Spill ==
  /\ windows < MaxWindows
  /\ windows' = windows + 1
  /\ IF mode = "AppendCompact" \/ openFill >= PageSize \/ pages = <<>>
     THEN /\ pages' = Pushed({windows})
          /\ nextId' = nextId + 1
          /\ openFill' = IF mode = "AppendCompact" THEN openFill ELSE 1
     ELSE /\ pages' = [pages EXCEPT ![Len(pages)].summary = @ \cup {windows}]
          /\ openFill' = openFill + 1
          /\ UNCHANGED nextId
  /\ UNCHANGED <<mode, acked, crashes, delivered>>

PendingPages == SubSeq(pages, acked + 1, Len(pages))

\* The egress delivers a page it has not acknowledged yet.
DeliverPage(n) ==
  /\ n \in DOMAIN PendingPages
  /\ delivered' = delivered \cup {[id |-> PendingPages[n].id, window |-> w] :
                                    w \in PendingPages[n].summary}
  /\ UNCHANGED <<mode, pages, openFill, nextId, acked, windows, crashes>>

Reached == {d.window : d \in delivered}
DeliveredIds == {d.id : d \in delivered}

\* ackThrough, by an egress that acknowledges a prefix of what it delivered.
AckThrough(id) ==
  /\ \A n \in DOMAIN PendingPages : PendingPages[n].id <= id => PendingPages[n].id \in DeliveredIds
  /\ acked' = acked + Len(SelectSeq(PendingPages, LAMBDA p : p.id <= id))
  /\ acked' # acked
  /\ UNCHANGED <<mode, pages, openFill, nextId, windows, crashes, delivered>>

\* For mutants: the cursor survives the reclaim.
ReclaimKeepsCursor ==
  /\ acked > 0
  /\ pages' = SubSeq(pages, acked + 1, Len(pages))
  /\ UNCHANGED <<mode, openFill, nextId, acked, windows, crashes, delivered>>

Reclaim ==
  /\ acked > 0
  /\ pages' = PendingPages
  /\ acked' = 0
  /\ UNCHANGED <<mode, openFill, nextId, windows, crashes, delivered>>

\* replayUnacked after a crash: every page from the cursor on, oldest first.
ReplayUnacked ==
  /\ crashes < MaxCrashes
  /\ crashes' = crashes + 1
  /\ delivered' = delivered \cup
       UNION {{[id |-> PendingPages[n].id, window |-> w] : w \in PendingPages[n].summary} :
                n \in DOMAIN PendingPages}
  /\ UNCHANGED <<mode, pages, openFill, nextId, acked, windows>>

TailInit ==
  /\ mode \in Modes
  /\ pages = <<>> /\ openFill = 0 /\ nextId = 0 /\ acked = 0
  /\ windows = 0 /\ crashes = 0 /\ delivered = {}

TailNext ==
  /\ \/ Spill \/ Reclaim \/ ReplayUnacked
     \/ \E n \in 1 .. MaxWindows : DeliverPage(n)
     \/ \E id \in 0 .. nextId : AckThrough(id)
  /\ UNCHANGED linkVars

Init == LinkInit /\ TailInit
Next == LinkNext \/ TailNext
Spec == Init /\ [][Next]_relayVars

----------------------------------------------------------------------------
TypeOK ==
  /\ credits \in 0 .. MaxCredits /\ tokens \in 0 .. Tokens /\ gathered \in 0 .. WindowOps - 1
  /\ (outbox.head = <<>>) <=> (outbox.pending = 0)
  /\ acked \in 0 .. Len(pages) /\ openFill \in 0 .. PageSize
  /\ \A m, n \in DOMAIN pages : m < n => pages[m].id < pages[n].id

InTransit == FoldLeft(Merge, <<>>, hand \o wire)

\* Whatever the drains, frames, credits and retunings in between, what the
\* application has, folded with what is under way in order, is the flat fold of
\* what the outbox took in (relay_converges, for the lossless policies).
RelayConverges ==
  overflow \in {"Block", "Conflate", "Spill"} =>
    Merge(Merge(Merge(app, inbox.head), InTransit), outbox.head) = accepted

\* With a transport that stops at zero credits the application never has more
\* messages waiting than its budget, whatever it replenishes with.
CreditsBoundInbox == inbox.pending + credits <= MaxCredits

\* A window that was spilled has reached the downstream or is in a page that
\* will be replayed ("ack-before-reclaim"; "after recovery the egress
\* re-delivers every unacked page").
SpilledIsKept ==
  \A w \in 0 .. windows - 1 :
    w \in Reached \/ \E n \in DOMAIN PendingPages : w \in PendingPages[n].summary
=============================================================================
