---------------------------- MODULE CommandPlane ----------------------------
(* Commands and causal receipts of src/src/index.js.  Each party folds the   *)
(* command messages and receipts it gets into a CommandProjection, and the   *)
(* receipts into a ReceiptProjection under the generation it believes        *)
(* current.  Messages may be lost, repeated and reordered: what was ever     *)
(* sent can be delivered at any time.  The authority that runs a command and *)
(* issues events and receipts is not in src/ beyond the messages it sends.   *)
EXTENDS Integers, FiniteSets, FiniteSetsExt

CONSTANTS Parties,      \* holders of projections
          Caller,       \* the party with the CommandRpcClient
          Commands,     \* command ids
          Generations,  \* authority generations, numbers from 1
          Believed,     \* generations a party may hold current (NoId: it does not check)
          Kinds,        \* kinds of events the authority emits
          Verdicts,     \* receipt outcomes it may give
          MaxSent       \* bound on messages put on the wire

VARIABLES entries,      \* party -> (command -> projection entry)
          seen,         \* party -> ids of events, cancels and receipts taken
          conflicts,    \* party -> commands with conflicting terminal receipts
          receipts,     \* party -> its ReceiptProjection
          sent,         \* messages on the wire
          offered       \* party -> receipts ever delivered to it (history)

commandVars == <<entries, seen, conflicts, receipts, sent, offered>>

None == "none"
NoId == 0        \* no event, no receipt, no generation to check
TerminalStatuses == {"applied", "rejected", "cancelled", "superseded", "timed_out"}

\* A receipt's outcome, with the reason where the reason refines a rejection.
IsTerminal(verdict) == verdict \in TerminalStatuses
Outcome(verdict) == IF verdict \in TerminalStatuses \ {"applied"} THEN "rejected" ELSE verdict

ProgressStatusOf(kind) ==
  CASE kind \in {"observed", "accepted"} -> "accepted"
    [] kind \in {"started", "progress"}  -> "running"
    [] OTHER -> None

PhaseRank(status) ==
  CASE status = "submitted" -> 0 [] status = "accepted" -> 1 [] status = "running" -> 2 [] OTHER -> 3

\* The messages: id is the eventId, the cancel's causationId or the receiptId.
Submit(c, g) == [type |-> "submit", command |-> c, generation |-> g]
Cancel(c, g, id) == [type |-> "cancel", command |-> c, generation |-> g, id |-> id]
Event(c, g, kind, id) == [type |-> "event", command |-> c, generation |-> g, kind |-> kind, id |-> id]
Receipt(c, g, verdict, id) == [type |-> "receipt", command |-> c, generation |-> g, verdict |-> verdict, id |-> id]
Image(cs) == [type |-> "image", commands |-> cs]

Entry(status, g) ==
  [status |-> status, terminal |-> FALSE, generation |-> g, lastEvent |-> NoId, terminalReceipt |-> NoId]

NoReceipts == [byId |-> {}, stale |-> {}, latest |-> <<>>, terminal |-> <<>>]

Init ==
  /\ entries = [p \in Parties |-> <<>>]
  /\ seen = [p \in Parties |-> {}]
  /\ conflicts = [p \in Parties |-> {}]
  /\ receipts = [p \in Parties |-> NoReceipts]
  /\ sent = {}
  /\ offered = [p \in Parties |-> {}]

Known(p) == DOMAIN entries[p]
With(f, k, v) == [x \in DOMAIN f \cup {k} |-> IF x = k THEN v ELSE f[x]]

----------------------------------------------------------------------------
(* CommandProjection: what a party does with a delivered message.            *)

SubmitApplied(p, c, g) ==
  entries' = [entries EXCEPT ![p] = IF c \in Known(p) THEN @ ELSE With(@, c, Entry("submitted", g))]

\* Events and cancels count once, for a known command of the same generation.
Current(p, m) == /\ m.command \in Known(p)
                 /\ m.id \notin seen[p]
                 /\ m.generation = entries[p][m.command].generation

EventApplied(p, m) ==
  LET entry == entries[p][m.command]
      next == ProgressStatusOf(m.kind)
      advances == ~entry.terminal /\ next # None /\ PhaseRank(next) >= PhaseRank(entry.status)
  IN IF ~Current(p, m) THEN UNCHANGED <<entries, seen>>
     ELSE /\ seen' = [seen EXCEPT ![p] = @ \cup {m.id}]
          /\ entries' = [entries EXCEPT ![p][m.command] =
               [entry EXCEPT !.lastEvent = m.id, !.status = IF advances THEN next ELSE @]]

CancelApplied(p, m) ==
  seen' = [seen EXCEPT ![p] = IF Current(p, m) THEN @ \cup {m.id} ELSE @]

\* Mutant: a terminal receipt settles the entry again.
SettlesAgain(p, m) ==
  LET entry == entries[p][m.command]
      settled == [entry EXCEPT !.terminal = TRUE, !.status = m.verdict, !.terminalReceipt = m.id]
  IN IF ~Current(p, m) \/ ~IsTerminal(m.verdict) THEN UNCHANGED <<entries, seen, conflicts>>
     ELSE /\ seen' = [seen EXCEPT ![p] = @ \cup {m.id}]
          /\ entries' = [entries EXCEPT ![p][m.command] = settled]
          /\ UNCHANGED conflicts

\* A terminal receipt settles the entry; one that disagrees is not recorded.
ReceiptApplied(p, m) ==
  LET entry == entries[p][m.command]
      settled == [entry EXCEPT !.terminal = TRUE, !.status = m.verdict, !.terminalReceipt = m.id]
      accepted == [entry EXCEPT !.status = "accepted"]
      advances == ~entry.terminal /\ PhaseRank("accepted") >= PhaseRank(entry.status)
      clash == IsTerminal(m.verdict) /\ entry.terminal /\ entry.status # m.verdict
  IN IF ~Current(p, m) THEN UNCHANGED <<entries, seen, conflicts>>
     ELSE IF clash
     THEN /\ conflicts' = [conflicts EXCEPT ![p] = @ \cup {m.command}]
          /\ UNCHANGED <<entries, seen>>
     ELSE /\ seen' = [seen EXCEPT ![p] = @ \cup {m.id}]
          /\ entries' = [entries EXCEPT ![p][m.command] =
               IF IsTerminal(m.verdict) THEN (IF entry.terminal THEN entry ELSE settled)
               ELSE IF advances THEN accepted ELSE entry]
          /\ UNCHANGED conflicts

\* Every entry of an image replaces the party's own.
ImageApplied(p, m) ==
  /\ entries' = [entries EXCEPT ![p] = [c \in Known(p) \cup DOMAIN m.commands |->
                   IF c \in DOMAIN m.commands THEN m.commands[c] ELSE @[c]]]
  /\ seen' = [seen EXCEPT ![p] = @ \cup (UNION {{m.commands[c].lastEvent, m.commands[c].terminalReceipt} :
                                                c \in DOMAIN m.commands} \ {NoId})]

----------------------------------------------------------------------------
(* ReceiptProjection.observe under the generation g (NoId: not checked).     *)
Observed(proj, m, g) ==
  LET agrees == m.command \notin DOMAIN proj.terminal
                  \/ Outcome(proj.terminal[m.command].verdict) = Outcome(m.verdict)
      first == IsTerminal(m.verdict) /\ m.command \notin DOMAIN proj.terminal
  IN IF m.id \in proj.byId \cup proj.stale THEN proj
     ELSE IF g # NoId /\ m.generation # g THEN [proj EXCEPT !.stale = @ \cup {m.id}]
     ELSE IF IsTerminal(m.verdict) /\ ~agrees THEN proj
     ELSE [proj EXCEPT !.byId = @ \cup {m.id},
                       !.latest = With(@, m.command, m),
                       !.terminal = IF first THEN With(@, m.command, m) ELSE @]

----------------------------------------------------------------------------
Put(m) == /\ Cardinality(sent) < MaxSent
          /\ sent' = sent \cup {m}

NewId == Cardinality(sent)   \* fresh: messages are never taken off the wire

\* submitCommand and cancelCommand: sent and folded in.
CallSubmit(c, g) ==
  /\ Put(Submit(c, g))
  /\ SubmitApplied(Caller, c, g)
  /\ UNCHANGED <<seen, conflicts, receipts, offered>>

CallCancel(c) ==
  /\ c \in Known(Caller)
  /\ LET m == Cancel(c, entries[Caller][c].generation, NewId)
     IN Put(m) /\ CancelApplied(Caller, m)
  /\ UNCHANGED <<entries, conflicts, receipts, offered>>

\* The authority: events and receipts for a command it was sent, also two
\* terminal receipts that disagree.
EmitEvent(c, g, kind) ==
  /\ Submit(c, g) \in sent
  /\ Put(Event(c, g, kind, NewId))
  /\ UNCHANGED <<entries, seen, conflicts, receipts, offered>>

EmitReceipt(c, g, verdict) ==
  /\ Submit(c, g) \in sent
  /\ Put(Receipt(c, g, verdict, NewId))
  /\ UNCHANGED <<entries, seen, conflicts, receipts, offered>>

\* toImage of a party's projection.
SendImage(p) ==
  /\ Known(p) # {}
  /\ Put(Image(entries[p]))
  /\ UNCHANGED <<entries, seen, conflicts, receipts, offered>>

DeliverCommand(p, m) ==
  /\ m \in sent
  /\ \/ m.type = "submit" /\ SubmitApplied(p, m.command, m.generation) /\ UNCHANGED seen
     \/ m.type = "cancel" /\ CancelApplied(p, m) /\ UNCHANGED entries
     \/ m.type = "event" /\ EventApplied(p, m)
  /\ UNCHANGED <<conflicts, receipts, sent, offered>>

DeliverImage(p, m) ==
  /\ m \in sent /\ m.type = "image"
  /\ ImageApplied(p, m)
  /\ UNCHANGED <<conflicts, receipts, sent, offered>>

DeliverReceipt(p, m, g) ==
  /\ m \in sent /\ m.type = "receipt"
  /\ ReceiptApplied(p, m)
  /\ receipts' = [receipts EXCEPT ![p] = Observed(@, m, g)]
  /\ offered' = [offered EXCEPT ![p] = IF Current(p, m) THEN @ \cup {m} ELSE @]
  /\ UNCHANGED sent

Next ==
  \/ \E c \in Commands, g \in Generations :
       \/ CallSubmit(c, g)
       \/ \E kind \in Kinds : EmitEvent(c, g, kind)
       \/ \E verdict \in Verdicts : EmitReceipt(c, g, verdict)
  \/ \E c \in Commands : CallCancel(c)
  \/ \E p \in Parties : SendImage(p)
  \/ \E p \in Parties, m \in sent : \/ DeliverCommand(p, m)
                                    \/ DeliverImage(p, m)
                                    \/ \E g \in Believed : DeliverReceipt(p, m, g)

Spec == Init /\ [][Next]_commandVars

\* CommandRpcClient.pollCall.
PollCall(p, c) ==
  IF c \in conflicts[p] THEN "conflict"
  ELSE IF c \in Known(p) /\ entries[p][c].terminal THEN entries[p][c].status
  ELSE "pending"

----------------------------------------------------------------------------
TypeOK ==
  \A p \in Parties :
    /\ Known(p) \subseteq Commands
    /\ \A c \in Known(p) : /\ entries[p][c].generation \in Generations
                           /\ entries[p][c].terminal = (entries[p][c].status \in TerminalStatuses)
    /\ conflicts[p] \subseteq Known(p)
    /\ DOMAIN receipts[p].terminal \subseteq DOMAIN receipts[p].latest

(* No message other than an image of another projection takes back or        *)
(* changes the terminal status of a command, in whatever order events,       *)
(* cancels and receipts arrive and however often.                            *)
TerminalIsFinal ==
  [][\A p \in Parties, c \in Commands :
       c \in Known(p) /\ entries[p][c].terminal /\ entries'[p][c] # entries[p][c]
         => \/ entries'[p][c].status = entries[p][c].status /\ entries'[p][c].terminal
            \/ \E m \in sent : m.type = "image" /\ DeliverImage(p, m)]_commandVars

(* A party that was given two terminal receipts with different outcomes for  *)
(* a command never reports it resolved, whichever came first; before images  *)
(* are exchanged.                                                            *)
ConflictIsReported ==
  \A p \in Parties, c \in Commands :
    /\ \A m \in sent : m.type # "image"
    /\ \E a, b \in offered[p] : /\ a.command = c /\ b.command = c
                                /\ IsTerminal(a.verdict) /\ IsTerminal(b.verdict)
                                /\ a.verdict # b.verdict
    => PollCall(p, c) = "conflict"

(* The receipt log agrees with itself: the terminal receipt kept for a       *)
(* command is one that is recorded, and every recorded terminal receipt of   *)
(* the command has its outcome.                                              *)
ReceiptLogAgrees ==
  \A p \in Parties : \A c \in DOMAIN receipts[p].terminal :
    /\ receipts[p].terminal[c].id \in receipts[p].byId
    /\ \A m \in sent : m.type = "receipt" /\ m.command = c /\ m.id \in receipts[p].byId /\ IsTerminal(m.verdict)
         => Outcome(m.verdict) = Outcome(receipts[p].terminal[c].verdict)

(* "a command becomes terminal only when a terminal CausalReceipt folds in"  *)
(* and a call that resolved stays resolved.                                  *)
ResolvedStaysResolved ==
  [][\A c \in Commands : PollCall(Caller, c) \in TerminalStatuses => PollCall(Caller, c)' # "pending"]_commandVars
=============================================================================
