--------------------------- MODULE IndexedDbOutbox ---------------------------
(***************************************************************************)
(* The durable outbox of src/src/indexeddb-outbox.js under the Outbox of   *)
(* src/src/index.js: several handles (browser tabs) over one channel of    *)
(* one database.  Each handle hydrates a mirror when it opens and answers  *)
(* from it; every mutation is a transaction that the database runs later,  *)
(* in creation order for each store, and whose handle learns of it later   *)
(* still.  A transaction may abort, and a handle may die at any moment: a  *)
(* transaction of its that has not committed then never does.              *)
(***************************************************************************)
EXTENDS Integers, Sequences, FiniteSets, FiniteSetsExt, SequencesExt, FiniteSetTheorems, TLAPS

CONSTANTS Handles, MaxEpoch,
          MaxAcks, MaxAborts, MaxOpens   \* bounds on calls, failures and opens

VARIABLES frames,     \* the frames store: epochs of the rows
          cursor,     \* the cursors store: the row of the channel, 0 for none
          frameTxs,   \* transactions on frames, in creation order
          cursorTxs,  \* transactions on cursors, in creation order
          handle,     \* [Handles -> the state of that tab]
          committed,  \* ghost: the epochs whose put has committed
          spent       \* ghost: the acks, aborts and opens so far

outboxVars == <<frames, cursor, frameTxs, cursorTxs, handle, committed, spent>>

FrameEpochs == 1..MaxEpoch
Larger(a, b) == IF a > b THEN a ELSE b

\* acked is the outbox's ackedThrough; waiting are the acks whose cursor write
\* is still chained behind another; news are the settled transactions whose
\* handlers have not run.
Opened(rows, through) ==
    [open |-> TRUE, mirror |-> rows, cursor |-> through, acked |-> through,
     waiting |-> <<>>, saving |-> FALSE, news |-> <<>>]
Shut == [Opened({}, 0) EXCEPT !.open = FALSE]

Init ==
    /\ frames = {} /\ cursor = 0 /\ committed = {}
    /\ frameTxs = <<>> /\ cursorTxs = <<>>
    /\ handle = [h \in Handles |-> Shut]
    /\ spent = [acks |-> 0, aborts |-> 0, opens |-> 0]

\* IndexedDbStore.open and the Outbox's constructor: one readonly transaction.
Open(h) ==
    /\ ~handle[h].open /\ spent.opens < MaxOpens
    /\ handle' = [handle EXCEPT ![h] = Opened(frames, cursor)]
    /\ spent' = [spent EXCEPT !.opens = @ + 1]
    /\ UNCHANGED <<frames, cursor, frameTxs, cursorTxs, committed>>

\* Outbox.append: the row is put by a transaction, the mirror follows it.
Put(h, e) ==
    /\ handle[h].open
    /\ e \notin frames \cup committed
    /\ \A i \in DOMAIN frameTxs : frameTxs[i].put # {e}
    /\ \A d \in FrameEpochs : d < e => \/ d \in committed
                                  \/ \E i \in DOMAIN frameTxs : frameTxs[i].put = {d}
    /\ frameTxs' = Append(frameTxs, [by |-> h, put |-> {e}, delete |-> {}, through |-> 0])
    /\ UNCHANGED <<frames, cursor, cursorTxs, handle, committed, spent>>

\* Outbox.ackThrough up to the cursor write, which waits for those before it.
AckThrough(h, e) ==
    /\ handle[h].open /\ spent.acks < MaxAcks
    /\ e > handle[h].acked
    /\ spent' = [spent EXCEPT !.acks = @ + 1]
    /\ IF handle[h].saving
       THEN /\ handle' = [handle EXCEPT ![h].waiting = Append(@, e)]
            /\ UNCHANGED cursorTxs
       ELSE /\ handle' = [handle EXCEPT ![h].saving = TRUE]
            /\ cursorTxs' = Append(cursorTxs, [by |-> h, epoch |-> e])
    /\ UNCHANGED <<frames, cursor, frameTxs, committed>>

Settle(h, kind, tx, ok) ==
    handle' = [handle EXCEPT ![h].news = Append(@, [kind |-> kind, tx |-> tx, ok |-> ok])]

\* The transaction at the head of the frames store commits, or aborts.
CommitFrames ==
    /\ frameTxs # <<>> /\ frameTxs' = Tail(frameTxs)
    /\ LET tx == Head(frameTxs) IN
         \/ /\ frames' = (frames \cup tx.put) \ tx.delete
            /\ committed' = committed \cup tx.put
            /\ Settle(tx.by, "frames", tx, TRUE)
            /\ UNCHANGED spent
         \/ /\ spent.aborts < MaxAborts
            /\ spent' = [spent EXCEPT !.aborts = @ + 1]
            /\ Settle(tx.by, "frames", tx, FALSE)
            /\ UNCHANGED <<frames, committed>>
    /\ UNCHANGED <<cursor, cursorTxs>>

\* Mutant: the maximum over this handle alone.
HandleMax(h, e) == Larger(handle[h].cursor, e)

\* The row is read and written inside the transaction: a database-wide maximum.
NextCursor(h, e) == Max({cursor, handle[h].cursor, e})

CommitCursor ==
    /\ cursorTxs # <<>> /\ cursorTxs' = Tail(cursorTxs)
    /\ LET tx == Head(cursorTxs)
           to == NextCursor(tx.by, tx.epoch) IN
         \/ /\ cursor' = to
            /\ Settle(tx.by, "cursor", [epoch |-> tx.epoch, next |-> to], TRUE)
            /\ UNCHANGED spent
         \/ /\ spent.aborts < MaxAborts
            /\ spent' = [spent EXCEPT !.aborts = @ + 1]
            /\ Settle(tx.by, "cursor", [epoch |-> tx.epoch, next |-> 0], FALSE)
            /\ UNCHANGED cursor
    /\ UNCHANGED <<frames, frameTxs, committed>>

\* target of Outbox.ackThrough, evaluated when it is needed.
Target(s, e) == Max({s.acked, e, s.cursor})

\* Mutant: every row of the mirror is taken to be behind the ack.
EveryKey(s, through) == s.mirror

\* deleteThrough's keys are read from the mirror before its transaction.
KeysThrough(s, through) == {k \in s.mirror : k <= through}

NextSave(h, s) ==
    IF s.waiting = <<>> THEN cursorTxs
    ELSE Append(cursorTxs, [by |-> h, epoch |-> Head(s.waiting)])

Unchained(s) ==
    IF s.waiting = <<>> THEN [s EXCEPT !.saving = FALSE]
    ELSE [s EXCEPT !.waiting = Tail(@)]

\* A put's promise resolves: the mirror learns of the row.  A delete's: the
\* mirror forgets the rows and the ack is finished.  A rejected one: nothing.
AfterFrames(h, s, n) ==
    /\ handle' = [handle EXCEPT ![h] =
         IF ~n.ok THEN s
         ELSE IF n.tx.put # {} THEN [s EXCEPT !.mirror = @ \cup n.tx.put]
         ELSE [s EXCEPT !.mirror = @ \ n.tx.delete, !.acked = Target(s, n.tx.through)]]
    /\ UNCHANGED <<frameTxs, cursorTxs>>

\* A cursor write settles: its ack goes on to delete, if it was saved, and the
\* next write of the chain starts either way.
AfterCursor(h, s, n) ==
    LET t == IF n.ok THEN [s EXCEPT !.cursor = n.tx.next] ELSE s
        through == Target(t, n.tx.epoch)
    IN  /\ handle' = [handle EXCEPT ![h] = Unchained(t)]
        /\ cursorTxs' = NextSave(h, s)
        /\ frameTxs' = IF n.ok
             THEN Append(frameTxs, [by |-> h, put |-> {}, delete |-> KeysThrough(t, through),
                                    through |-> n.tx.epoch])
             ELSE frameTxs

Handle(h) ==
    /\ handle[h].news # <<>>
    /\ LET n == Head(handle[h].news)
           s == [handle[h] EXCEPT !.news = Tail(@)]
       IN  IF n.kind = "frames" THEN AfterFrames(h, s, n) ELSE AfterCursor(h, s, n)
    /\ UNCHANGED <<frames, cursor, committed, spent>>

\* A store's transactions without those of h.
Surviving(txs, h) ==
    LET left[i \in 0..Len(txs)] ==
          IF i = 0 THEN <<>>
          ELSE IF txs[i].by = h THEN left[i - 1] ELSE Append(left[i - 1], txs[i])
    IN  left[Len(txs)]

\* The tab goes away, and its unfinished transactions with it.
Die(h) ==
    /\ handle[h].open
    /\ handle' = [handle EXCEPT ![h] = Shut]
    /\ frameTxs' = Surviving(frameTxs, h)
    /\ cursorTxs' = Surviving(cursorTxs, h)
    /\ UNCHANGED <<frames, cursor, committed, spent>>

Next ==
    \/ \E h \in Handles : \/ Open(h) \/ Handle(h) \/ Die(h)
                          \/ \E e \in FrameEpochs : Put(h, e)
                          \/ \E e \in committed : AckThrough(h, e)
    \/ CommitFrames \/ CommitCursor

Spec == Init /\ [][Next]_outboxVars
------------------------------------------------------------------------------
TypeOK ==
    /\ frames \subseteq FrameEpochs /\ committed \subseteq FrameEpochs /\ cursor \in 0..MaxEpoch
    /\ \A h \in Handles : /\ handle[h].mirror \subseteq FrameEpochs
                          /\ handle[h].cursor \in 0..MaxEpoch
                          /\ handle[h].saving \in BOOLEAN

\* No frame is lost before its ack is durable: a row that was committed is in
\* the store, or an outbox opened now would know that it was acknowledged.
\* The cursor is saved before anything is deleted, by every handle.
UnackedSurvive == committed \subseteq frames \cup 1..cursor

\* What a handle takes for acknowledged is so in the database, and what it
\* still offers for replay beyond that is a row of the database.
MirrorIsHonest ==
    \A h \in Handles :
      /\ handle[h].acked <= cursor /\ handle[h].cursor <= cursor
      /\ \A e \in handle[h].mirror : e > cursor => e \in frames

\* "a database-wide max, not merely a per-JavaScript-handle max": the durable
\* cursor never goes back, whichever handle writes it and in whatever order.
CursorNeverBack == [][cursor' >= cursor]_outboxVars
------------------------------------------------------------------------------
\* For any number of tabs, frames, calls, aborts and deaths.  All that tabs hold
\* or have asked for is measured against the database: the cursors they know
\* against the saved one, c, the rows against those ever committed, done.
FrameTxs(c) == [by : Handles, put : SUBSET FrameEpochs, delete : SUBSET (1..c), through : 0..c]
CursorTxs == [by : Handles, epoch : FrameEpochs]

FrameNews(c, done) ==
    {n \in [kind : {"frames"}, tx : FrameTxs(c), ok : BOOLEAN] : n.ok => n.tx.put \subseteq done}
CursorNews(c) ==
    {n \in [kind : {"cursor"}, tx : [epoch : FrameEpochs, next : 0..c], ok : BOOLEAN] :
       n.ok => n.tx.epoch <= n.tx.next}

Tabs(c, done) ==
    [open : BOOLEAN, mirror : SUBSET done, cursor : 0..c, acked : 0..c,
     waiting : Seq(FrameEpochs), saving : BOOLEAN, news : Seq(FrameNews(c, done) \cup CursorNews(c))]

IInv ==
    /\ cursor \in 0..MaxEpoch
    /\ committed \subseteq FrameEpochs /\ frames \subseteq committed
    /\ committed \subseteq frames \cup 1..cursor
    /\ frameTxs \in Seq(FrameTxs(cursor)) /\ cursorTxs \in Seq(CursorTxs)
    /\ handle \in [Handles -> Tabs(cursor, committed)]

\* Naturals: a set of them has a least one, and induction.
LEMMA LeastNatural ==
  ASSUME NEW S \in SUBSET Nat, S # {}
  PROVE  \E n \in S : \A m \in S : n <= m
<1> DEFINE R == {ss \in Nat \X Nat : ss[1] < ss[2]}
<1>1. R = OpToRel(<, Nat)
  BY Zenon DEF OpToRel
<1>2. IsWellFoundedOn(R, Nat)
  BY <1>1, NatLessThanWellFounded
<1> HIDE DEF R
<1>3. PICK n \in S : \A m \in S : <<m, n>> \notin R
  BY <1>2, WFMin, Zenon
<1>4. ASSUME NEW m \in S
      PROVE  n <= m
  <2>1. <<m, n>> \notin {ss \in Nat \X Nat : ss[1] < ss[2]}
    BY <1>3 DEF R
  <2>2. <<m, n>> \in Nat \X Nat
    OBVIOUS
  <2>3. ~(<<m, n>>[1] < <<m, n>>[2])
    BY <2>1, <2>2, Zenon
  <2> QED  BY <2>3
<1> QED  BY <1>4

LEMMA Induction ==
  ASSUME NEW S, 0 \in S, \A n \in Nat : n \in S => n + 1 \in S
  PROVE  Nat \subseteq S
<1>1. SUFFICES ASSUME ~(Nat \subseteq S)
               PROVE  FALSE
  OBVIOUS
<1>2. PICK n \in Nat \ S : \A m \in Nat \ S : n <= m
  BY <1>1, LeastNatural
<1>3. n # 0 /\ n - 1 \in Nat /\ n - 1 \in S
  BY <1>2
<1> QED  BY <1>2, <1>3


\* What survives of a store's transactions is of them.
LEMMA SurvivingAreOf ==
  ASSUME NEW S, NEW txs \in Seq(S), NEW h
  PROVE  Surviving(txs, h) \in Seq(S)
<1> DEFINE Next_(rest, tx) == IF tx.by = h THEN rest ELSE Append(rest, tx)
           IsUpTo(f, n) == f = [i \in 0 .. n |-> IF i = 0 THEN <<>> ELSE Next_(f[i - 1], txs[i])]
           Good == {n \in Nat : \E f : IsUpTo(f, n)}
<1>1. 0 \in Good
  <2> DEFINE f == [i \in 0 .. 0 |-> <<>>]
  <2>1. IsUpTo(f, 0)
    <3>1. \A i \in 0 .. 0 : i = 0
      OBVIOUS
    <3> QED  BY <3>1
  <2> QED  BY <2>1
<1>2. ASSUME NEW n \in Nat, n \in Good
      PROVE  n + 1 \in Good
  <2>1. PICK f : IsUpTo(f, n)
    BY <1>2
  <2> HIDE DEF Next_
  <2> DEFINE g == [i \in 0 .. n + 1 |-> IF i \in 0 .. n THEN f[i] ELSE Next_(f[n], txs[n + 1])]
  <2>2. ASSUME NEW i \in 0 .. n + 1
        PROVE  g[i] = IF i = 0 THEN <<>> ELSE Next_(g[i - 1], txs[i])
    <3>1. CASE i = 0
      <4>1. i \in 0 .. n
        BY <3>1
      <4> QED  BY <2>1, <3>1, <4>1
    <3>2. CASE i \in 0 .. n /\ i # 0
      <4>1. i - 1 \in 0 .. n /\ i - 1 \in 0 .. n + 1
        BY <3>2
      <4>2. g[i] = f[i] /\ g[i - 1] = f[i - 1]
        BY <3>2, <4>1
      <4>3. f[i] = Next_(f[i - 1], txs[i])
        BY <2>1, <3>2
      <4> QED  BY <3>2, <4>2, <4>3
    <3>3. CASE i = n + 1
      <4>1. i \notin 0 .. n /\ i # 0 /\ i - 1 = n /\ n \in 0 .. n /\ n \in 0 .. n + 1
        BY <3>3
      <4>2. g[i] = Next_(f[n], txs[i]) /\ g[n] = f[n]
        BY <3>3, <4>1
      <4> QED  BY <4>1, <4>2
    <3>4. i \in 0 .. n \/ i = n + 1
      OBVIOUS
    <3> QED  BY <3>1, <3>2, <3>3, <3>4
  <2>3. IsUpTo(g, n + 1)
    BY <2>2
  <2>4. n + 1 \in Nat
    OBVIOUS
  <2> HIDE DEF g, IsUpTo
  <2> QED  BY <2>3, <2>4
<1>3. Len(txs) \in Good
  <2> HIDE DEF Good
  <2> QED  BY <1>1, <1>2, Induction
<1> DEFINE left == CHOOSE f : IsUpTo(f, Len(txs))
<1>4. IsUpTo(left, Len(txs))
  <2> HIDE DEF IsUpTo
  <2> QED  BY <1>3
<1>5. Surviving(txs, h) = left[Len(txs)]
  BY Zenon DEF Surviving
<1> HIDE DEF left, Good
<1> DEFINE Fine == {n \in Nat : n <= Len(txs) => left[n] \in Seq(S)}
<1>6. 0 \in Fine
  BY <1>4
<1>7. ASSUME NEW n \in Nat, n \in Fine
      PROVE  n + 1 \in Fine
  <2> SUFFICES ASSUME n + 1 <= Len(txs) PROVE left[n + 1] \in Seq(S)
    OBVIOUS
  <2>1. PICK k : k = n + 1
    OBVIOUS
  <2>2. k \in 0 .. Len(txs) /\ k # 0 /\ k - 1 = n /\ k \in 1 .. Len(txs) /\ n <= Len(txs)
    BY <2>1
  <2>3. left[n] \in Seq(S) /\ txs[k] \in S
    BY <1>7, <2>2
  <2>4. left[k] = Next_(left[k - 1], txs[k])
    <3> HIDE DEF Next_
    <3> QED  BY <1>4, <2>2
  <2>5. left[k] = Next_(left[n], txs[k])
    <3> HIDE DEF Next_
    <3> QED  BY <2>2, <2>4
  <2>6. Append(left[n], txs[k]) \in Seq(S)
    BY <2>3
  <2> QED  BY <2>1, <2>3, <2>5, <2>6
<1>8. Len(txs) \in Fine
  <2> HIDE DEF Fine
  <2> QED  BY <1>6, <1>7, Induction
<1> QED  BY <1>5, <1>8

\* The greatest of two or three.
LEMMA MaxOfThree ==
  ASSUME NEW a \in Nat, NEW b \in Nat, NEW c \in Nat
  PROVE  /\ Max({a, b, c}) \in {a, b, c}
         /\ a <= Max({a, b, c}) /\ b <= Max({a, b, c}) /\ c <= Max({a, b, c})
<1> DEFINE T == {a, b, c}
<1>1. \E x \in T : \A y \in T : x >= y
  <2>1. CASE a >= b /\ a >= c
    BY <2>1
  <2>2. CASE b >= a /\ b >= c
    BY <2>2
  <2>3. CASE c >= a /\ c >= b
    BY <2>3
  <2> QED  BY <2>1, <2>2, <2>3
<1> HIDE DEF T
<1>2. Max(T) \in T /\ \A y \in T : Max(T) >= y
  BY <1>1 DEF Max
<1> QED  BY <1>2 DEF T

\* What is honest stays so when the saved cursor rises and rows are added.
LEMMA StaysHonest ==
  ASSUME NEW c \in Nat, NEW d \in Nat, c <= d, NEW A, NEW B, A \subseteq B
  PROVE  /\ FrameTxs(c) \subseteq FrameTxs(d)
         /\ Tabs(c, A) \subseteq Tabs(d, B)
         /\ FrameNews(c, A) \cup CursorNews(c) \subseteq FrameNews(d, B) \cup CursorNews(d)
<1>1. 0..c \subseteq 0..d /\ 1..c \subseteq 1..d
  OBVIOUS
<1>2. FrameTxs(c) \subseteq FrameTxs(d)
  BY <1>1 DEF FrameTxs
<1>3. FrameNews(c, A) \subseteq FrameNews(d, B)
  BY <1>2 DEF FrameNews
<1>4. CursorNews(c) \subseteq CursorNews(d)
  BY <1>1 DEF CursorNews
<1>5. Seq(FrameNews(c, A) \cup CursorNews(c)) \subseteq Seq(FrameNews(d, B) \cup CursorNews(d))
  BY <1>3, <1>4
<1>6. Tabs(c, A) \subseteq Tabs(d, B)
  BY <1>1, <1>5 DEF Tabs
<1> QED  BY <1>2, <1>3, <1>4, <1>6

\* A tab that changes keeps the others as they are.
LEMMA TabChanges ==
  ASSUME NEW T, NEW old \in [Handles -> T], NEW h \in Handles, NEW t \in T
  PROVE  [old EXCEPT ![h] = t] \in [Handles -> T]
OBVIOUS

LEMMA OpenedIsTab ==
  ASSUME NEW c \in Nat, NEW done, NEW rows \in SUBSET done, NEW through \in 0..c
  PROVE  Opened(rows, through) \in Tabs(c, done) /\ Shut \in Tabs(c, done)
<1>1. <<>> \in Seq(FrameEpochs) /\ <<>> \in Seq(FrameNews(c, done) \cup CursorNews(c)) /\ 0 \in 0..c
  OBVIOUS
<1>2. Opened(rows, through) \in Tabs(c, done)
  BY <1>1 DEF Opened, Tabs
<1>3. Opened({}, 0) \in Tabs(c, done)
  BY <1>1 DEF Opened, Tabs
<1>4. Shut \in Tabs(c, done)
  BY <1>3 DEF Shut, Tabs
<1> QED  BY <1>2, <1>4

LEMMA OpenHonest == ASSUME MaxEpoch \in Nat, IInv, NEW h \in Handles, Open(h) PROVE IInv'
<1>1. Opened(frames, cursor) \in Tabs(cursor, committed)
  BY OpenedIsTab DEF IInv
<1>2. handle' \in [Handles -> Tabs(cursor, committed)]
  BY <1>1, TabChanges DEF Open, IInv
<1> QED  BY <1>2 DEF Open, IInv

LEMMA PutHonest == ASSUME MaxEpoch \in Nat, IInv, NEW h \in Handles, NEW e \in FrameEpochs, Put(h, e) PROVE IInv'
<1>1. [by |-> h, put |-> {e}, delete |-> {}, through |-> 0] \in FrameTxs(cursor)
  BY DEF FrameTxs, IInv
<1>2. frameTxs' \in Seq(FrameTxs(cursor))
  BY <1>1 DEF Put, IInv
<1> QED  BY <1>2 DEF Put, IInv

LEMMA AckThroughHonest ==
  ASSUME MaxEpoch \in Nat, IInv, NEW h \in Handles, NEW e \in committed, AckThrough(h, e)
  PROVE  IInv'
<1>1. handle[h] \in Tabs(cursor, committed) /\ e \in FrameEpochs
  BY DEF IInv
<1>2. CASE handle[h].saving
  <2> DEFINE t == [handle[h] EXCEPT !.waiting = Append(@, e)]
  <2>1. handle' = [handle EXCEPT ![h] = t] /\ UNCHANGED cursorTxs
    BY <1>2 DEF AckThrough, IInv
  <2>2. Append(handle[h].waiting, e) \in Seq(FrameEpochs)
    BY <1>1 DEF Tabs
  <2>3. t \in Tabs(cursor, committed)
    BY <1>1, <2>2 DEF Tabs
  <2> HIDE DEF t
  <2>4. handle' \in [Handles -> Tabs(cursor, committed)]
    BY <2>1, <2>3, TabChanges DEF IInv
  <2> QED  BY <2>1, <2>4 DEF AckThrough, IInv
<1>3. CASE ~handle[h].saving
  <2> DEFINE t == [handle[h] EXCEPT !.saving = TRUE]
  <2>1. handle' = [handle EXCEPT ![h] = t] /\ cursorTxs' = Append(cursorTxs, [by |-> h, epoch |-> e])
    BY <1>3 DEF AckThrough, IInv
  <2>2. t \in Tabs(cursor, committed)
    BY <1>1 DEF Tabs
  <2> HIDE DEF t
  <2>3. handle' \in [Handles -> Tabs(cursor, committed)]
    BY <2>1, <2>2, TabChanges DEF IInv
  <2>4. [by |-> h, epoch |-> e] \in CursorTxs
    BY <1>1 DEF CursorTxs
  <2>5. cursorTxs' \in Seq(CursorTxs)
    BY <2>1, <2>4 DEF IInv
  <2> QED  BY <2>3, <2>5 DEF AckThrough, IInv
<1> QED  BY <1>2, <1>3

\* What a tab is told joins its news.
LEMMA SettleKeeps ==
  ASSUME NEW c, NEW done, NEW h \in Handles, NEW kind, NEW tx, NEW ok, Settle(h, kind, tx, ok),
         handle \in [Handles -> Tabs(c, done)],
         [kind |-> kind, tx |-> tx, ok |-> ok] \in FrameNews(c, done) \cup CursorNews(c)
  PROVE  handle' \in [Handles -> Tabs(c, done)]
<1> DEFINE n == [kind |-> kind, tx |-> tx, ok |-> ok]
           t == [handle[h] EXCEPT !.news = Append(@, n)]
<1>1. handle' = [handle EXCEPT ![h] = t]
  BY DEF Settle
<1>2. handle[h] \in Tabs(c, done)
  OBVIOUS
<1> HIDE DEF n
<1>3. n \in FrameNews(c, done) \cup CursorNews(c)
  BY DEF n
<1>4. Append(handle[h].news, n) \in Seq(FrameNews(c, done) \cup CursorNews(c))
  BY <1>2, <1>3 DEF Tabs
<1>5. t \in Tabs(c, done)
  BY <1>2, <1>4 DEF Tabs
<1> HIDE DEF t
<1> QED  BY <1>1, <1>5, TabChanges

LEMMA CommitFramesHonest == ASSUME MaxEpoch \in Nat, IInv, CommitFrames PROVE IInv'
<1> DEFINE tx == Head(frameTxs)
<1>1. /\ tx \in FrameTxs(cursor) /\ frameTxs' \in Seq(FrameTxs(cursor))
      /\ UNCHANGED <<cursor, cursorTxs>> /\ cursor \in Nat
  BY DEF CommitFrames, IInv
<1>2. CASE /\ frames' = (frames \cup tx.put) \ tx.delete /\ committed' = committed \cup tx.put
           /\ Settle(tx.by, "frames", tx, TRUE)
  <2> HIDE DEF tx
  <2>1. tx.by \in Handles /\ tx.put \subseteq FrameEpochs /\ tx.delete \subseteq 1..cursor
    BY <1>1 DEF FrameTxs
  <2>2. handle \in [Handles -> Tabs(cursor, committed')]
    <3>1. Tabs(cursor, committed) \subseteq Tabs(cursor, committed')
      BY <1>1, <1>2, StaysHonest
    <3> QED  BY <3>1 DEF IInv
  <2>3. [kind |-> "frames", tx |-> tx, ok |-> TRUE] \in FrameNews(cursor, committed') \cup CursorNews(cursor)
    BY <1>1, <1>2 DEF FrameNews
  <2>4. handle' \in [Handles -> Tabs(cursor, committed')]
    BY <1>2, <2>1, <2>2, <2>3, SettleKeeps
  <2>5. committed' \subseteq FrameEpochs /\ frames' \subseteq committed' /\ committed' \subseteq frames' \cup 1..cursor
    BY <1>2, <2>1 DEF IInv
  <2> QED  BY <1>1, <2>4, <2>5 DEF IInv
<1>3. CASE Settle(tx.by, "frames", tx, FALSE) /\ UNCHANGED <<frames, committed>>
  <2> HIDE DEF tx
  <2>1. tx.by \in Handles
    BY <1>1 DEF FrameTxs
  <2>2. [kind |-> "frames", tx |-> tx, ok |-> FALSE] \in FrameNews(cursor, committed) \cup CursorNews(cursor)
    BY <1>1 DEF FrameNews
  <2>3. handle' \in [Handles -> Tabs(cursor, committed)]
    BY <1>3, <2>1, <2>2, SettleKeeps DEF IInv
  <2> QED  BY <1>1, <1>3, <2>3 DEF IInv
<1> QED  BY <1>2, <1>3 DEF CommitFrames

\* The cursor saved is no less than the one of the database or the ack.
LEMMA NextCursorRises ==
  ASSUME MaxEpoch \in Nat, IInv, NEW h \in Handles, NEW e \in FrameEpochs
  PROVE  /\ NextCursor(h, e) \in 0..MaxEpoch
         /\ cursor <= NextCursor(h, e) /\ e <= NextCursor(h, e)
<1>1. cursor \in 0..MaxEpoch /\ handle[h].cursor \in 0..cursor /\ e \in 1..MaxEpoch
  BY DEF IInv, Tabs, FrameEpochs
<1>2. cursor \in Nat /\ handle[h].cursor \in Nat /\ e \in Nat /\ handle[h].cursor \in 0..MaxEpoch
  BY <1>1
<1> DEFINE m == Max({cursor, handle[h].cursor, e})
<1>3. m \in {cursor, handle[h].cursor, e} /\ cursor <= m /\ e <= m
  BY <1>2, MaxOfThree
<1> HIDE DEF m
<1>4. m \in 0..MaxEpoch
  BY <1>1, <1>2, <1>3
<1> QED  BY <1>3, <1>4 DEF NextCursor, m

LEMMA CommitCursorHonest == ASSUME MaxEpoch \in Nat, IInv, CommitCursor PROVE IInv'
<1> DEFINE tx == Head(cursorTxs)
           to == NextCursor(tx.by, tx.epoch)
<1>1. /\ tx \in CursorTxs /\ cursorTxs' \in Seq(CursorTxs)
      /\ UNCHANGED <<frames, frameTxs, committed>> /\ cursor \in Nat
  BY DEF CommitCursor, IInv
<1>2. tx.by \in Handles /\ tx.epoch \in FrameEpochs
  BY <1>1 DEF CursorTxs
<1>3. to \in 0..MaxEpoch /\ cursor <= to /\ tx.epoch <= to
  BY <1>2, NextCursorRises
<1>4. CASE cursor' = to /\ Settle(tx.by, "cursor", [epoch |-> tx.epoch, next |-> to], TRUE)
  <2> HIDE DEF tx, to
  <2>1. to \in Nat
    BY <1>3
  <2>2. /\ Tabs(cursor, committed) \subseteq Tabs(to, committed)
        /\ FrameTxs(cursor) \subseteq FrameTxs(to)
    BY <1>1, <1>3, <2>1, StaysHonest
  <2>3. handle \in [Handles -> Tabs(to, committed)] /\ frameTxs \in Seq(FrameTxs(to))
    BY <2>2 DEF IInv
  <2>4. [kind |-> "cursor", tx |-> [epoch |-> tx.epoch, next |-> to], ok |-> TRUE]
          \in FrameNews(to, committed) \cup CursorNews(to)
    BY <1>2, <1>3, <2>1 DEF CursorNews
  <2>5. handle' \in [Handles -> Tabs(to, committed)]
    BY <1>2, <1>4, <2>3, <2>4, SettleKeeps
  <2>6. committed \subseteq frames \cup 1..to
    <3>1. 1..cursor \subseteq 1..to
      BY <1>1, <1>3, <2>1
    <3> QED  BY <3>1 DEF IInv
  <2> QED  BY <1>1, <1>3, <1>4, <2>3, <2>5, <2>6 DEF IInv
<1>5. CASE Settle(tx.by, "cursor", [epoch |-> tx.epoch, next |-> 0], FALSE) /\ UNCHANGED cursor
  <2> HIDE DEF tx, to
  <2>1. [kind |-> "cursor", tx |-> [epoch |-> tx.epoch, next |-> 0], ok |-> FALSE]
          \in FrameNews(cursor, committed) \cup CursorNews(cursor)
    BY <1>1, <1>2 DEF CursorNews
  <2>2. handle' \in [Handles -> Tabs(cursor, committed)]
    BY <1>2, <1>5, <2>1, SettleKeeps DEF IInv
  <2> QED  BY <1>1, <1>5, <2>2 DEF IInv
<1> QED  BY <1>4, <1>5 DEF CommitCursor

\* A tab that learns that its put or its delete has committed.
LEMMA AfterFramesHonest ==
  ASSUME MaxEpoch \in Nat, IInv, NEW h \in Handles, NEW s \in Tabs(cursor, committed),
         NEW n \in FrameNews(cursor, committed), AfterFrames(h, s, n),
         UNCHANGED <<frames, cursor, committed>>
  PROVE  IInv'
<1>1. /\ cursor \in Nat /\ UNCHANGED <<frameTxs, cursorTxs>>
      /\ n.tx \in FrameTxs(cursor) /\ n.ok \in BOOLEAN
      /\ n.ok => n.tx.put \subseteq committed
  BY DEF IInv, AfterFrames, FrameNews
<1> SUFFICES handle' \in [Handles -> Tabs(cursor, committed)]
  BY <1>1 DEF IInv
<1>2. CASE ~n.ok
  BY <1>2, TabChanges DEF AfterFrames, IInv
<1>3. CASE n.ok /\ n.tx.put # {}
  <2> DEFINE t == [s EXCEPT !.mirror = @ \cup n.tx.put]
  <2>1. handle' = [handle EXCEPT ![h] = t]
    BY <1>3 DEF AfterFrames
  <2>2. t \in Tabs(cursor, committed)
    BY <1>1, <1>3 DEF Tabs
  <2> HIDE DEF t
  <2> QED  BY <2>1, <2>2, TabChanges DEF IInv
<1>4. CASE n.ok /\ n.tx.put = {}
  <2> DEFINE to == Target(s, n.tx.through)
             t == [s EXCEPT !.mirror = @ \ n.tx.delete, !.acked = to]
  <2>1. handle' = [handle EXCEPT ![h] = t]
    BY <1>4 DEF AfterFrames
  <2>2. s.acked \in 0..cursor /\ s.cursor \in 0..cursor /\ n.tx.through \in 0..cursor
    BY <1>1 DEF Tabs, FrameTxs
  <2>3. to \in 0..cursor
    <3>1. s.acked \in Nat /\ s.cursor \in Nat /\ n.tx.through \in Nat
      BY <2>2
    <3>2. to \in {s.acked, n.tx.through, s.cursor}
      BY <3>1, MaxOfThree DEF Target
    <3> QED  BY <2>2, <3>2
  <2> HIDE DEF to
  <2>4. t \in Tabs(cursor, committed)
    BY <2>3 DEF Tabs
  <2> HIDE DEF t
  <2> QED  BY <2>1, <2>4, TabChanges DEF IInv
<1> QED  BY <1>1, <1>2, <1>3, <1>4

\* A tab that learns that its cursor was saved asks for the rows to be deleted.
LEMMA AfterCursorHonest ==
  ASSUME MaxEpoch \in Nat, IInv, NEW h \in Handles, NEW s \in Tabs(cursor, committed),
         NEW n \in CursorNews(cursor), AfterCursor(h, s, n),
         UNCHANGED <<frames, cursor, committed>>
  PROVE  IInv'
<1> DEFINE t == IF n.ok THEN [s EXCEPT !.cursor = n.tx.next] ELSE s
           through == Target(t, n.tx.epoch)
           keys == KeysThrough(t, through)
           tx == [by |-> h, put |-> {}, delete |-> keys, through |-> n.tx.epoch]
<1>1. /\ cursor \in Nat /\ n.tx.epoch \in FrameEpochs /\ n.tx.next \in 0..cursor
      /\ n.ok \in BOOLEAN /\ n.ok => n.tx.epoch <= n.tx.next
  BY DEF IInv, CursorNews
<1>2. /\ handle' = [handle EXCEPT ![h] = Unchained(t)]
      /\ cursorTxs' = NextSave(h, s)
      /\ frameTxs' = IF n.ok THEN Append(frameTxs, tx) ELSE frameTxs
  BY DEF AfterCursor
<1>3. t \in Tabs(cursor, committed)
  BY <1>1 DEF Tabs
<1>4. Unchained(t) \in Tabs(cursor, committed)
  <2> HIDE DEF t
  <2>1. CASE t.waiting = <<>>
    BY <1>3, <2>1 DEF Unchained, Tabs
  <2>2. CASE t.waiting # <<>>
    <3>1. Tail(t.waiting) \in Seq(FrameEpochs)
      BY <1>3, <2>2 DEF Tabs
    <3> QED  BY <1>3, <2>2, <3>1 DEF Unchained, Tabs
  <2> QED  BY <2>1, <2>2
<1>5. NextSave(h, s) \in Seq(CursorTxs)
  <2>1. CASE s.waiting = <<>>
    BY <2>1 DEF NextSave, IInv
  <2>2. CASE s.waiting # <<>>
    <3>1. Head(s.waiting) \in FrameEpochs
      BY <2>2 DEF Tabs
    <3>2. [by |-> h, epoch |-> Head(s.waiting)] \in CursorTxs
      BY <3>1 DEF CursorTxs
    <3> QED  BY <2>2, <3>2 DEF NextSave, IInv
  <2> QED  BY <2>1, <2>2
<1>6. ASSUME n.ok
      PROVE  tx \in FrameTxs(cursor)
  <2>1. t.acked \in 0..cursor /\ t.cursor \in 0..cursor /\ n.tx.epoch \in 0..cursor
    BY <1>1, <1>3, <1>6 DEF Tabs, FrameEpochs
  <2>2. through \in 0..cursor
    <3> HIDE DEF t
    <3>1. t.acked \in Nat /\ t.cursor \in Nat /\ n.tx.epoch \in Nat
      BY <2>1
    <3>2. through \in {t.acked, n.tx.epoch, t.cursor}
      BY <3>1, MaxOfThree DEF Target
    <3> QED  BY <2>1, <3>2
  <2> HIDE DEF through
  <2>3. t.mirror \subseteq FrameEpochs
    BY <1>3 DEF Tabs, IInv
  <2> HIDE DEF t
  <2>4. keys \subseteq 1..cursor
    BY <1>1, <2>2, <2>3 DEF KeysThrough, FrameEpochs
  <2> HIDE DEF keys
  <2> QED  BY <2>1, <2>4 DEF FrameTxs
<1>7. frameTxs' \in Seq(FrameTxs(cursor))
  <2> HIDE DEF tx
  <2> QED  BY <1>1, <1>2, <1>6 DEF IInv
<1> HIDE DEF t, tx
<1>8. handle' \in [Handles -> Tabs(cursor, committed)]
  BY <1>2, <1>4, TabChanges DEF IInv
<1> QED  BY <1>2, <1>5, <1>7, <1>8 DEF IInv

LEMMA HandleHonest == ASSUME MaxEpoch \in Nat, IInv, NEW h \in Handles, Handle(h) PROVE IInv'
<1> DEFINE n == Head(handle[h].news)
           s == [handle[h] EXCEPT !.news = Tail(@)]
<1>1. handle[h] \in Tabs(cursor, committed) /\ handle[h].news # <<>>
  BY DEF Handle, IInv
<1>2. /\ handle[h].news \in Seq(FrameNews(cursor, committed) \cup CursorNews(cursor))
  BY <1>1 DEF Tabs
<1>3. n \in FrameNews(cursor, committed) \cup CursorNews(cursor)
      /\ Tail(handle[h].news) \in Seq(FrameNews(cursor, committed) \cup CursorNews(cursor))
  BY <1>1, <1>2
<1>4. s \in Tabs(cursor, committed)
  BY <1>1, <1>3 DEF Tabs
<1>5. /\ IF n.kind = "frames" THEN AfterFrames(h, s, n) ELSE AfterCursor(h, s, n)
      /\ UNCHANGED <<frames, cursor, committed>>
  BY DEF Handle
<1> HIDE DEF n, s
<1>6. CASE n.kind = "frames"
  <2>1. n \in FrameNews(cursor, committed)
    BY <1>3, <1>6 DEF CursorNews
  <2> QED  BY <1>4, <1>5, <1>6, <2>1, AfterFramesHonest
<1>7. CASE n.kind # "frames"
  <2>1. n \in CursorNews(cursor)
    BY <1>3, <1>7 DEF FrameNews
  <2> QED  BY <1>4, <1>5, <1>7, <2>1, AfterCursorHonest
<1> QED  BY <1>6, <1>7

LEMMA DieHonest == ASSUME MaxEpoch \in Nat, IInv, NEW h \in Handles, Die(h) PROVE IInv'
<1>1. Shut \in Tabs(cursor, committed)
  <2>1. {} \in SUBSET committed /\ cursor \in Nat /\ 0 \in 0..cursor
    BY DEF IInv
  <2> QED  BY <2>1, OpenedIsTab
<1>2. handle' \in [Handles -> Tabs(cursor, committed)]
  BY <1>1, TabChanges DEF Die, IInv
<1>3. frameTxs' \in Seq(FrameTxs(cursor)) /\ cursorTxs' \in Seq(CursorTxs)
  BY SurvivingAreOf DEF Die, IInv
<1> QED  BY <1>2, <1>3 DEF Die, IInv

LEMMA InvInit == ASSUME MaxEpoch \in Nat, Init PROVE IInv
<1>1. Shut \in Tabs(0, {})
  BY OpenedIsTab
<1>2. <<>> \in Seq(FrameTxs(0)) /\ <<>> \in Seq(CursorTxs)
  OBVIOUS
<1> QED  BY <1>1, <1>2 DEF Init, IInv

LEMMA InvStep == ASSUME MaxEpoch \in Nat, IInv, [Next]_outboxVars PROVE IInv'
<1>1. CASE UNCHANGED outboxVars
  BY <1>1 DEF outboxVars, IInv
<1> QED  BY <1>1, OpenHonest, HandleHonest, DieHonest, PutHonest, AckThroughHonest,
            CommitFramesHonest, CommitCursorHonest DEF Next

\* The inductive invariant: whatever a tab holds, has asked for or is about to
\* be told was committed, or is behind the cursor saved, at that moment.
THEOREM Inductive ==
  ASSUME MaxEpoch \in Nat
  PROVE  Spec => []IInv
<1>1. Init => IInv
  BY InvInit
<1>2. IInv /\ [Next]_outboxVars => IInv'
  BY InvStep
<1> QED  BY <1>1, <1>2, PTL DEF Spec

\* A row that was committed is in the store or behind the saved cursor, whatever
\* tabs die and transactions abort: no frame is lost before its ack is durable.
THEOREM UnackedAlwaysSurvive ==
  ASSUME MaxEpoch \in Nat
  PROVE  Spec => []UnackedSurvive
<1>1. IInv => UnackedSurvive
  BY DEF IInv, UnackedSurvive
<1> QED  BY <1>1, Inductive, PTL

\* What a tab takes for acknowledged is behind the saved cursor, and what it
\* would replay beyond that is a row of the store, also when another tab has
\* acknowledged and deleted in between.
THEOREM MirrorAlwaysHonest ==
  ASSUME MaxEpoch \in Nat
  PROVE  Spec => [](TypeOK /\ MirrorIsHonest)
<1>1. IInv => TypeOK /\ MirrorIsHonest
  <2> SUFFICES ASSUME IInv PROVE TypeOK /\ MirrorIsHonest
    OBVIOUS
  <2>1. cursor \in 0..MaxEpoch /\ frames \subseteq FrameEpochs /\ committed \subseteq FrameEpochs
    BY DEF IInv
  <2>2. ASSUME NEW h \in Handles
        PROVE  /\ handle[h].mirror \subseteq committed /\ handle[h].saving \in BOOLEAN
               /\ handle[h].acked \in 0..cursor /\ handle[h].cursor \in 0..cursor
    <3>1. handle[h] \in Tabs(cursor, committed)
      BY DEF IInv
    <3> QED  BY <3>1 DEF Tabs
  <2>3. \A e \in committed : e > cursor => e \in frames
    BY <2>1 DEF IInv, FrameEpochs
  <2>4. TypeOK
    BY <2>1, <2>2 DEF TypeOK
  <2>5. MirrorIsHonest
    BY <2>1, <2>2, <2>3 DEF MirrorIsHonest
  <2> QED  BY <2>4, <2>5
<1> QED  BY <1>1, Inductive, PTL

\* The saved cursor never goes back, whichever tab writes it and in whatever
\* order the transactions run.
THEOREM CursorOnlyForward ==
  ASSUME MaxEpoch \in Nat
  PROVE  Spec => CursorNeverBack
<1>1. IInv /\ [Next]_outboxVars => [cursor' >= cursor]_outboxVars
  <2> SUFFICES ASSUME IInv, Next PROVE cursor' >= cursor
    OBVIOUS
  <2>1. cursor \in Nat
    BY DEF IInv
  <2>2. ASSUME CommitCursor PROVE cursor' >= cursor
    <3> DEFINE tx == Head(cursorTxs)
    <3>1. tx \in CursorTxs
      BY <2>2 DEF CommitCursor, IInv
    <3>2. tx.by \in Handles /\ tx.epoch \in FrameEpochs
      BY <3>1 DEF CursorTxs
    <3>3. cursor' = NextCursor(tx.by, tx.epoch) \/ cursor' = cursor
      BY <2>2 DEF CommitCursor
    <3> HIDE DEF tx
    <3>4. NextCursor(tx.by, tx.epoch) \in 0..MaxEpoch /\ cursor <= NextCursor(tx.by, tx.epoch)
      BY <3>2, NextCursorRises
    <3> QED  BY <2>1, <3>3, <3>4
  <2>3. CommitCursor \/ cursor' = cursor
    BY DEF Next, Open, Handle, Die, Put, AckThrough, CommitFrames
  <2> QED  BY <2>1, <2>2, <2>3
<1> QED  BY <1>1, Inductive, PTL DEF Spec, CursorNeverBack
==============================================================================
