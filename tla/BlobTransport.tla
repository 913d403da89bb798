---------------------------- MODULE BlobTransport ----------------------------
(***************************************************************************)
(* The zero-copy blob transport of src/src/transport.js over its two kinds *)
(* of store: the in-process arena, with reference counts, and the POSIX    *)
(* shared-memory region of src/src/shm-backend.js, which a producer        *)
(* process writes while a consumer process reads.  A payload at or over    *)
(* the threshold is spilled and only its descriptor travels.               *)
(*                                                                         *)
(* The arena runs on one thread: each call is a step.  The region is       *)
(* shared memory, so its writer's stores are steps of their own: the       *)
(* mapping before its header, an entry's header, its payload, the commit   *)
(* of the cursor, and each entry that advanceEpoch restamps.  The producer *)
(* may die between any two of them.  An unlinked region lives on for       *)
(* whoever maps it, and the next one of that name is another region.       *)
(* Addresses are in words: a region header and an entry header take two, a *)
(* payload one per element, and an entry starts at an even address.        *)
(* A checksum is taken to tell any two payloads apart.                     *)
(***************************************************************************)
EXTENDS Integers, Sequences, FiniteSets, SequencesExt

CONSTANTS Payloads,      \* sequences of nonzero words
          Threshold,     \* a payload this long is spilled
          Capacity,      \* words of a region
          Regions,       \* how many regions the name is given in turn
          FreshEpochs,   \* whether each region starts at an epoch no other had
          MaxBlobs, MaxEpoch

VARIABLES memory,   \* [1..Regions -> what that region holds]
          named,    \* the region the name leads to, 0 for none
          writing,  \* the region the producer maps, 0 for none
          owner,    \* whether the producer created it
          job,      \* the call the producer is inside of
          reading,  \* the region the consumer maps, 0 for none
          arena,    \* [epoch, generation, entries]
          held,     \* ghost: the references callers own to each arena entry
          issued,   \* ghost: the values sent, each with the payload it stands for
          views     \* ghost: the region bytes the consumer aliases

transportVars ==
    <<memory, named, writing, owner, job, reading, arena, held, issued, views>>

RegionHeader == 2
EntryHeader  == 2
Align(n)     == n + (n % 2)

Null   == <<>>
Freed  == [freed |-> TRUE]
Idle   == [at |-> "idle"]
Blank  == [ready |-> FALSE, epoch |-> 0, generation |-> 0, cursor |-> 0,
           headers |-> <<>>, bytes |-> [a \in 0..(Capacity - 1) |-> 0]]
Live(i) == arena.entries[i] # Freed

\* The first epoch of region r: 0 unless the caller gives it one of its own.
FirstEpoch(r) == IF FreshEpochs THEN (r - 1) * (MaxEpoch + 1) ELSE 0
------------------------------------------------------------------------------
(* Resolving a descriptor: every field of the entry's header must agree.   *)

Ref(kind, offset, entry) ==
    [backend |-> kind, offset |-> offset, len |-> Len(entry.checksum),
     generation |-> entry.generation, epoch |-> entry.epoch,
     checksum |-> entry.checksum]

\* Mutant: the epoch of the descriptor is not compared.
AgreesButEpoch(entry, ref) ==
    /\ entry.generation = ref.generation
    /\ Len(entry.checksum) = ref.len
    /\ entry.checksum = ref.checksum

Agrees(entry, ref) ==
    /\ entry.generation = ref.generation
    /\ entry.epoch = ref.epoch
    /\ Len(entry.checksum) = ref.len
    /\ entry.checksum = ref.checksum

ArenaView(ref) ==
    IF /\ ref.offset \in 1..Len(arena.entries)
       /\ Live(ref.offset)
       /\ Agrees(arena.entries[ref.offset], ref)
    THEN arena.entries[ref.offset].checksum ELSE Null

RegionView(r, ref) ==
    LET start == ref.offset - EntryHeader
        m     == memory[r]
    IN  IF /\ start >= RegionHeader
           /\ ref.offset + ref.len <= Capacity
           /\ start \in DOMAIN m.headers
           /\ Agrees(m.headers[start], ref)
        THEN [i \in 1..ref.len |-> m.bytes[ref.offset + i - 1]]
        ELSE Null

\* The consumer's router: the backend of the descriptor's own kind, if it has one.
ReadView(ref) ==
    IF ref.backend = "in_process" THEN ArenaView(ref)
    ELSE IF reading = 0 THEN Null ELSE RegionView(reading, ref)

Resolve(value) == IF value.inline THEN value.data ELSE ReadView(value.ref)
Inline(data) == [inline |-> TRUE, data |-> data]
Shared(ref)  == [inline |-> FALSE, ref |-> ref]
Spills(data) == Len(data) >= Threshold
------------------------------------------------------------------------------
Init ==
    /\ memory = [r \in 1..Regions |-> Blank]
    /\ named = 0 /\ writing = 0 /\ reading = 0 /\ owner = FALSE
    /\ job = Idle
    /\ arena = [epoch |-> 0, generation |-> 0, entries |-> <<>>]
    /\ held = <<>> /\ issued = {} /\ views = {}

Sent(value, data) == issued' = issued \cup {[value |-> value, data |-> data]}

(* The in-process arena. *)

\* spillValue over the arena: a small payload stays inline.
SpillToArena(data) ==
    /\ Len(arena.entries) < MaxBlobs
    /\ IF Spills(data)
       THEN LET entry == [generation |-> arena.generation + 1, epoch |-> arena.epoch,
                          checksum |-> data, refCount |-> 1]
            IN  /\ arena' = [arena EXCEPT !.generation = @ + 1, !.entries = Append(@, entry)]
                /\ held' = Append(held, 1)
                /\ Sent(Shared(Ref("in_process", Len(arena.entries) + 1, entry)), data)
       ELSE Sent(Inline(data), data) /\ UNCHANGED <<arena, held>>
    /\ UNCHANGED <<memory, named, writing, owner, job, reading, views>>

ArenaRefs == {v.value.ref : v \in {w \in issued :
                 ~w.value.inline /\ (~w.value.inline => w.value.ref.backend = "in_process")}}

Retain(ref) ==
    /\ ArenaView(ref) # Null
    /\ held[ref.offset] \in 1..2
    /\ arena' = [arena EXCEPT !.entries[ref.offset].refCount = @ + 1]
    /\ held' = [held EXCEPT ![ref.offset] = @ + 1]
    /\ UNCHANGED <<memory, named, writing, owner, job, reading, issued, views>>

\* Mutant: the slot is reclaimed whatever references remain.
FreedAtOnce(entry) == Freed

Dropped(entry) ==
    IF entry.refCount - 1 <= 0 THEN Freed ELSE [entry EXCEPT !.refCount = @ - 1]

\* An owner gives its reference back; a stale descriptor gives back nothing.
Free(ref) ==
    /\ ArenaView(ref) # Null
    /\ held[ref.offset] > 0
    /\ arena' = [arena EXCEPT !.entries[ref.offset] = Dropped(@)]
    /\ held' = [held EXCEPT ![ref.offset] = @ - 1]
    /\ UNCHANGED <<memory, named, writing, owner, job, reading, issued, views>>

AdvanceArena ==
    /\ arena.epoch < MaxEpoch
    /\ arena' = [arena EXCEPT !.epoch = @ + 1,
                   !.entries = [i \in DOMAIN @ |->
                       IF Live(i) THEN [@[i] EXCEPT !.epoch = arena.epoch + 1] ELSE Freed]]
    /\ UNCHANGED <<memory, named, writing, owner, job, reading, held, issued, views>>
------------------------------------------------------------------------------
(* The region, seen by the producer. *)

\* shm_open with O_EXCL: refused while the name is taken.
Create ==
    /\ job = Idle /\ writing = 0 /\ named = 0
    /\ \E r \in 1..Regions :
         /\ r = Cardinality({s \in 1..Regions : memory[s] # Blank}) + 1
         /\ named' = r /\ writing' = r
    /\ owner' = TRUE
    /\ job' = [at |-> "create"]
    /\ UNCHANGED <<memory, reading, arena, held, issued, views>>

\* initCreate, after the mapping: until then an attacher reads no magic.
InitCreate ==
    /\ job.at = "create"
    /\ memory' = [memory EXCEPT ![writing] =
                    [Blank EXCEPT !.ready = TRUE, !.cursor = RegionHeader,
                                  !.epoch = FirstEpoch(writing)]]
    /\ job' = Idle
    /\ UNCHANGED <<named, writing, owner, reading, arena, held, issued, views>>

HeaderWords == <<-1, -1>>    \* what an entry's header leaves of the bytes under it

Overwritten(bytes, start, words) ==
    [a \in DOMAIN bytes |-> IF a \in start..(start + Len(words) - 1)
                           THEN words[a - start + 1] ELSE bytes[a]]

\* write, up to the entry's header: refused when the region is full.
Spill(data) ==
    LET m     == memory[writing]
        start == Align(m.cursor)
    IN  /\ job = Idle /\ writing # 0 /\ Spills(data)
        /\ start + EntryHeader + Len(data) <= Capacity
        /\ memory' = [memory EXCEPT
                        ![writing].headers =
                            (start :> [generation |-> m.generation + 1,
                                       epoch |-> m.epoch, checksum |-> data]) @@ @,
                        ![writing].bytes = Overwritten(@, start, HeaderWords)]
        /\ job' = [at |-> "payload", start |-> start]
        /\ UNCHANGED <<named, writing, owner, reading, arena, held, issued, views>>

Entry == memory[writing].headers[job.start]
PayloadStart == job.start + EntryHeader

CopyPayload ==
    /\ job.at = "payload"
    /\ memory' = [memory EXCEPT ![writing].bytes =
                    Overwritten(@, PayloadStart, Entry.checksum)]
    /\ job' = [job EXCEPT !.at = "commit"]
    /\ UNCHANGED <<named, writing, owner, reading, arena, held, issued, views>>

\* Mutant: the cursor is moved past the header and not past the payload.
EndOfHeader == PayloadStart

EntryEnd == PayloadStart + Len(Entry.checksum)

\* The cursor and the generation, and the descriptor goes to the caller.
Commit ==
    /\ job.at = "commit"
    /\ memory' = [memory EXCEPT ![writing].generation = Entry.generation,
                                ![writing].cursor = EntryEnd]
    /\ Sent(Shared(Ref("shm", PayloadStart, Entry)), Entry.checksum)
    /\ job' = Idle
    /\ UNCHANGED <<named, writing, owner, reading, arena, held, views>>

\* advanceEpoch reads the epoch and the cursor, then walks the entries.
AdvanceRegion ==
    /\ job = Idle /\ writing # 0
    /\ memory[writing].epoch < FirstEpoch(writing) + MaxEpoch
    /\ job' = [at |-> "restamp", pos |-> RegionHeader]
    /\ UNCHANGED <<memory, named, writing, owner, reading, arena, held, issued, views>>

Restamp ==
    LET m     == memory[writing]
        start == Align(job.pos)
    IN  /\ job.at = "restamp"
        /\ IF job.pos < m.cursor /\ start + EntryHeader <= m.cursor
           THEN /\ memory' = [memory EXCEPT ![writing].headers[start].epoch = m.epoch + 1]
                /\ job' = [job EXCEPT !.pos =
                             start + EntryHeader + Len(m.headers[start].checksum)]
           ELSE /\ memory' = [memory EXCEPT ![writing].epoch = @ + 1]
                /\ job' = Idle
        /\ UNCHANGED <<named, writing, owner, reading, arena, held, issued, views>>

\* close unmaps the region; the process that created it unlinks the name too,
\* whichever region has that name by then.
Close ==
    /\ job = Idle /\ writing # 0
    /\ named' = IF owner THEN 0 ELSE named
    /\ writing' = 0 /\ owner' = FALSE
    /\ UNCHANGED <<memory, job, reading, arena, held, issued, views>>

\* The producer dies, inside a call or not: the name stays behind.
Die ==
    /\ writing # 0 /\ writing' = 0 /\ owner' = FALSE /\ job' = Idle
    /\ UNCHANGED <<memory, named, reading, arena, held, issued, views>>

\* A producer started again finds the name and goes on in the region it left.
Resume ==
    /\ writing = 0 /\ named # 0 /\ memory[named].ready
    /\ writing' = named
    /\ UNCHANGED <<memory, named, owner, job, reading, arena, held, issued, views>>

\* An operator removes a name left by a producer that died.
Unlink ==
    /\ writing = 0 /\ named # 0 /\ named' = 0
    /\ UNCHANGED <<memory, writing, owner, job, reading, arena, held, issued, views>>
------------------------------------------------------------------------------
(* The region, seen by the consumer. *)

\* create: false, with validateAttach: a region without its magic is refused.
Attach ==
    /\ named # 0 /\ named # reading /\ memory[named].ready
    /\ reading' = named /\ views' = {}
    /\ UNCHANGED <<memory, named, writing, owner, job, arena, held, issued>>

\* The consumer resolves a descriptor and keeps the view it is given.
View(v) ==
    /\ reading # 0 /\ ~v.value.inline
    /\ v.value.ref.backend = "shm"
    /\ RegionView(reading, v.value.ref) # Null
    /\ views' = views \cup {[offset |-> v.value.ref.offset, data |-> v.data]}
    /\ views' # views
    /\ UNCHANGED <<memory, named, writing, owner, job, reading, arena, held, issued>>

ArenaNext ==
    \/ \E d \in Payloads : SpillToArena(d)
    \/ \E ref \in ArenaRefs : Retain(ref) \/ Free(ref)
    \/ AdvanceArena

RegionNext ==
    \/ \E d \in Payloads : Spill(d)
    \/ \E v \in issued : View(v)
    \/ Create \/ InitCreate \/ CopyPayload \/ Commit \/ AdvanceRegion \/ Restamp
    \/ Close \/ Die \/ Resume \/ Unlink \/ Attach

Next == ArenaNext \/ RegionNext

Spec == Init /\ [][Next]_transportVars
------------------------------------------------------------------------------
TypeOK ==
    /\ named \in 0..Regions /\ writing \in 0..Regions /\ reading \in 0..Regions
    /\ Len(held) = Len(arena.entries)
    /\ \A i \in DOMAIN held : held[i] \in Nat
    /\ \A r \in 1..Regions : memory[r].cursor \in 0..Capacity
    /\ \A v \in views : v.offset + Len(v.data) <= Capacity

\* A value that is sent, inline or as a descriptor, resolves to the payload it
\* stands for or to nothing, at every moment: while an entry is half written,
\* half restamped, or the region is another one of the same name.
ResolvesToItsPayload ==
    \A v \in issued : Resolve(v.value) \in {v.data, Null}

\* "Entries are append-only and never mutated in place": what the consumer
\* aliases keeps reading as the payload it resolved, whatever is written, or
\* cut short and written again by the producer that resumes, after it.
ViewsAreStable ==
    \A v \in views :
      v.data = [i \in 1..Len(v.data) |-> memory[reading].bytes[v.offset + i - 1]]

\* The bytes of an arena entry some caller still owns a reference to are kept.
OwnedIsKept ==
    \A i \in DOMAIN held : held[i] > 0 => Live(i)

\* A descriptor that a consumer finds stale is stale for good: neither a write
\* nor an epoch advance, whole or cut short, makes it resolve again.
StaleForGood ==
    [][\A v \in issued :
         (~v.value.inline /\ reading' = reading /\ Resolve(v.value) = Null)
             => Resolve(v.value)' = Null]_transportVars
==============================================================================
