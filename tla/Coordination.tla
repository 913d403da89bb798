---------------------------- MODULE Coordination ----------------------------
(* The coordination primitives of src/src/coordination.js: a lease with a    *)
(* fencing token behind LeaseCell and LockCell, a semaphore, and quorum      *)
(* barriers.  Clients keep the token an acquire gave them, may fall behind   *)
(* (a pause, a late message) and still write with it, or come back after the *)
(* lease expired; the guarded resource asks validate before it takes a write.*)
EXTENDS Integers, FiniteSets, TLAPS, FiniteSetTheorems

CONSTANTS Peers,
          Ttls,        \* lease times asked for
          MaxTime,     \* bound on the logical clock
          MaxFence,    \* bound on the leases handed out
          Capacity,    \* permits of the semaphore
          Ballots      \* quorum barriers of one election, each peer arrives at one

ASSUME CoordinationAssumption == /\ 0 \notin Peers
                                 /\ IsFiniteSet(Peers)
                                 /\ Ttls \subseteq Nat
                                 /\ MaxTime \in Nat /\ MaxFence \in Nat
                                 /\ Capacity \in Nat

VARIABLES now,
          holderPeer, expiry, fence,   \* LeaseCore
          holderCell,  \* what the reactive cell shows
          token,       \* peer -> the fence of its last successful acquire, 0: none
          written,     \* <<fence, peer>> of the writes the resource took
          permits,     \* peer -> permits it took and has not given back
          acquired,    \* SemaphoreCore
          arrived      \* ballot -> the peers that arrived

leaseVars == <<holderPeer, expiry, fence, holderCell, token, written>>
coordinationVars == <<now, leaseVars, permits, acquired, arrived>>

NoPeer == 0

IsExpired == holderPeer # NoPeer /\ now >= expiry
IsHeld == holderPeer # NoPeer /\ ~IsExpired
Holder == IF IsHeld THEN holderPeer ELSE NoPeer
Validate(f) == f = fence

\* Mutant: a half is taken for a majority.
Half(total) == total \div 2

\* The barrier of BarrierCell.quorum.
Required(total) == (total \div 2) + 1
IsOpen(b) == Cardinality(arrived[b]) >= Required(Cardinality(Peers))

Init ==
  /\ now = 0
  /\ holderPeer = NoPeer /\ expiry = 0 /\ fence = 0
  /\ holderCell = NoPeer
  /\ token = [p \in Peers |-> 0]
  /\ written = {}
  /\ permits = [p \in Peers |-> 0]
  /\ acquired = 0
  /\ arrived = [b \in Ballots |-> {}]

----------------------------------------------------------------------------
(* The lease.  Every operation ends by refreshing the cell. *)

Refresh == holderCell' = IF holderPeer' # NoPeer /\ now < expiry' THEN holderPeer' ELSE NoPeer
Elsewhere == UNCHANGED <<now, permits, acquired, arrived>>

\* Mutant: an expired lease is taken over under its old fence.
TakeOver(p, ttl) ==
  /\ \/ holderPeer = NoPeer /\ fence < MaxFence /\ fence' = fence + 1
     \/ (holderPeer = p \/ IsExpired) /\ UNCHANGED fence
  /\ holderPeer' = p
  /\ expiry' = now + ttl
  /\ token' = [token EXCEPT ![p] = fence']
  /\ Refresh
  /\ UNCHANGED written /\ Elsewhere

\* A new holder gets a new fence, the holder keeps its own.
Acquire(p, ttl) ==
  /\ \/ /\ holderPeer = NoPeer \/ IsExpired
        /\ fence < MaxFence
        /\ fence' = fence + 1
     \/ /\ holderPeer = p /\ ~IsExpired
        /\ UNCHANGED fence
  /\ holderPeer' = p
  /\ expiry' = now + ttl
  /\ token' = [token EXCEPT ![p] = fence']
  /\ Refresh
  /\ UNCHANGED written /\ Elsewhere

Refused(p) ==
  /\ IsHeld /\ holderPeer # p
  /\ UNCHANGED <<holderPeer, expiry, fence, token, written>>
  /\ Refresh /\ Elsewhere

Renew(p, ttl) ==
  /\ expiry' = IF IsHeld /\ holderPeer = p THEN now + ttl ELSE expiry
  /\ UNCHANGED <<holderPeer, fence, token, written>>
  /\ Refresh /\ Elsewhere

\* The peer may be one that lost the lease long ago.
Release(p) ==
  /\ holderPeer' = IF holderPeer = p THEN NoPeer ELSE holderPeer
  /\ UNCHANGED <<expiry, fence, token, written>>
  /\ Refresh /\ Elsewhere

Tick ==
  /\ holderPeer' = IF IsExpired THEN NoPeer ELSE holderPeer
  /\ UNCHANGED <<expiry, fence, token, written>>
  /\ Refresh /\ Elsewhere

\* A write with the token the peer has, checked by the resource.
Write(p) ==
  /\ token[p] # 0 /\ Validate(token[p])
  /\ written' = written \cup {<<token[p], p>>}
  /\ UNCHANGED <<holderPeer, expiry, fence, holderCell, token>> /\ Elsewhere

----------------------------------------------------------------------------
TakePermit(p) ==
  /\ acquired < Capacity
  /\ acquired' = acquired + 1
  /\ permits' = [permits EXCEPT ![p] = @ + 1]
  /\ UNCHANGED <<now, leaseVars, arrived>>

GivePermit(p) ==
  /\ permits[p] > 0
  /\ acquired' = IF acquired > 0 THEN acquired - 1 ELSE acquired
  /\ permits' = [permits EXCEPT ![p] = @ - 1]
  /\ UNCHANGED <<now, leaseVars, arrived>>

\* A peer arrives at one ballot, and may arrive again.
Arrive(p, b) ==
  /\ \A other \in Ballots \ {b} : p \notin arrived[other]
  /\ arrived' = [arrived EXCEPT ![b] = @ \cup {p}]
  /\ UNCHANGED <<now, leaseVars, permits, acquired>>

Pass ==
  /\ now < MaxTime
  /\ now' = now + 1
  /\ UNCHANGED <<leaseVars, permits, acquired, arrived>>

LeaseNext ==
  \/ \E p \in Peers : \/ \E ttl \in Ttls : Acquire(p, ttl) \/ Renew(p, ttl)
                      \/ Refused(p) \/ Release(p) \/ Write(p)
  \/ Tick \/ Pass

GateNext ==
  \E p \in Peers : TakePermit(p) \/ GivePermit(p) \/ \E b \in Ballots : Arrive(p, b)

Next == LeaseNext \/ GateNext

Spec == Init /\ [][Next]_coordinationVars

----------------------------------------------------------------------------
TypeOK ==
  /\ now \in Nat /\ expiry \in Nat /\ fence \in Nat /\ acquired \in Nat
  /\ holderPeer \in Peers \cup {NoPeer} /\ holderCell \in Peers \cup {NoPeer}
  /\ token \in [Peers -> Nat]
  /\ permits \in [Peers -> Nat]
  /\ written \subseteq Nat \X Peers
  /\ arrived \in [Ballots -> SUBSET Peers]

(* However late a client comes back with its token, no two clients' tokens   *)
(* are current at once, no two clients wrote under the same one (a write by  *)
(* the newer holder shuts out every older one), and the client the cell      *)
(* shows as the holder has the current token.                                *)
SingleWriter ==
  /\ \A p, q \in Peers : p # q /\ token[p] = token[q] => token[p] = 0
  /\ \A w, x \in written : w[1] = x[1] => w[2] = x[2]
  /\ holderCell # NoPeer => token[holderCell] = fence

(* Of the ballots of one election at most one gets its quorum, in whatever   *)
(* order and however often peers arrive.                                     *)
OneQuorum == \A b, c \in Ballots : IsOpen(b) /\ IsOpen(c) => b = c

(* The resource takes writes of one holder per fencing token, and never an   *)
(* older one after a newer; of the ballots of one election at most one opens. *)
OneAuthority == TypeOK /\ SingleWriter /\ OneQuorum
-----------------------------------------------------------------------------
(* For every number of peers, lease time and ballot.  A token is current for *)
(* one client because a new holder's fence is past every token handed out;   *)
(* that carries over to the writes because each was made under a token of    *)
(* its own.                                                                  *)
TokensApart ==
  /\ \A p \in Peers : token[p] <= fence
  /\ \A p, q \in Peers : p # q /\ token[p] = token[q] => token[p] = 0
HoldersCurrent ==
  /\ holderPeer # NoPeer => token[holderPeer] = fence
  /\ holderCell # NoPeer => token[holderCell] = fence
WritesApart ==
  /\ \A w \in written : /\ 0 < w[1] /\ w[1] <= fence
                       /\ \A p \in Peers : token[p] = w[1] => w[2] = p
  /\ \A w, x \in written : w[1] = x[1] => w[2] = x[2]
ArrivalsApart ==
  \A b, c \in Ballots : \A p \in Peers : p \in arrived[b] /\ p \in arrived[c] => b = c
IInv == TypeOK /\ TokensApart /\ HoldersCurrent /\ WritesApart /\ ArrivalsApart

(* Two majorities of the peers share a peer, and each peer is at one ballot. *)
LEMMA QuorumsMeet == TypeOK /\ ArrivalsApart => OneQuorum
<1> SUFFICES ASSUME TypeOK, ArrivalsApart, NEW b \in Ballots, NEW c \in Ballots,
                    IsOpen(b), IsOpen(c), b # c
             PROVE  FALSE
  BY DEF OneQuorum
<1> DEFINE B == arrived[b]
           C == arrived[c]
           n == Cardinality(Peers)
<1>1. B \in SUBSET Peers /\ C \in SUBSET Peers /\ B \cup C \in SUBSET Peers  BY DEF TypeOK
<1>2. B \cap C = {}  BY <1>1 DEF ArrivalsApart
<1>3. IsFiniteSet(Peers)  BY CoordinationAssumption
<1>4. IsFiniteSet(B) /\ IsFiniteSet(C) /\ Cardinality(B \cup C) <= n
  BY <1>1, <1>3, FS_Subset
<1>5. Cardinality(B \cup C) = Cardinality(B) + Cardinality(C) - Cardinality(B \cap C)
  BY <1>4, FS_Union
<1>6. Cardinality(B \cap C) = 0  BY <1>2, FS_EmptySet
<1>7. n \in Nat /\ Cardinality(B) \in Nat /\ Cardinality(C) \in Nat
  BY <1>3, <1>4, FS_CardinalityType
<1>8. Cardinality(B) >= (n \div 2) + 1 /\ Cardinality(C) >= (n \div 2) + 1
  BY DEF IsOpen, Required
<1> HIDE DEF B, C, n
<1>9. Cardinality(B) + Cardinality(C) <= n
  BY <1>4, <1>5, <1>6, <1>7
<1> QED  BY <1>7, <1>8, <1>9

LEMMA InitIInv == Init => IInv
  BY CoordinationAssumption
  DEF Init, IInv, TypeOK, TokensApart, HoldersCurrent, WritesApart, ArrivalsApart, NoPeer

(* Only a peer that holds no lease is handed a new token, past all others. *)
LEMMA AcquireIInv ==
  ASSUME IInv, NEW p \in Peers, NEW ttl \in Ttls, Acquire(p, ttl)
  PROVE  IInv'
<1> USE CoordinationAssumption DEF NoPeer
<1>1. CASE fence' = fence + 1
  <2>1. token' = [token EXCEPT ![p] = fence + 1]  BY <1>1 DEF Acquire
  <2>2. TypeOK'
    BY <1>1, <2>1 DEF Acquire, Refresh, Elsewhere, IInv, TypeOK
  <2>3. TokensApart'
    BY <1>1, <2>1 DEF IInv, TypeOK, TokensApart
  <2>4. HoldersCurrent'
    BY <1>1, <2>1 DEF Acquire, Refresh, IInv, TypeOK, HoldersCurrent
  <2>5. WritesApart'
    BY <1>1, <2>1 DEF Acquire, IInv, TypeOK, WritesApart
  <2>6. ArrivalsApart'
    BY DEF Acquire, Elsewhere, IInv, ArrivalsApart
  <2> QED  BY <2>2, <2>3, <2>4, <2>5, <2>6 DEF IInv
<1>2. CASE holderPeer = p /\ UNCHANGED fence
  <2>1. token' = token  BY <1>2 DEF Acquire, IInv, TypeOK, HoldersCurrent
  <2>2. TypeOK'
    BY <1>2, <2>1 DEF Acquire, Refresh, Elsewhere, IInv, TypeOK
  <2>3. HoldersCurrent'
    BY <1>2, <2>1 DEF Acquire, Refresh, IInv, TypeOK, HoldersCurrent
  <2> QED
    BY <1>2, <2>1, <2>2, <2>3
    DEF Acquire, Elsewhere, IInv, TokensApart, WritesApart, ArrivalsApart
<1> QED  BY <1>1, <1>2 DEF Acquire

(* What else touches the lease gives up the holder or leaves it: no token    *)
(* and no fence changes.                                                     *)
LEMMA LeaseIInv ==
  ASSUME IInv, UNCHANGED <<token, fence, written>>, Refresh, Elsewhere,
         holderPeer' \in {holderPeer, NoPeer}, expiry' \in Nat
  PROVE  IInv'
<1> USE CoordinationAssumption DEF NoPeer
<1>1. TypeOK'  BY DEF Refresh, Elsewhere, IInv, TypeOK
<1>2. HoldersCurrent'  BY DEF Refresh, IInv, HoldersCurrent
<1> QED
  BY <1>1, <1>2 DEF Elsewhere, IInv, TokensApart, WritesApart, ArrivalsApart

(* The resource takes a write under the current fence, whose only bearer is  *)
(* the writer.                                                               *)
LEMMA WriteIInv ==
  ASSUME IInv, NEW p \in Peers, Write(p)
  PROVE  IInv'
<1>1. token[p] = fence /\ fence \in Nat /\ fence # 0 /\ written' = written \cup {<<fence, p>>}
  BY DEF Write, Validate, IInv, TypeOK
<1>2. TypeOK' /\ TokensApart' /\ HoldersCurrent' /\ ArrivalsApart'
  BY <1>1 DEF Write, Elsewhere, IInv, TypeOK, TokensApart, HoldersCurrent, ArrivalsApart
<1>3. UNCHANGED <<token, fence>>  BY DEF Write
<1>4. \A q \in Peers : token[q] = fence => q = p
  BY <1>1 DEF IInv, TokensApart
<1>5. WritesApart'
  <2>1. \A w \in written : w[1] = fence => w[2] = p
    BY <1>1 DEF IInv, WritesApart
  <2> QED  BY <1>1, <1>3, <1>4, <2>1 DEF IInv, WritesApart
<1> QED  BY <1>2, <1>5 DEF IInv

LEMMA GateIInv == IInv /\ GateNext => IInv'
<1> SUFFICES ASSUME IInv, GateNext  PROVE IInv'
  OBVIOUS
<1>1. ASSUME NEW p \in Peers, TakePermit(p) \/ GivePermit(p)  PROVE IInv'
  <2>1. UNCHANGED <<now, leaseVars, arrived>>  BY <1>1 DEF TakePermit, GivePermit
  <2>2. acquired' \in Nat /\ permits' \in [Peers -> Nat]
    BY <1>1 DEF TakePermit, GivePermit, IInv, TypeOK
  <2> QED
    BY <2>1, <2>2
    DEF leaseVars, IInv, TypeOK, TokensApart, HoldersCurrent, WritesApart, ArrivalsApart
<1>2. ASSUME NEW p \in Peers, NEW b \in Ballots, Arrive(p, b)  PROVE IInv'
  <2>1. TypeOK' /\ TokensApart' /\ HoldersCurrent' /\ WritesApart'
    BY <1>2 DEF Arrive, leaseVars, IInv, TypeOK, TokensApart, HoldersCurrent, WritesApart
  <2>2. ArrivalsApart'  BY <1>2 DEF Arrive, IInv, TypeOK, ArrivalsApart
  <2> QED  BY <2>1, <2>2 DEF IInv
<1> QED  BY <1>1, <1>2 DEF GateNext

(* However late a client comes back and however many peers, ballots and      *)
(* leases there are: one bearer of the current token, one writer per fence,  *)
(* and one ballot with a quorum.                                             *)
THEOREM OneAuthorityAlways == Spec => []OneAuthority
<1>1. IInv /\ [Next]_coordinationVars => IInv'
  <2> SUFFICES ASSUME IInv, [Next]_coordinationVars  PROVE IInv'
    OBVIOUS
  <2> USE CoordinationAssumption DEF NoPeer
  <2>1. ASSUME NEW p \in Peers, NEW ttl \in Ttls, Acquire(p, ttl)  PROVE IInv'
    BY <2>1, AcquireIInv
  <2>2. ASSUME NEW p \in Peers, NEW ttl \in Ttls, Renew(p, ttl)  PROVE IInv'
    BY <2>2, LeaseIInv DEF Renew, IInv, TypeOK
  <2>3. ASSUME NEW p \in Peers, Refused(p) \/ Release(p)  PROVE IInv'
    BY <2>3, LeaseIInv DEF Refused, Release, IInv, TypeOK
  <2>4. ASSUME NEW p \in Peers, Write(p)  PROVE IInv'
    BY <2>4, WriteIInv
  <2>5. CASE Tick
    BY <2>5, LeaseIInv DEF Tick, IInv, TypeOK
  <2>6. CASE Pass
    BY <2>6 DEF Pass, leaseVars, IInv, TypeOK, TokensApart, HoldersCurrent, WritesApart, ArrivalsApart
  <2>7. CASE GateNext
    BY <2>7, GateIInv
  <2>8. CASE UNCHANGED coordinationVars
    BY <2>8
    DEF coordinationVars, leaseVars, IInv, TypeOK, TokensApart, HoldersCurrent, WritesApart, ArrivalsApart
  <2> QED
    BY <2>1, <2>2, <2>3, <2>4, <2>5, <2>6, <2>7, <2>8 DEF Next, LeaseNext
<1>2. IInv => OneAuthority
  BY QuorumsMeet
  DEF IInv, OneAuthority, SingleWriter, TokensApart, HoldersCurrent, WritesApart
<1> QED  BY <1>1, <1>2, InitIInv, PTL DEF Spec
=============================================================================
