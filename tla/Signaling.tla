------------------------------ MODULE Signaling ------------------------------
(* The signaling plane of src/src/signaling.js: clients on sockets, each     *)
(* direction a FIFO queue with close semantics, and the room that registers  *)
(* peers, tells the others who came and went, and forwards directed frames.  *)
(* The loop that feeds the room from its sockets is the host's: it passes on *)
(* each frame, and a disconnect once a closed socket is drained.             *)
EXTENDS Integers, Sequences, FiniteSets, SequencesExt, Folds

CONSTANTS Conns,        \* connection ids
          Peers,        \* peer ids
          Allowlist,    \* TRUE: default-deny permissions, FALSE: open mode
          MaxFrames     \* bound on frames the clients send

VARIABLES byConn,     \* connection -> the peer registered on it
          grants,     \* peer -> [join, targets], for the peers with grants
          toServer, toClient,   \* connection -> frames on the way
          socket,     \* connection -> "new", "open" or "closed"
          sentFrames, \* frames sent by the clients so far
          known       \* connection -> peers its client has been told of

signalVars == <<byConn, grants, toServer, toClient, socket, sentFrames, known>>

roster == {byConn[c] : c \in DOMAIN byConn}
connOf(p) == CHOOSE c \in DOMAIN byConn : byConn[c] = p

IsAllowed(p, kind, to) ==
  \/ ~Allowlist
  \/ p \in DOMAIN grants /\ (IF kind = "join" THEN grants[p].join ELSE to \in grants[p].targets)

Init ==
  /\ byConn = <<>>
  /\ grants = <<>>
  /\ toServer = [c \in Conns |-> <<>>]
  /\ toClient = [c \in Conns |-> <<>>]
  /\ socket = [c \in Conns |-> "new"]
  /\ sentFrames = 0
  /\ known = [c \in Conns |-> {}]

With(f, k, v) == [x \in DOMAIN f \cup {k} |-> IF x = k THEN v ELSE f[x]]

----------------------------------------------------------------------------
(* SignalingRoom.receive: the new registry and what to send to whom.         *)

Tell(cs, frame) == [c \in cs |-> <<frame>>]
ToAll(cs, Frame(_)) == [c \in cs |-> <<Frame(c)>>]
Error(c, code) == Tell({c}, [type |-> "error", code |-> code])

Join(c, p) ==
  IF c \in DOMAIN byConn THEN <<byConn, Error(c, "already_joined")>>
  ELSE IF ~IsAllowed(p, "join", p) THEN <<byConn, Error(c, "permission_denied")>>
  ELSE IF p \in roster THEN <<byConn, Error(c, "duplicate_peer")>>
  ELSE <<With(byConn, c, p),
         Tell(DOMAIN byConn, [type |-> "peer-joined", peer |-> p])
           @@ Tell({c}, [type |-> "welcome", peers |-> roster])>>

\* Mutant: a leaving connection stays in the registry until its socket goes.
LeaveOnlyTells(c) ==
  IF c \notin DOMAIN byConn THEN <<byConn, <<>> >>
  ELSE <<byConn, Tell(DOMAIN byConn \ {c}, [type |-> "peer-left", peer |-> byConn[c]])>>

Leave(c) ==
  IF c \notin DOMAIN byConn THEN <<byConn, <<>> >>
  ELSE <<Restrict(byConn, DOMAIN byConn \ {c}),
         Tell(DOMAIN byConn \ {c}, [type |-> "peer-left", peer |-> byConn[c]])>>

\* Mutant: frames are forwarded also for a connection that is not registered, under
\* the name of any peer.
ForwardUnchecked(c, kind, to) ==
  IF to \notin roster THEN <<byConn, Error(c, "unknown_target")>>
  ELSE <<byConn, Tell({connOf(to)}, [type |-> kind, from |-> CHOOSE p \in Peers : p # to])>>

\* offer, answer, ice, relay: stamped with the peer registered on the sender.
Forward(c, kind, to) ==
  IF c \notin DOMAIN byConn THEN <<byConn, Error(c, "not_joined")>>
  ELSE IF ~IsAllowed(byConn[c], kind, to) THEN <<byConn, Error(c, "permission_denied")>>
  ELSE IF to \notin roster THEN <<byConn, Error(c, "unknown_target")>>
  ELSE <<byConn, Tell({connOf(to)}, [type |-> kind, from |-> byConn[c]])>>

Receive(c, frame) ==
  CASE frame.type = "join" -> Join(c, frame.peer)
    [] frame.type = "leave" -> Leave(c)
    [] OTHER -> Forward(c, frame.type, frame.to)

Route(result) ==
  /\ byConn' = result[1]
  /\ toClient' = [c \in Conns |-> IF c \in DOMAIN result[2] THEN toClient[c] \o result[2][c] ELSE toClient[c]]

----------------------------------------------------------------------------
(* The host's loop.                                                          *)

ServerReceive(c) ==
  /\ toServer[c] # <<>>
  /\ Route(Receive(c, Head(toServer[c])))
  /\ toServer' = [toServer EXCEPT ![c] = Tail(@)]
  /\ UNCHANGED <<grants, socket, sentFrames, known>>

ServerDisconnect(c) ==
  /\ socket[c] = "closed" /\ toServer[c] = <<>> /\ c \in DOMAIN byConn
  /\ Route(Leave(c))
  /\ UNCHANGED <<grants, toServer, socket, sentFrames, known>>

----------------------------------------------------------------------------
(* SignalingClient.                                                          *)

Send(c, frame) ==
  /\ sentFrames < MaxFrames
  /\ sentFrames' = sentFrames + 1
  /\ toServer' = [toServer EXCEPT ![c] = Append(@, frame)]

Connect(c, p) ==
  /\ socket[c] = "new"
  /\ socket' = [socket EXCEPT ![c] = "open"]
  /\ Send(c, [type |-> "join", peer |-> p])
  /\ UNCHANGED <<byConn, grants, toClient, known>>

Signal(c, kind, to) ==
  /\ socket[c] = "open"
  /\ Send(c, [type |-> kind, to |-> to])
  /\ UNCHANGED <<byConn, grants, toClient, socket, known>>

\* leave() closes the socket behind the frame; close() only closes it.
ClientLeave(c) ==
  /\ socket[c] = "open"
  /\ socket' = [socket EXCEPT ![c] = "closed"]
  /\ Send(c, [type |-> "leave"])
  /\ UNCHANGED <<byConn, grants, toClient, known>>

ClientClose(c) ==
  /\ socket[c] = "open"
  /\ socket' = [socket EXCEPT ![c] = "closed"]
  /\ UNCHANGED <<byConn, grants, toServer, toClient, sentFrames, known>>

\* What the client's application makes of a frame.
Learn(peers, frame) ==
  CASE frame.type = "welcome" -> frame.peers
    [] frame.type = "peer-joined" -> peers \cup {frame.peer}
    [] frame.type = "peer-left" -> peers \ {frame.peer}
    [] OTHER -> peers

\* A closed socket's queue is still drained, then recv answers null.
ClientReceive(c) ==
  /\ toClient[c] # <<>>
  /\ known' = [known EXCEPT ![c] = Learn(@, Head(toClient[c]))]
  /\ toClient' = [toClient EXCEPT ![c] = Tail(@)]
  /\ UNCHANGED <<byConn, grants, toServer, socket, sentFrames>>

----------------------------------------------------------------------------
(* SignalingPermissions.                                                     *)
AllowMany(p, targets) ==
  /\ Allowlist
  /\ grants' = With(grants, p, [join |-> TRUE, targets |-> targets])
  /\ UNCHANGED <<byConn, toServer, toClient, socket, sentFrames, known>>

RevokePeer(p) ==
  /\ p \in DOMAIN grants
  /\ grants' = Restrict(grants, DOMAIN grants \ {p})
  /\ UNCHANGED <<byConn, toServer, toClient, socket, sentFrames, known>>

Next ==
  \/ \E c \in Conns :
       \/ ServerReceive(c) \/ ServerDisconnect(c) \/ ClientReceive(c)
       \/ ClientLeave(c) \/ ClientClose(c)
       \/ \E p \in Peers : Connect(c, p) \/ Signal(c, "offer", p)
  \/ \E p \in Peers : RevokePeer(p) \/ AllowMany(p, Peers \ {p})

Spec == Init /\ [][Next]_signalVars

----------------------------------------------------------------------------
TypeOK ==
  /\ DOMAIN byConn \subseteq Conns /\ roster \subseteq Peers
  /\ \A c, d \in DOMAIN byConn : c # d => byConn[c] # byConn[d]
  /\ sentFrames \in 0..MaxFrames

(* Once a joined client has read what is on its way to it, the peers it      *)
(* knows are exactly the others in the room: no arrival or departure is      *)
(* lost, doubled or reordered around its own welcome.                        *)
RosterAgrees ==
  \A c \in DOMAIN byConn : FoldLeft(Learn, known[c], toClient[c]) = roster \ {byConn[c]}

(* A directed frame reaches a client while its sender, if another, is among the *)
(* peers the client knows: after the news of its arrival, before that of its leaving. *)
SignalsInSession ==
  \A c \in DOMAIN byConn : \A i \in DOMAIN toClient[c] :
    toClient[c][i].type \in {"offer", "answer", "ice", "relay"} /\ toClient[c][i].from # byConn[c]
      => toClient[c][i].from \in FoldLeft(Learn, known[c], SubSeq(toClient[c], 1, i - 1))
=============================================================================
