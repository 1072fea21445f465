------------------------------- MODULE Lobby -------------------------------
(***************************************************************************)
(* The lobby server of games hosted in browsers: rooms, the connection     *)
(* that hosts each, those that joined it, and the links along which        *)
(* signalling and relayed packets go.  A room outlives its host's          *)
(* connection for a while, paused, and a new connection that has the       *)
(* room's token takes it over.                                             *)
(*                                                                         *)
(* The server runs one handler at a time, so a handler is an operator from *)
(* a state of the server to the next one, with what it sends appended to   *)
(* `down`.  Handlers call each other as those of the code do.              *)
(*                                                                         *)
(* A connection that broke is not noticed at once: what is sent to it is   *)
(* lost, and the server still counts it until a close event or the missed  *)
(* pongs of the heartbeat (cleanupConnection).  Left out are the settings  *)
(* of a room and the public list, malformed messages, the limit of 60      *)
(* messages in ten seconds, which no page reaches, and the NxAC stream.    *)
(***************************************************************************)
EXTENDS Naturals, Sequences, FiniteSets

CONSTANTS MaxConns,      \* bound: connections ever made; the server numbers them from 1
          MaxRooms,      \* bound: room ids; the server has 36^6 of them
          maxConnections, maxRooms,   \* at one time
          Slots          \* maxPlayers without the host and the bots

ASSUME LobbyAssumption == {MaxConns, MaxRooms, maxConnections, maxRooms, Slots} \subseteq Nat

VARIABLES lobby,   \* the server's state, and what is under way from it
          broken   \* connections over which nothing gets through any more

Conns == 1 .. MaxConns
RoomIds == 1 .. MaxRooms
NoConn == 0
NoRoom == 0
Gone == [open |-> FALSE, host |-> NoConn, paused |-> FALSE, timer |-> FALSE,
         joined |-> {}]

InitLobby ==
  [peers |-> {},                              \* registered connections
   counter |-> 0,                             \* peerIdCounter
   rooms |-> [r \in RoomIds |-> Gone],
   created |-> 0,                             \* the last room id
   hosts |-> [c \in Conns |-> NoRoom],        \* conn.roomId
   joinedIn |-> [c \in Conns |-> NoRoom],     \* conn.joinedRoomId
   partners |-> [c \in Conns |-> {}],
   down |-> [c \in Conns |-> <<>>]]           \* under way to each connection

OpenRooms(L) == {r \in RoomIds : L.rooms[r].open}

\* A message about a room or a peer; what a message does not say is 0.
Msg(t, room, peer) == [t |-> t, room |-> room, peer |-> peer]

Send(L, C, m) ==
  LET reached == (C \cap L.peers) \ broken
  IN  [L EXCEPT !.down = [c \in Conns |-> IF c \in reached THEN Append(L.down[c], m)
                                          ELSE L.down[c]]]

Link(L, a, b) ==
  [L EXCEPT !.partners[a] = @ \cup {b}, !.partners[b] = @ \cup {a}]
Unlink(L, a, B) ==
  [L EXCEPT !.partners = [c \in Conns |-> IF c = a THEN @[c] \ B
                                          ELSE IF c \in B THEN @[c] \ {a} ELSE @[c]]]

----------------------------------------------------------------------------
(* Rooms end, wait for their host, and lose a guest.                       *)

\* host is NoConn when the room's host is gone already.
CloseRoom(L, r, host) ==
  LET guests == L.rooms[r].joined
      freed == [L EXCEPT !.rooms[r] = Gone,
                         !.joinedIn = [c \in Conns |-> IF c \in guests THEN NoRoom ELSE @[c]]]
      unlinked == IF host = NoConn THEN freed ELSE Unlink(freed, host, guests)
  IN  Send(unlinked, guests, Msg("roomclosed", r, 0))

RemoveHostedRoom(L, c) ==
  IF L.hosts[c] = NoRoom THEN L
  ELSE CloseRoom([L EXCEPT !.hosts[c] = NoRoom], L.hosts[c], c)

PauseHostedRoom(L, c) ==
  LET r == L.hosts[c]
      guests == L.rooms[r].joined
      paused == [L EXCEPT !.hosts[c] = NoRoom, !.rooms[r].paused = TRUE,
                          !.rooms[r].host = NoConn, !.rooms[r].timer = TRUE]
  IN  IF r = NoRoom THEN L
      ELSE Send(Unlink(paused, c, guests), guests, Msg("hostaway", r, 0))

\* Forgets the room's own set of members.
MutLeaveJoinedRoom(L, c) == [L EXCEPT !.joinedIn[c] = NoRoom]
LeaveJoinedRoom(L, c) ==
  LET r == L.joinedIn[c]
      host == L.rooms[r].host
      left == [L EXCEPT !.joinedIn[c] = NoRoom, !.rooms[r].joined = @ \ {c}]
  IN  IF r = NoRoom THEN L
      ELSE IF host \notin L.peers THEN left
      ELSE Send(Unlink(left, c, {host}), {host}, Msg("peerleft", 0, c))

\* The grace period of a paused room is over.
ReclaimTimer(L, r) == CloseRoom(L, r, NoConn)

\* A close event, or two pings without an answer.
CleanupConnection(L, c) ==
  LET gone == LeaveJoinedRoom(PauseHostedRoom([L EXCEPT !.peers = @ \ {c},
                                                        !.down[c] = <<>>], c), c)
  IN  Unlink(gone, c, gone.partners[c])

----------------------------------------------------------------------------
(* Messages of a connection.                                               *)

\* A connection is made, and says hello.
Accepts(L) == Cardinality(L.peers) < maxConnections
OnConnection(L, c) ==
  Send([L EXCEPT !.counter = c, !.peers = @ \cup {c}], {c}, Msg("welcome", 0, c))

Refuse(L, c, code) == Send(L, {c}, [t |-> "error", code |-> code])

Host(L, c) ==
  LET without == RemoveHostedRoom(L, c)
      r == without.created + 1
      room == [Gone EXCEPT !.open = TRUE, !.host = c]
  IN  IF Cardinality(OpenRooms(L)) >= maxRooms /\ L.hosts[c] = NoRoom
        THEN Refuse(L, c, "toomanyrooms")
      ELSE IF r \notin RoomIds THEN Refuse(without, c, "toomanyrooms")
      ELSE Send([without EXCEPT !.created = r, !.rooms[r] = room, !.hosts[c] = r],
                {c}, Msg("hosted", r, 0))

\* Forgets the connection it is taken from.
MutHandedOver(L, c, r) ==
  [L EXCEPT !.rooms[r].host = c, !.rooms[r].paused = FALSE, !.rooms[r].timer = FALSE,
            !.hosts[c] = r]

\* Another connection takes over room r.  The one that hosted it, if it is still
\* registered, hosts nothing any more.
HandedOver(L, c, r) ==
  LET previous == L.rooms[r].host
      detached == IF previous \in L.peers \ {c} THEN [L EXCEPT !.hosts[previous] = NoRoom]
                  ELSE L
  IN  [detached EXCEPT !.rooms[r].host = c, !.rooms[r].paused = FALSE,
                       !.rooms[r].timer = FALSE, !.hosts[c] = r]

\* Who was in the game: they are told to join anew, whether the host was missed or not.
MutHeldGuests(L, r) == IF L.rooms[r].paused THEN L.rooms[r].joined ELSE {}
HeldGuests(L, r) == L.rooms[r].joined

\* Only pages that have the room's token send this, so no token is refused.
Reclaim(L, c, r) ==
  LET alone == IF L.hosts[c] \in {NoRoom, r} THEN L ELSE RemoveHostedRoom(L, c)
      taken == HandedOver(alone, c, r)
      guests == HeldGuests(L, r)
      told == Send(Send(taken, {c}, Msg("hosted", r, 0)), guests, Msg("hostback", r, 0))
      freed == [told EXCEPT !.rooms[r].joined = @ \ guests,
                            !.joinedIn = [g \in Conns |-> IF g \in guests THEN NoRoom
                                                          ELSE @[g]]]
  IN  IF r \notin OpenRooms(L) THEN Refuse(L, c, "noroom")
      ELSE freed

\* Nothing waits for the answer.
Unhost(L, c) == RemoveHostedRoom(L, c)

Join(L, c, r) ==
  LET room == L.rooms[r]
      alone == LeaveJoinedRoom(L, c)
      in == Link([alone EXCEPT !.rooms[r].joined = @ \cup {c}, !.joinedIn[c] = r], c, room.host)
      joined == Msg("joined", r, room.host)
  IN  IF r \notin OpenRooms(L) THEN Refuse(L, c, "noroom")
      ELSE IF room.host = c THEN Refuse(L, c, "self")
      ELSE IF room.paused THEN Refuse(L, c, "hostaway")
      ELSE IF c \in room.joined THEN Send(L, {c}, joined)
      ELSE IF Cardinality(room.joined) >= Slots THEN Refuse(L, c, "full")
      ELSE Send(Send(in, {c}, joined), {room.host}, Msg("peer", 0, c))

Bye(L, c, to) ==
  IF to \notin L.peers THEN L ELSE Unlink(Send(L, {to}, Msg("peerleft", 0, c)), c, {to})

=============================================================================
