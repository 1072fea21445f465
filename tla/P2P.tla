-------------------------------- MODULE P2P --------------------------------
(***************************************************************************)
(* Browser pages and the lobby.  A page is a transport of etl-p2p.js with  *)
(* the parts of shell.html that drive it: it hosts or joins one game, and  *)
(* leaves it by loading itself anew.  A page that hosts remembers its room *)
(* across a reload, and asks for it again.                                 *)
(*                                                                         *)
(* What a page sends is handled at once, or lost when the connection is    *)
(* broken: until the answer, which may take any time, the page only acts   *)
(* on messages the lobby sent before.  A connection may break at any time, *)
(* and each end notices for itself.                                        *)
(*                                                                         *)
(* Packets of the game, relayed by the lobby or sent over WebRTC, are left *)
(* out; whether they can be relayed is what partners and peers say.        *)
(***************************************************************************)
EXTENDS Lobby, FiniteSetsExt

CONSTANTS Hosts, Guests,  \* pages that host, pages that join
          MaxIncidents    \* bound: broken connections, reloads and games left

ASSUME P2PAssumption == Hosts \cap Guests = {} /\ MaxIncidents \in Nat

VARIABLES page,       \* every page's transport
          incidents   \* how many there were

vars == <<lobby, broken, page, incidents>>

Pages == Hosts \cup Guests
NoPeers == [c \in Conns |-> 0]

FreshPage(saved) ==
  [ws |-> NoConn, connected |-> FALSE,  \* the connection, and whether it is welcome
   role |-> "none", pending |-> "none", \* of the game, and what was asked for
   roomId |-> NoRoom, token |-> FALSE,  \* hostToken, always that of roomId
   reclaiming |-> FALSE,
   hostPeerId |-> NoConn,
   peers |-> NoPeers,                   \* peer index of every connection it knows, or 0
   over |-> FALSE,                      \* waits for its reload
   saved |-> saved]                     \* the room in its session storage

Init ==
  /\ lobby = InitLobby /\ broken = {}
  /\ page = [p \in Pages |-> FreshPage(NoRoom)]
  /\ incidents = 0

\* sendControl: the lobby handles it, or nobody does.
Reaches(p) == page[p].ws # NoConn /\ page[p].ws \notin broken
Sent(p, L, handled) == lobby' = IF Reaches(p) THEN handled ELSE L

----------------------------------------------------------------------------
(* The page's table of peers.                                              *)

FreeIndexes(peers) == (1 .. MaxConns) \ {peers[c] : c \in Conns}
AllocIndex(peers, preferred) ==
  IF preferred \in FreeIndexes(peers) THEN preferred ELSE Min(FreeIndexes(peers))
EnsurePeer(peers, c, preferred) ==
  IF peers[c] # 0 THEN peers ELSE [peers EXCEPT ![c] = AllocIndex(peers, preferred)]

----------------------------------------------------------------------------
(* The connection to the lobby.                                            *)

\* The launcher connects; a page in a game whose connection is lost tries until
\* it is let in.
Connect(p) ==
  LET c == lobby.counter + 1
  IN  /\ page[p].ws = NoConn /\ ~page[p].over
      /\ c \in Conns /\ Accepts(lobby)
      /\ lobby' = OnConnection(lobby, c)
      /\ page' = [page EXCEPT ![p].ws = c]
      /\ UNCHANGED <<broken, incidents>>

\* ws.onclose.  The game goes on with the peers it has.
OnLobbyClosed(p) ==
  /\ page[p].ws \in broken
  /\ page' = [page EXCEPT ![p].ws = NoConn, ![p].connected = FALSE]
  /\ UNCHANGED <<lobby, broken, incidents>>

\* Forgets that a host may have no token.
MutReregister(p, L) ==
  LET me == page[p]
  IN  CASE me.role = "host" /\ me.token -> Reclaim(L, me.ws, me.roomId)
        [] me.role = "client" -> Join(L, me.ws, me.roomId)
        [] OTHER -> L

\* What a page that is welcome again sends.
Reregister(p, L) ==
  LET me == page[p]
  IN  CASE me.role = "host" /\ me.token -> Reclaim(L, me.ws, me.roomId)
        [] me.role = "host" /\ ~me.token -> Host(L, me.ws)
        [] me.role = "client" -> Join(L, me.ws, me.roomId)
        [] OTHER -> L

HandleWelcome(p, L) ==
  /\ Sent(p, L, Reregister(p, L))
  /\ page' = [page EXCEPT ![p].connected = TRUE,
                          ![p].reclaiming = page[p].role = "host" /\ page[p].token]

----------------------------------------------------------------------------
(* Hosting.                                                                *)

\* A game is announced, or after a reload announced again.
HostGame(p) ==
  /\ page[p].connected /\ ~page[p].over
  /\ page[p].role = "none" /\ page[p].pending = "none"
  /\ IF page[p].saved = NoRoom
       THEN /\ page' = [page EXCEPT ![p].pending = "host"]
            /\ Sent(p, lobby, Host(lobby, page[p].ws))
       ELSE /\ page' = [page EXCEPT ![p].pending = "reclaim",
                                    ![p].roomId = page[p].saved, ![p].token = TRUE]
            /\ Sent(p, lobby, Reclaim(lobby, page[p].ws, page[p].saved))
  /\ UNCHANGED <<broken, incidents>>

\* Only a page that asked for its room remembers it.
HandleHosted(p, L, r) ==
  /\ page' = [page EXCEPT ![p].role = "host", ![p].roomId = r, ![p].token = TRUE,
                          ![p].reclaiming = FALSE, ![p].pending = "none",
                          ![p].saved = IF page[p].pending = "none" THEN @ ELSE r]
  /\ lobby' = L

HandlePeerArrived(p, L, c) ==
  page' = [page EXCEPT ![p].peers = EnsurePeer(@, c, 0)] /\ lobby' = L
HandlePeerLeft(p, L, c) ==
  page' = [page EXCEPT ![p].peers[c] = 0] /\ lobby' = L

----------------------------------------------------------------------------
(* Joining.                                                                *)

\* Of the list, or of an invitation: the room may be gone.
JoinGame(p, r) ==
  /\ page[p].connected /\ ~page[p].over
  /\ page[p].role = "none" /\ page[p].pending = "none"
  /\ page' = [page EXCEPT ![p].pending = "join"]
  /\ Sent(p, lobby, Join(lobby, page[p].ws, r))
  /\ UNCHANGED <<broken, incidents>>

HandleJoined(p, L, r, host) ==
  /\ page' = [page EXCEPT ![p].role = "client", ![p].pending = "none", ![p].roomId = r,
                          ![p].hostPeerId = host, ![p].peers = EnsurePeer(@, host, 1)]
  /\ lobby' = L

HandleHostAway(p, L) ==
  /\ page' = IF page[p].role # "client" THEN page
             ELSE [page EXCEPT ![p].peers = NoPeers, ![p].hostPeerId = NoConn]
  /\ lobby' = L

HandleHostBack(p, L, r) ==
  IF page[p].role = "client" /\ page[p].roomId = r
    THEN /\ page' = [page EXCEPT ![p].pending = "join"]
         /\ Sent(p, L, Join(L, page[p].ws, r))
    ELSE page' = page /\ lobby' = L

\* The player is shown that the host has left, and the page loads itself anew.
HandleRoomClosed(p, L) ==
  /\ page' = [page EXCEPT ![p].peers = NoPeers, ![p].role = "none", ![p].pending = "none",
                          ![p].roomId = NoRoom, ![p].hostPeerId = NoConn, ![p].over = TRUE]
  /\ lobby' = L

----------------------------------------------------------------------------
(* Refusals.                                                               *)

\* A room that cannot be had again is replaced by a new one.  One that was asked
\* for after a reload is forgotten first; a page that gets no room at all plays
\* on its own, and a refused join is shown to the player.
HandleError(p, L, code) ==
  LET me == [page[p] EXCEPT !.reclaiming = @ /\ code # "noroom"]
      unattended == /\ page[p].reclaiming /\ code = "noroom" /\ me.role = "host"
                    /\ me.pending \notin {"host", "reclaim"}
  IN  CASE unattended ->
             /\ page' = [page EXCEPT ![p] = [me EXCEPT !.token = FALSE]]
             /\ Sent(p, L, Host(L, me.ws))
        [] me.pending = "reclaim" ->
             /\ page' = [page EXCEPT ![p] = [me EXCEPT !.pending = "host", !.roomId = NoRoom,
                                                      !.token = FALSE]]
             /\ Sent(p, L, Host(L, me.ws))
        [] me.pending = "host" ->
             page' = [page EXCEPT ![p] = [me EXCEPT !.pending = "none", !.over = TRUE]]
             /\ lobby' = L
        [] OTHER -> page' = [page EXCEPT ![p] = [me EXCEPT !.pending = "none"]] /\ lobby' = L

----------------------------------------------------------------------------
(* Messages, and the end of games.                                         *)

DispatchControl(p) ==
  LET c == page[p].ws
      m == Head(lobby.down[c])
      L == [lobby EXCEPT !.down[c] = Tail(@)]
  IN  /\ c # NoConn /\ lobby.down[c] # <<>>
      /\ CASE m.t = "welcome"    -> HandleWelcome(p, L)
           [] m.t = "hosted"     -> HandleHosted(p, L, m.room)
           [] m.t = "joined"     -> HandleJoined(p, L, m.room, m.peer)
           [] m.t = "peer"       -> HandlePeerArrived(p, L, m.peer)
           [] m.t = "peerleft"   -> HandlePeerLeft(p, L, m.peer)
           [] m.t = "hostaway"   -> HandleHostAway(p, L)
           [] m.t = "hostback"   -> HandleHostBack(p, L, m.room)
           [] m.t = "roomclosed" -> HandleRoomClosed(p, L)
           [] m.t = "error"      -> HandleError(p, L, m.code)
      /\ UNCHANGED <<broken, incidents>>

\* The page is gone, and its connection closes.
Closed(p, saved) ==
  /\ incidents < MaxIncidents /\ incidents' = incidents + 1
  /\ broken' = broken \cup ({page[p].ws} \ {NoConn})
  /\ page' = [page EXCEPT ![p] = FreshPage(saved)]

LeaveGame(p) ==
  /\ page[p].role # "none"
  /\ Closed(p, NoRoom)
  /\ Sent(p, lobby, IF page[p].role = "host" THEN Unhost(lobby, page[p].ws)
                    ELSE IF page[p].hostPeerId = NoConn THEN lobby
                    ELSE Bye(lobby, page[p].ws, page[p].hostPeerId))

\* F5, a change of the map, or a tab that is closed and maybe opened again.
Reload(p) ==
  /\ page[p].role # "none" \/ page[p].pending # "none" \/ page[p].over
  /\ Closed(p, page[p].saved)
  /\ UNCHANGED lobby

Break(c) ==
  /\ c \in lobby.peers \ broken
  /\ incidents < MaxIncidents /\ incidents' = incidents + 1
  /\ broken' = broken \cup {c}
  /\ UNCHANGED <<lobby, page>>

\* The lobby's timers, and what it notices.
Cleanup(c) ==
  /\ c \in lobby.peers \cap broken
  /\ lobby' = CleanupConnection(lobby, c)
  /\ UNCHANGED <<broken, page, incidents>>
RoomTimer(r) ==
  /\ lobby.rooms[r].timer
  /\ lobby' = ReclaimTimer(lobby, r)
  /\ UNCHANGED <<broken, page, incidents>>

Next ==
  \/ \E p \in Pages : Connect(p) \/ OnLobbyClosed(p) \/ DispatchControl(p)
                      \/ LeaveGame(p) \/ Reload(p)
  \/ \E p \in Hosts : HostGame(p)
  \/ \E p \in Guests, r \in RoomIds : JoinGame(p, r)
  \/ \E c \in Conns : Break(c) \/ Cleanup(c)
  \/ \E r \in RoomIds : RoomTimer(r)

\* Timers fire, messages arrive, and a page in a game tries to get back.  Users
\* and the network owe nothing.
Proceeds(p) ==
  DispatchControl(p) \/ OnLobbyClosed(p) \/ (page[p].role # "none" /\ Connect(p))
Fairness ==
  /\ \A p \in Pages : WF_vars(Proceeds(p))
  /\ WF_vars(\E c \in Conns : Cleanup(c))
  /\ WF_vars(\E r \in RoomIds : RoomTimer(r))

Spec == Init /\ [][Next]_vars /\ Fairness

----------------------------------------------------------------------------
(* Properties.                                                             *)

Quiet(p) == page[p].connected /\ Reaches(p) /\ lobby.down[page[p].ws] = <<>>

\* The lobby's tables agree: a room has one host, who hosts one room, or waits for
\* it with the timer running; members and memberships, links and links back
\* are the same; a connection that is gone is nowhere.
LobbyConsistent ==
  /\ \A r \in RoomIds :
       LET room == lobby.rooms[r] IN
       /\ room.paused <=> room.timer
       /\ room.open => (room.paused <=> room.host = NoConn)
       /\ room.open /\ ~room.paused => lobby.hosts[room.host] = r
       /\ room.joined = {c \in Conns : lobby.joinedIn[c] = r}
       /\ \A c \in room.joined \ broken : ~room.paused => room.host \in lobby.partners[c]
  /\ \A c \in Conns :
       /\ lobby.hosts[c] # NoRoom => lobby.rooms[lobby.hosts[c]].host = c
       /\ \A d \in lobby.partners[c] : c \in lobby.partners[d]
       /\ c \notin lobby.peers => /\ lobby.hosts[c] = NoRoom /\ lobby.joinedIn[c] = NoRoom
                                  /\ lobby.partners[c] = {}

\* Once nothing is under way to a page, what it believes is so: a host hosts its
\* room and knows all who joined and are there, or, when it got no room in place of one
\* it lost, hosts none; a guest knows who hosts its room, or that nobody does at the moment.
PagesKnow ==
  \A p \in Pages : Quiet(p) =>
    LET me == page[p]
        r == lobby.joinedIn[me.ws]
    IN  /\ me.role = "host" =>
             /\ lobby.hosts[me.ws] = IF me.token THEN me.roomId ELSE NoRoom
             /\ me.token => \A c \in lobby.rooms[me.roomId].joined \ broken : me.peers[c] # 0
        /\ me.role = "client" /\ r # NoRoom =>
             /\ r = me.roomId /\ me.hostPeerId = lobby.rooms[r].host
             /\ me.hostPeerId # NoConn => me.peers[me.hostPeerId] # 0

\* While the connection that hosts a room works, nothing pauses or ends the room: not
\* the grace period, and not the late end of the connection it was taken over from.
HostKeepsRoom ==
  [][\A r \in OpenRooms(lobby) :
       lobby.rooms[r].host \notin broken' \cup {NoConn} =>
         lobby'.rooms[r].open /\ ~lobby'.rooms[r].paused]_vars

\* A page that hosts comes to host again after it lost its connection: its own room,
\* or a new one when the lobby has given it up.
HostReturns ==
  \A p \in Hosts : page[p].role = "host" ~>
    \/ page[p].role # "host"
    \/ page[p].roomId # NoRoom /\ lobby.rooms[page[p].roomId].host = page[p].ws
=============================================================================
