----------------------------- MODULE Gamestate -----------------------------
(***************************************************************************)
(* How one connected client gets the gamestate of the map the server runs, *)
(* enters the world and follows the configstrings, while the map is        *)
(* changed (SV_SpawnServer) and restarted (map_restart).                   *)
(*                                                                         *)
(* The connection is up from the start (CS_CONNECTED, CA_CONNECTED), the   *)
(* client is honest, the server pure.  Messages may be lost, the others    *)
(* arrive in order and once (Netchan); reliable commands are executed once *)
(* and in order (Reliable), so a message only carries how many there were. *)
(* A server command is left out unless it changes a configstring, a client *)
(* command unless it is "cp".                                              *)
(*                                                                         *)
(* Message numbers matter only against gamestateMessageNum: a message is   *)
(* placed by the number of the last gamestate sent and by whether it is    *)
(* later than that.  Gamestates are numbered modulo 4: a gamestate is only *)
(* sent again when the last one was acknowledged, so that the numbers that *)
(* are compared are never more than two apart.                             *)
(***************************************************************************)
EXTENDS Integers, Sequences

CONSTANTS MaxSpawns,    \* bound: map changes after the first map
          MaxRestarts,  \* bound: map restarts
          MaxChanges    \* bound: changes the game makes to the configstring

ASSUME GamestateAssumption ==
  /\ MaxSpawns \in Nat
  /\ MaxRestarts \in Nat
  /\ MaxChanges \in Nat

VARIABLES
  sv,        \* server_t: the map that runs
  cl,        \* client_t: what the server keeps for the client
  client,    \* clientActive_t, clientConnection_t and cls.state
  toClient,  \* the newest message under way to the client, or none
  toServer,  \* the newest message under way to the server, or none
  bound      \* what is left of the bounds

vars == <<sv, cl, client, toClient, toServer, bound>>

Nothing == <<>>

\* Two configstrings: CS_SYSTEMINFO, of which only sv_serverid is kept, and
\* one that belongs to the game.  A value names the map that set it.
Value(map, n) == [map |-> map, n |-> n]

\* sv_serverid and sv.serverId are com_frameTime, which only goes up.
Init ==
  /\ sv = [map |-> 1, serverId |-> 1, restartedServerId |-> 1,
           system |-> 1, systemModified |-> FALSE,
           game |-> Value(1, 0), modified |-> {}]
  /\ cl = [state |-> "connected",
           gamestates |-> 0,            \* number of the last gamestate sent
           acked |-> [gamestates |-> 0, later |-> TRUE],
           commands |-> <<>>,           \* server commands added
           lastClientCommand |-> 0,
           gotCP |-> FALSE,             \* with pureAuthentic: the client is honest
           stranded |-> FALSE,          \* history: a restart took it in without gamestate
           wrongMove |-> FALSE]         \* history: executed a usercmd of another map
  /\ client = [state |-> "connected", map |-> 0, serverId |-> 0,
               game |-> Value(0, 0),
               acked |-> [gamestates |-> 0, later |-> TRUE],
               serverCommandSequence |-> 0, lastExecuted |-> 0,
               snap |-> 0,              \* commands known at the newest snapshot
               newSnapshots |-> FALSE,
               cps |-> <<>>,            \* reliable "cp" commands added
               stale |-> FALSE]         \* history: parsed a gamestate with commands to execute
  /\ toClient = Nothing
  /\ toServer = Nothing
  /\ bound = [spawns |-> MaxSpawns, restarts |-> MaxRestarts, changes |-> MaxChanges]

----------------------------------------------------------------------------
(* The server.                                                             *)

\* Mutant: counts the command that will be added next.
MutMessage(c, kind) == [kind |-> kind,
                        at |-> [gamestates |-> c.gamestates, later |-> kind # "gamestate"],
                        commands |-> Len(c.commands) + 1,
                        map |-> sv.map, system |-> sv.system, game |-> sv.game]

\* A message to the client.  A new one overtakes one that is under way: the
\* old one is lost, or comes too late and is discarded.
Message(c, kind) == [kind |-> kind,
                     at |-> [gamestates |-> c.gamestates, later |-> kind # "gamestate"],
                     commands |-> Len(c.commands),
                     map |-> sv.map, system |-> sv.system, game |-> sv.game]

\* SV_SendClientGameState.
Primed(c) == [c EXCEPT !.state = "primed", !.gotCP = FALSE, !.gamestates = (@ + 1) % 4]

SV_SendClientGameState(c) ==
  /\ cl' = Primed(c)
  /\ toClient' = Message(Primed(c), "gamestate")

\* SV_SendClientSnapshot: an idle message for one who is not in the world.
SV_SendClientSnapshot(c) ==
  toClient' = Message(c, IF c.state = "active" THEN "snapshot" ELSE "idle")

\* Mutant: only who is in the world is told.
MutUpdates(s, c) ==
  IF c.state # "active" THEN <<>>
  ELSE (IF "system" \in s.modified THEN <<[cs |-> "system", value |-> s.system]>> ELSE <<>>)
       \o (IF "game" \in s.modified THEN <<[cs |-> "game", value |-> s.game]>> ELSE <<>>)

\* SV_UpdateConfigStrings, for a client that was sent a gamestate.
Updates(s, c) ==
  IF c.state = "connected" THEN <<>>
  ELSE (IF "system" \in s.modified THEN <<[cs |-> "system", value |-> s.system]>> ELSE <<>>)
       \o (IF "game" \in s.modified THEN <<[cs |-> "game", value |-> s.game]>> ELSE <<>>)

\* SV_SetConfigstring, by the game: in its frame, in a client's command or
\* usercmd, or when it is started again.
SV_SetConfigstring ==
  /\ cl.state # "dropped"
  /\ bound.changes > 0
  /\ bound' = [bound EXCEPT !.changes = @ - 1]
  /\ sv' = [sv EXCEPT !.game = Value(sv.map, bound.changes), !.modified = @ \cup {"game"}]
  /\ UNCHANGED <<cl, client, toClient, toServer>>

\* SV_Frame: the systeminfo is refreshed, the configstrings that changed are
\* sent, and a message too, unless it is not time yet.
SV_Frame(send) ==
  LET s == IF sv.systemModified
           THEN [sv EXCEPT !.system = sv.serverId, !.systemModified = FALSE,
                           !.modified = @ \cup {"system"}]
           ELSE sv
      c == [cl EXCEPT !.commands = @ \o Updates(s, cl)]
  IN  /\ cl.state # "dropped"
      /\ sv' = [s EXCEPT !.modified = {}]
      /\ cl' = c
      /\ IF send THEN SV_SendClientSnapshot(c) ELSE UNCHANGED toClient
      /\ UNCHANGED <<client, toServer, bound>>

Time == sv.serverId + 1

\* SV_SpawnServer: a last message goes out, and the client has to get the
\* gamestate of the new map.  The game sets its configstring anew; it is in
\* the gamestate and nothing is left to be sent.
SV_SpawnServer ==
  /\ cl.state # "dropped"
  /\ bound.spawns > 0
  /\ bound' = [bound EXCEPT !.spawns = @ - 1]
  /\ SV_SendClientSnapshot(cl)
  /\ sv' = [map |-> sv.map + 1, serverId |-> Time, restartedServerId |-> Time,
            system |-> Time, systemModified |-> FALSE,
            game |-> Value(sv.map + 1, 0), modified |-> {}]
  /\ cl' = [cl EXCEPT !.state = "connected"]
  /\ UNCHANGED <<client, toServer>>

\* Mutant: a restart counts as a new map when commands are placed.
MutSV_MapRestart ==
  /\ cl.state # "dropped"
  /\ bound.restarts > 0
  /\ bound' = [bound EXCEPT !.restarts = @ - 1]
  /\ sv' = [sv EXCEPT !.serverId = Time, !.restartedServerId = Time, !.systemModified = TRUE]
  /\ cl' = [cl EXCEPT !.state = "active",
                      !.stranded = @ \/ (cl.state # "active" /\ client.map # sv.map)]
  /\ UNCHANGED <<client, toClient, toServer>>

\* SV_MapRestart_f: every client that is connected enters the world.
SV_MapRestart ==
  /\ cl.state # "dropped"
  /\ bound.restarts > 0
  /\ bound' = [bound EXCEPT !.restarts = @ - 1]
  /\ sv' = [sv EXCEPT !.serverId = Time, !.systemModified = TRUE]
  /\ cl' = [cl EXCEPT !.state = "active",
                      !.stranded = @ \/ (cl.state # "active" /\ client.map # sv.map)]
  /\ UNCHANGED <<client, toClient, toServer>>

\* SV_ClientCommand for the commands of a message.  "cp" is skipped when the
\* message is from another gamestate; otherwise SV_VerifyPaks_f ignores it if
\* it is older than the map, and takes it if the checksum feed is right.
Executed(c, cps, premaprestart) ==
  LET new   == {n \in DOMAIN cps : n > c.lastClientCommand}
      heard == {n \in new : ~premaprestart /\ cps[n].serverId >= sv.restartedServerId}
  IN  [c EXCEPT !.lastClientCommand = Len(cps),
                !.gotCP = @ \/ heard # {},
                !.state = IF \E n \in heard : cps[n].map # sv.map THEN "dropped" ELSE @]

\* SV_UserMove: the first usercmd puts the client into the world.
SV_UserMove(c, map) ==
  IF c.state = "primed" /\ ~c.gotCP
  THEN SV_SendClientGameState(c)
  ELSE /\ cl' = IF ~c.gotCP
                THEN [c EXCEPT !.state = "dropped"]
                ELSE [c EXCEPT !.state = IF @ = "primed" THEN "active" ELSE @,
                               !.wrongMove = @ \/ (c.state # "connected" /\ map # sv.map)]
       /\ UNCHANGED toClient

\* Mutant: only a client that was never sent a gamestate is sent one.
MutLostGamestate(c) == c.state = "connected"

\* A client that is to enter the world acknowledges a message later than its
\* gamestate.
LostGamestate(c) ==
  c.state # "active" /\ c.acked = [gamestates |-> c.gamestates, later |-> TRUE]

\* SV_ExecuteClientMessage.
SV_ExecuteClientMessage ==
  LET m == toServer
      c == [cl EXCEPT !.acked = m.acked]
      outdated == m.serverId >= sv.restartedServerId /\ m.serverId < sv.serverId
      e == Executed(c, m.cps, FALSE)
  IN  /\ toServer # Nothing
      /\ cl.state # "dropped"
      /\ toServer' = Nothing
      /\ IF m.serverId # sv.serverId
         THEN IF outdated
              THEN cl' = c /\ UNCHANGED toClient
              ELSE IF LostGamestate(c)
              THEN /\ toClient' = Message(Primed(c), "gamestate")
                   /\ cl' = Executed(Primed(c), m.cps, TRUE)
              ELSE cl' = Executed(c, m.cps, TRUE) /\ UNCHANGED toClient
         ELSE IF m.move /\ e.state # "dropped"
              THEN SV_UserMove(e, m.map)
              ELSE cl' = e /\ UNCHANGED toClient
      /\ UNCHANGED <<sv, client, bound>>

----------------------------------------------------------------------------
(* The client.                                                             *)

\* CL_WritePacket; usercmds are made from CA_PRIMED on.  The map is not sent.
Packet(c) == [serverId |-> c.serverId, acked |-> c.acked, cps |-> c.cps,
              move |-> c.state \in {"primed", "active"}, map |-> c.map]

CL_SendCmd ==
  /\ client.state # "loading"
  /\ toServer' = Packet(client)
  /\ UNCHANGED <<sv, cl, client, toClient, bound>>

\* CL_ParseGamestate wipes the client's state and keeps the number of the
\* last server command the game executed.
CL_ParseGamestate(c, m) ==
  [c EXCEPT !.state = "loading", !.map = m.map, !.serverId = m.system, !.game = m.game,
            !.snap = 0, !.newSnapshots = FALSE,
            !.stale = @ \/ \E n \in c.lastExecuted + 1 .. m.commands :
                             cl.commands[n] \notin {[cs |-> "system", value |-> m.system],
                                                    [cs |-> "game", value |-> m.game]}]

\* CL_PacketEvent and CL_ParseServerMessage; also from the event loop of
\* CL_DownloadsComplete, while the map is loading.
CL_ParseServerMessage ==
  LET m == toClient
      c == [client EXCEPT !.acked = m.at, !.serverCommandSequence = m.commands]
  IN  /\ toClient # Nothing
      /\ toClient' = Nothing
      /\ client' = CASE m.kind = "gamestate" -> CL_ParseGamestate(c, m)
                     [] m.kind = "snapshot"  -> [c EXCEPT !.snap = m.commands,
                                                          !.newSnapshots = TRUE]
                     [] OTHER -> c
      /\ UNCHANGED <<sv, cl, toServer, bound>>

\* The rest of CL_DownloadsComplete: the client game is started, the "cp"
\* command added and sent, with no usercmd yet.
CL_DownloadsComplete ==
  LET c == [client EXCEPT !.state = "primed",
                          !.cps = Append(@, [serverId |-> client.serverId,
                                             map |-> client.map])]
  IN  /\ client.state = "loading"
      /\ client' = c
      /\ toServer' = [Packet(c) EXCEPT !.move = FALSE]
      /\ UNCHANGED <<sv, cl, toClient, bound>>

\* The value of a configstring after the commands from one to another.
After(cs, old, from, to) ==
  LET N == {n \in from .. to : cl.commands[n].cs = cs}
  IN  IF N = {} THEN old
      ELSE cl.commands[CHOOSE n \in N : \A i \in N : i <= n].value

\* CL_SetCGameTime: the first snapshot makes the client active, and the game
\* executes the commands known at the snapshot (CL_ConfigstringModified).
CL_SetCGameTime ==
  LET from == client.lastExecuted + 1
      to   == client.snap
  IN  /\ \/ client.state = "active"
         \/ client.state = "primed" /\ client.newSnapshots
      /\ client' = [client EXCEPT !.state = "active", !.newSnapshots = FALSE,
                                  !.lastExecuted = IF to > @ THEN to ELSE @,
                                  !.serverId = After("system", @, from, to),
                                  !.game = After("game", @, from, to)]
      /\ UNCHANGED <<sv, cl, toClient, toServer, bound>>

Next == \/ SV_SetConfigstring
        \/ \E send \in BOOLEAN : SV_Frame(send)
        \/ SV_SpawnServer
        \/ SV_MapRestart
        \/ SV_ExecuteClientMessage
        \/ CL_SendCmd
        \/ CL_ParseServerMessage
        \/ CL_DownloadsComplete
        \/ CL_SetCGameTime

Spec == Init /\ [][Next]_vars

\* Both ends run their frames for ever, a map is loaded in the end, and of
\* the messages sent again and again one gets through, gamestate or not.
ReceivesGamestate ==
  /\ toClient # Nothing
  /\ toClient.kind = "gamestate"
  /\ CL_ParseServerMessage

FairSpec ==
  /\ Spec
  /\ WF_vars(SV_Frame(TRUE))
  /\ WF_vars(CL_SendCmd) /\ WF_vars(CL_DownloadsComplete) /\ WF_vars(CL_SetCGameTime)
  /\ SF_vars(SV_ExecuteClientMessage) /\ SF_vars(CL_ParseServerMessage)
  /\ SF_vars(ReceivesGamestate)

----------------------------------------------------------------------------
(* Properties.                                                             *)

Acked == [gamestates : 0 .. 3, later : BOOLEAN]
Values == [map : Nat, n : Nat]

\* Types, and what the client has never runs ahead of the server.
TypeOK ==
  /\ sv \in [map : Nat, serverId : Nat, restartedServerId : Nat, system : Nat,
             systemModified : BOOLEAN, game : Values, modified : SUBSET {"system", "game"}]
  /\ cl.state \in {"connected", "primed", "active", "dropped"}
  /\ cl.acked \in Acked /\ client.acked \in Acked
  /\ cl.gotCP \in BOOLEAN /\ cl.stranded \in BOOLEAN /\ cl.wrongMove \in BOOLEAN
  /\ client.state \in {"connected", "loading", "primed", "active"}
  /\ client.game \in Values
  /\ (cl.gamestates - client.acked.gamestates) % 4 \in 0 .. 2
  /\ client.serverCommandSequence <= Len(cl.commands)
  /\ client.lastExecuted <= client.serverCommandSequence
  /\ cl.lastClientCommand <= Len(client.cps)

\* An honest client is never dropped, neither for a "cp" made for another map
\* nor for a usercmd that overtakes its "cp" (SV_VerifyPaks_f, SV_UserMove),
\* unless a restart took it into the world without a gamestate.
HonestNeverDropped == cl.state = "dropped" => cl.stranded

\* A usercmd made in another map is not executed, unless a restart took the
\* client into the world without a gamestate (SV_ExecuteClientMessage).
NoMoveOfAnotherMap == cl.wrongMove => cl.stranded

\* A client that waits to enter the world and whose newest message is the last
\* gamestate has the map that runs (SV_SendClientGameState, SV_SpawnServer).
PrimedForThisMap ==
  (cl.state = "primed" /\ client.acked = [gamestates |-> cl.gamestates, later |-> FALSE])
    => client.map = sv.map

\* What an honest client does is neither held against it nor taken for another
\* map's, and who waits to enter the world waits for the right one.
HonestServed == HonestNeverDropped /\ NoMoveOfAnotherMap /\ PrimedForThisMap

InWorld == cl.state = "active" /\ client.state = "active" /\ client.map = sv.map

\* When maps stop changing the client ends up in the world of the one that
\* runs, whatever was lost (SV_SendClientGameState, SV_UserMove).
EntersWorld == <>[](InWorld \/ cl.stranded)

\* ... and the client's configstrings become those of the server, unless a
\* gamestate came before older commands were executed (CL_ParseGamestate).
Converges ==
  <>[](\/ client.game = sv.game /\ client.serverId = sv.serverId
       \/ cl.stranded \/ client.stale)

(* What comments of the code say, and the code does not do.                *)

\* "It will be resent if the client acknowledges a later message but has the
\* wrong gamestate" (SV_SendClientGameState).
GamestateArrives == <>[](client.map = sv.map)
=============================================================================
