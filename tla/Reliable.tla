------------------------------ MODULE Reliable ------------------------------
(***************************************************************************)
(* Reliable commands between the server and one client that is in the     *)
(* game (CS_ACTIVE, CA_ACTIVE).                                            *)
(*                                                                         *)
(* Each side numbers its commands, keeps the newest MAX_RELIABLE_COMMANDS  *)
(* of them in a ring and repeats in every message the ones that the other  *)
(* side has not acknowledged.  Messages go through a netchan: any of them  *)
(* may be lost, the others arrive in order and once.  A message is also    *)
(* encoded with the text of the command it acknowledges, which the other   *)
(* side looks up in its own ring.                                          *)
(*                                                                         *)
(* The text of a command is its number: two commands never have the same.  *)
(* 0 is the empty text that fills the rings before any command.            *)
(***************************************************************************)
EXTENDS Integers, Sequences

CONSTANTS MAX_RELIABLE_COMMANDS,
          MaxServerCommands,  \* bound: commands the server adds by itself
          MaxClientCommands,  \* bound: commands the client adds by itself
          MaxInFlight         \* bound: messages under way in one direction

ASSUME ReliableAssumption ==
  /\ MAX_RELIABLE_COMMANDS \in Nat \ {0}
  /\ MaxServerCommands \in Nat
  /\ MaxClientCommands \in Nat
  /\ MaxInFlight \in Nat \ {0}

R == MAX_RELIABLE_COMMANDS

VARIABLES
  server,           \* client_t: what the server keeps for the client
  client,           \* clientConnection_t
  toClient,         \* messages under way to the client, oldest first
  toServer,         \* messages under way to the server, oldest first
  serverExecuted,   \* history: texts of the client commands executed
  clientExecuted    \* history: texts of the server commands executed

vars == <<server, client, toClient, toServer, serverExecuted, clientExecuted>>

Slots == 0 .. R - 1
Slot(n) == n % R

EmptyRing == [k \in Slots |-> 0]

Init ==
  /\ server = [reliableSequence |-> 0, reliableAcknowledge |-> 0,
               reliableCommands |-> EmptyRing,
               lastClientCommand |-> 0, lastClientCommandString |-> 0,
               zombie |-> FALSE,
               byes |-> {},            \* numbers whose text is "disconnect"
               gameDisconnects |-> 0,  \* history: calls of GAME_CLIENT_DISCONNECT
               intact |-> TRUE]        \* history: see Stored
  /\ client = [reliableSequence |-> 0, reliableAcknowledge |-> 0,
               reliableCommands |-> EmptyRing,
               serverCommandSequence |-> 0, serverCommands |-> EmptyRing,
               lastExecutedServerCommand |-> 0,
               state |-> "active",   \* or "left", or "fatal": the process ended
               bye |-> 0,            \* number whose text is "disconnect"
               intact |-> TRUE]      \* history: see Stored
  /\ toClient = <<>>
  /\ toServer = <<>>
  /\ serverExecuted = <<>>
  /\ clientExecuted = <<>>

----------------------------------------------------------------------------
(* Helpers.                                                                *)

Outstanding(e) == e.reliableSequence - e.reliableAcknowledge

\* The next command of one end goes into its ring, whatever was there.  The
\* ring is intact as long as it holds every unacknowledged command.
Stored(e) ==
  LET n == e.reliableSequence + 1
  IN  [e EXCEPT !.reliableSequence = n,
                !.reliableCommands[Slot(n)] = n,
                !.intact = @ /\ Outstanding(e) < R]

\* Mutant: the loop ends before the newest command.
MutUnacknowledged(e) ==
  [n \in e.reliableAcknowledge + 1 .. e.reliableSequence - 1 |-> e.reliableCommands[Slot(n)]]

\* The unacknowledged commands of one end, read from its ring.
Unacknowledged(e) ==
  [n \in e.reliableAcknowledge + 1 .. e.reliableSequence |-> e.reliableCommands[Slot(n)]]

Newest(S) == CHOOSE n \in S : \A i \in S : i <= n
Oldest(S) == CHOOSE n \in S : \A i \in S : n <= i

\* A full link loses its oldest message; one that arrives makes every older
\* one worthless, because the netchan discards what is out of order.
Sent(link, m)    == Append(IF Len(link) < MaxInFlight THEN link ELSE Tail(link), m)
After(link, i)   == SubSeq(link, i + 1, Len(link))

----------------------------------------------------------------------------
(* The server.                                                             *)

\* Mutant: one command too many is accepted, as on the client.
MutOverflows(s) == Outstanding(s) > R

\* SV_AddServerCommand finds the ring full of unacknowledged commands.
Overflows(s) == Outstanding(s) + 1 = R + 1

\* The number is taken and nothing is stored.
Counted(s) == [s EXCEPT !.reliableSequence = @ + 1, !.intact = FALSE]

\* SV_DropClient from the change to CS_ZOMBIE on: the game is told, and the
\* "disconnect" command added.  If that overflows, the drop it asks for
\* returns at once, the client being a zombie, and the command is not stored.
Zombified(s) ==
  LET z == [s EXCEPT !.zombie = TRUE, !.gameDisconnects = @ + 1]
  IN  IF Overflows(z) THEN Counted(z)
      ELSE [Stored(z) EXCEPT !.byes = @ \cup {z.reliableSequence + 1}]

\* SV_AddServerCommand.  On overflow the client is dropped: the command is
\* counted, the broadcast that tells why is stored although the ring is full
\* (the test is for equality), and the rest of SV_DropClient follows.
SV_AddServerCommand(s) ==
  IF Overflows(s) THEN Zombified(Stored(Counted(s))) ELSE Stored(s)

\* SV_DropClient.  The broadcast reaches the client itself, not yet a zombie.
SV_DropClient(s) == IF s.zombie THEN s ELSE Zombified(SV_AddServerCommand(s))

\* SV_SendServerCommand for any reason of the game or the server.
ServerAdds ==
  /\ ~server.zombie
  /\ server.reliableSequence < MaxServerCommands
  /\ server' = SV_AddServerCommand(server)
  /\ UNCHANGED <<client, toClient, toServer, serverExecuted, clientExecuted>>

\* A drop for a reason of its own: a kick, a timeout, a full send queue.
ServerDrops ==
  /\ ~server.zombie
  /\ server' = SV_DropClient(server)
  /\ UNCHANGED <<client, toClient, toServer, serverExecuted, clientExecuted>>

\* SV_SendClientSnapshot: the acknowledgement, the unacknowledged commands
\* (SV_UpdateServerCommandsToClient), and the text it is encoded with.
ServerSends ==
  /\ toClient' = Sent(toClient, [ack  |-> server.lastClientCommand,
                                 key  |-> server.lastClientCommandString,
                                 cmds |-> Unacknowledged(server)])
  /\ UNCHANGED <<server, client, toServer, serverExecuted, clientExecuted>>

\* Mutant: the newest executed command is executed again when repeated.
MutServerExecutes(s, cmds) ==
  LET new == {n \in DOMAIN cmds : n >= s.lastClientCommand}
  IN  IF new = {}
      THEN server' = s /\ UNCHANGED serverExecuted
      ELSE /\ server' = [s EXCEPT !.lastClientCommand = Newest(new),
                                 !.lastClientCommandString = cmds[Newest(new)]]
           /\ serverExecuted' = serverExecuted \o
                [i \in 1 .. Newest(new) - Oldest(new) + 1 |-> cmds[Oldest(new) + i - 1]]

\* SV_ClientCommand for every command of a message: those seen before are
\* skipped, a gap drops the client, and "disconnect" stops the reading.
ServerExecutes(s, cmds) ==
  LET new  == {n \in DOMAIN cmds : n > s.lastClientCommand}
      quit == {n \in new : cmds[n] = client.bye /\ client.bye # 0}
      last == IF quit # {} THEN Oldest(quit) ELSE Newest(new)
  IN  IF new = {}
      THEN server' = s /\ UNCHANGED serverExecuted
      ELSE IF s.lastClientCommand + 1 \notin new
      THEN server' = SV_DropClient(s) /\ UNCHANGED serverExecuted
      ELSE /\ server' = [(IF quit # {} THEN SV_DropClient(s) ELSE s)
                           EXCEPT !.lastClientCommand = last,
                                  !.lastClientCommandString = cmds[last]]
           /\ serverExecuted' = serverExecuted \o
                [i \in 1 .. last - s.lastClientCommand |-> cmds[s.lastClientCommand + i]]

\* SV_PacketEvent: SV_Netchan_Process, then SV_ExecuteClientMessage unless the
\* client is a zombie.  The acknowledgement is outside the encoded part; the
\* rest, decoded with a text that is not the one it was encoded with, is
\* noise, which stops the reading or looks like a command that is refused.
ServerReceives(i) ==
  LET m == toServer[i]
      s == [server EXCEPT !.reliableAcknowledge = m.ack]
      agrees == m.key = server.reliableCommands[Slot(m.ack)]
  IN  /\ toServer' = After(toServer, i)
      /\ IF server.zombie
         THEN UNCHANGED <<server, serverExecuted>>
         ELSE IF m.ack < server.reliableSequence - R
         THEN /\ server' = [s EXCEPT !.reliableAcknowledge = s.reliableSequence]
              /\ UNCHANGED serverExecuted
         ELSE IF ~agrees
         THEN server' \in {s, SV_DropClient(s)} /\ UNCHANGED serverExecuted
         ELSE ServerExecutes(s, m.cmds)
      /\ UNCHANGED <<client, toClient, clientExecuted>>

----------------------------------------------------------------------------
(* The client.                                                             *)

\* CL_AddReliableCommand refuses a command, with an error, only when more
\* than MAX_RELIABLE_COMMANDS are unacknowledged already.
Refuses(c) == Outstanding(c) > R

\* Mutant: the next command is acknowledged, the one that is expected.
MutClientMessageAck(c) == [ack  |-> c.serverCommandSequence + 1,
                           key  |-> c.serverCommands[Slot(c.serverCommandSequence)],
                           cmds |-> Unacknowledged(c)]
\* Mutant: the key is the newest command the game was given.
MutClientMessage(c) == [ack  |-> c.serverCommandSequence,
                        key  |-> c.serverCommands[Slot(c.lastExecutedServerCommand)],
                        cmds |-> Unacknowledged(c)]

\* CL_WritePacket.
ClientMessage(c) == [ack  |-> c.serverCommandSequence,
                     key  |-> c.serverCommands[Slot(c.serverCommandSequence)],
                     cmds |-> Unacknowledged(c)]

\* CL_Disconnect: the "disconnect" command is added and sent.  An error in it
\* calls CL_Disconnect again, and the error in that one is an error within
\* Com_Error, which ends the process.
CL_Disconnect(c) ==
  LET d == [Stored(c) EXCEPT !.bye = c.reliableSequence + 1, !.state = "left"]
  IN  IF Refuses(c)
      THEN client' = [c EXCEPT !.state = "fatal"] /\ UNCHANGED toServer
      ELSE client' = d /\ toServer' = Sent(toServer, ClientMessage(d))

\* Com_Error with ERR_DROP or ERR_SERVERDISCONNECT disconnects.
Com_Error(c) == CL_Disconnect(c)

ClientAdds ==
  /\ client.state = "active"
  /\ client.reliableSequence < MaxClientCommands
  /\ IF Refuses(client)
     THEN Com_Error(client)
     ELSE client' = Stored(client) /\ UNCHANGED toServer
  /\ UNCHANGED <<server, toClient, serverExecuted, clientExecuted>>

\* The user leaves.
ClientLeaves ==
  /\ client.state = "active"
  /\ CL_Disconnect(client)
  /\ UNCHANGED <<server, toClient, serverExecuted, clientExecuted>>

ClientSends ==
  /\ client.state = "active"
  /\ toServer' = Sent(toServer, ClientMessage(client))
  /\ UNCHANGED <<server, client, toClient, serverExecuted, clientExecuted>>

\* CL_ParseCommandString for every command of a message.
ParsedCommands(c, cmds) ==
  LET new == {n \in DOMAIN cmds : n > c.serverCommandSequence}
  IN  IF new = {} THEN c
      ELSE [c EXCEPT !.serverCommandSequence = Newest(new),
                     !.serverCommands =
                        [k \in Slots |->
                           LET N == {n \in new : Slot(n) = k}
                           IN  IF N = {} THEN @[k] ELSE cmds[Newest(N)]]]

\* CL_Netchan_Process and CL_ParseServerMessage.  The acknowledgement is
\* outside the encoded part; noise is an illegible message, or ends at once.
ClientReceives(i) ==
  LET m == toClient[i]
      c == [client EXCEPT !.reliableAcknowledge =
              IF m.ack < client.reliableSequence - R
              THEN client.reliableSequence ELSE m.ack]
      agrees == m.key = client.reliableCommands[Slot(m.ack)]
  IN  /\ client.state = "active"
      /\ toClient' = After(toClient, i)
      /\ IF agrees
         THEN client' = ParsedCommands(c, m.cmds) /\ UNCHANGED toServer
         ELSE \/ Com_Error(c)
              \/ client' = c /\ UNCHANGED toServer
      /\ UNCHANGED <<server, serverExecuted, clientExecuted>>

\* CL_GetServerCommand for the next command the client game asks for.
CL_GetServerCommand ==
  LET n    == client.lastExecutedServerCommand + 1
      text == client.serverCommands[Slot(n)]
      c    == [client EXCEPT !.lastExecutedServerCommand = n]
  IN  /\ client.state = "active"
      /\ n <= client.serverCommandSequence
      /\ IF n <= client.serverCommandSequence - R
         THEN Com_Error(client) /\ UNCHANGED clientExecuted
         ELSE /\ clientExecuted' = Append(clientExecuted, text)
              /\ IF text \in server.byes
                 THEN Com_Error(c)
                 ELSE client' = c /\ UNCHANGED toServer
      /\ UNCHANGED <<server, toClient, serverExecuted>>

Next == \/ ServerAdds
        \/ ServerDrops
        \/ ServerSends
        \/ \E i \in 1 .. Len(toServer) : ServerReceives(i)
        \/ ClientAdds
        \/ ClientLeaves
        \/ ClientSends
        \/ \E i \in 1 .. Len(toClient) : ClientReceives(i)
        \/ CL_GetServerCommand

Spec == Init /\ [][Next]_vars

\* Each side keeps sending: SV_Frame and CL_Frame run all the time.  Of the
\* messages sent again and again one gets through; the client game asks for
\* the commands of the snapshots it is shown.
FairSpec ==
  /\ Spec
  /\ WF_vars(ServerSends) /\ WF_vars(ClientSends) /\ WF_vars(CL_GetServerCommand)
  /\ SF_vars(\E i \in 1 .. Len(toServer) : ServerReceives(i))
  /\ SF_vars(\E i \in 1 .. Len(toClient) : ClientReceives(i))

----------------------------------------------------------------------------
(* Properties.                                                             *)

Ring == [Slots -> Nat]

\* Types; a client that is not a zombie has at most a full ring outstanding, and
\* a drop enters SV_DropClient again once at most.
TypeOK ==
  /\ server \in [reliableSequence : Nat, reliableAcknowledge : Nat,
                 reliableCommands : Ring, lastClientCommand : Nat,
                 lastClientCommandString : Nat, zombie : BOOLEAN,
                 byes : SUBSET (0 .. server.reliableSequence),
                 gameDisconnects : 0 .. 2, intact : BOOLEAN]
  /\ client \in [reliableSequence : Nat, reliableAcknowledge : Nat,
                 reliableCommands : Ring, serverCommandSequence : Nat,
                 serverCommands : Ring, lastExecutedServerCommand : Nat,
                 state : {"active", "left", "fatal"}, bye : Nat, intact : BOOLEAN]
  /\ Len(toClient) \in 0 .. MaxInFlight
  /\ Len(toServer) \in 0 .. MaxInFlight
  /\ serverExecuted \in Seq(Nat)
  /\ clientExecuted \in Seq(Nat)
  /\ Outstanding(client) \in 0 .. R + 1
  /\ Outstanding(server) \in 0 .. IF server.zombie THEN R + 4 ELSE R

Count(n) == [i \in 1 .. n |-> i]

\* The server executes every client command once, in order and with its own
\* text, however messages are lost, as long as the client kept in its ring
\* what was not acknowledged (SV_ClientCommand, CL_WritePacket).
ClientCommandsExact ==
  client.intact => serverExecuted = Count(server.lastClientCommand)

\* The client game is given every server command once, in order and with its
\* own text, also when it lags behind what has arrived, as long as the
\* server's ring was intact (CL_ParseCommandString, CL_GetServerCommand).
ServerCommandsExact ==
  server.intact => clientExecuted = Count(client.lastExecutedServerCommand)

\* The server never loses an unacknowledged command of a client it still
\* serves: it drops the client first (SV_AddServerCommand).
ServedRingIntact == ~server.zombie => server.intact

\* Both directions are exact as long as the rings hold what is unacknowledged,
\* and the server's does while the client is served.
CommandsExact == ClientCommandsExact /\ ServerCommandsExact /\ ServedRingIntact

\* What one side believes acknowledged, the other has: a command is forgotten
\* only when it has arrived.
AcknowledgedHasArrived ==
  /\ server.reliableAcknowledge <= client.serverCommandSequence
  /\ client.intact => client.reliableAcknowledge <= server.lastClientCommand

\* No message on the way would make the server drop the client for lost
\* commands: it starts at most one past what was executed.
NoCommandsLost ==
  client.intact =>
    \A i \in 1 .. Len(toServer) :
      LET cmds == DOMAIN toServer[i].cmds
      IN  cmds # {} => Oldest(cmds) <= server.lastClientCommand + 1

\* Acknowledgements neither run ahead of what arrived nor fall behind what is
\* no longer repeated.
Acknowledgements == AcknowledgedHasArrived /\ NoCommandsLost

\* Each side can decode every message on the way to it, with the text it has
\* in the slot of the acknowledged command, unless its ring is full behind
\* that command (SV_Netchan_Decode, CL_Netchan_Decode).
KeysAgree ==
  /\ \A i \in 1 .. Len(toServer) :
       LET m == toServer[i]
       IN  server.reliableSequence - m.ack < R =>
             m.key = server.reliableCommands[Slot(m.ack)]
  /\ \A i \in 1 .. Len(toClient) :
       LET m == toClient[i]
       IN  client.reliableSequence - m.ack < R =>
             m.key = client.reliableCommands[Slot(m.ack)]

\* Each side's slot of the acknowledged command holds a newer one: neither
\* can decode what the other sends, so nothing is acknowledged any more.
BothFull == Outstanding(server) >= R /\ Outstanding(client) >= R

\* The connection ended, or the client overwrote what was unacknowledged.
Ended == server.zombie \/ client.state # "active" \/ ~client.intact

\* A command the server added is given to the client game, unless the
\* connection ends or both rings are full for good (SV_AddServerCommand).
ServerCommandsArrive ==
  \A n \in 1 .. MaxServerCommands :
    (server.reliableSequence >= n) ~>
      (client.lastExecutedServerCommand >= n \/ Ended \/ []BothFull)

\* A command the client added is executed by the server, on the same terms
\* (CL_AddReliableCommand).
ClientCommandsArrive ==
  \A n \in 1 .. MaxClientCommands :
    (client.reliableSequence >= n) ~>
      (server.lastClientCommand >= n \/ Ended \/ []BothFull)

\* Both directions make progress.
CommandsArrive == ServerCommandsArrive /\ ClientCommandsArrive
============================================================================
