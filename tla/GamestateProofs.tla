-------------------------- MODULE GamestateProofs --------------------------
(***************************************************************************)
(* Proofs about Gamestate, for any number of maps, restarts and changes    *)
(* and any loss of messages: the types, that an honest client is not       *)
(* dropped and none of its usercmds executed in another map unless a       *)
(* restart took it in without a gamestate, and that who waits to enter the *)
(* world waits for the one that runs.                                      *)
(*                                                                         *)
(* The invariant says where the client, the messages under way and what    *)
(* the server executed stand to each other: in the order of gamestates, in *)
(* the order of commands, and by the ids and maps they are of.             *)
(***************************************************************************)
EXTENDS Gamestate, FiniteSetTheorems, TLAPS

----------------------------------------------------------------------------
(* A set of numbers has a least and a greatest element.                    *)

\* A set of natural numbers has a least element.
LEMMA LeastExists ==
  ASSUME NEW S \in SUBSET Nat, S # {}
  PROVE  \E n \in S : \A i \in S : n <= i
<1> DEFINE Less == {p \in Nat \X Nat : p[1] < p[2]}
<1>1. IsWellFoundedOn(Less, Nat) BY NatLessThanWellFounded DEF OpToRel
<1>2. \A x, y \in S : <<y, x>> \notin Less => x <= y OBVIOUS
<1> HIDE DEF Less
<1> QED BY <1>1, <1>2, WFMin

\* A bounded one has a greatest element: the least of the distances to the bound.
LEMMA GreatestExists ==
  ASSUME NEW S \in SUBSET Nat, NEW b \in Nat, S # {}, \A i \in S : i <= b
  PROVE  \E n \in S : \A i \in S : i <= n
<1> DEFINE D == {b - i : i \in S}
<1>1. \A i \in S : i \in Nat /\ b - i \in Nat OBVIOUS
<1>2. D \subseteq Nat BY <1>1
<1>3. D # {} OBVIOUS
<1>4. PICK d \in D : \A e \in D : d <= e BY <1>2, <1>3, LeastExists
<1>5. PICK n \in S : d = b - n OBVIOUS
<1>6. \A i \in S : b - i \in D OBVIOUS
<1>7. \A i \in S : i <= n BY <1>1, <1>4, <1>5, <1>6
<1> QED BY <1>7

----------------------------------------------------------------------------
(* Types.                                                                  *)

Commands == [cs : {"system"}, value : Nat] \cup [cs : {"game"}, value : Values]
CPs == [serverId : Nat, map : Nat]

Servers == [map : Nat, serverId : Nat, restartedServerId : Nat, system : Nat,
            systemModified : BOOLEAN, game : Values, modified : SUBSET {"game"}]
ServedClients ==
  [state : {"connected", "primed", "active", "dropped"}, gamestates : 0 .. 3,
   acked : Acked, commands : Seq(Commands), lastClientCommand : Nat,
   gotCP : BOOLEAN, stranded : BOOLEAN, wrongMove : BOOLEAN]
Clients ==
  [state : {"connected", "loading", "primed", "active"}, map : Nat, serverId : Nat,
   game : Values, acked : Acked, serverCommandSequence : Nat, lastExecuted : Nat,
   snap : Nat, newSnapshots : BOOLEAN, cps : Seq(CPs), stale : BOOLEAN]
ToClients == [kind : {"gamestate", "snapshot", "idle"}, at : Acked, commands : Nat,
              map : Nat, system : Nat, game : Values]
Packets == [serverId : Nat, acked : Acked, cps : Seq(CPs), move : BOOLEAN, map : Nat]

Types ==
  /\ sv \in Servers
  /\ cl \in ServedClients
  /\ client \in Clients
  /\ toClient \in ToClients \cup {Nothing}
  /\ toServer \in Packets \cup {Nothing}
  /\ bound \in [spawns : Nat, restarts : Nat, changes : Nat]

----------------------------------------------------------------------------
(* The inductive invariant.                                                *)

\* Commands are counted in the order in which they come to be known.
Counted ==
  /\ client.snap <= client.serverCommandSequence
  /\ client.lastExecuted <= client.serverCommandSequence
  /\ client.serverCommandSequence <= Len(cl.commands)
  /\ toClient # Nothing => /\ client.serverCommandSequence <= toClient.commands
                           /\ toClient.commands <= Len(cl.commands)
  /\ cl.lastClientCommand <= Len(client.cps)
  /\ toServer # Nothing =>
       /\ cl.lastClientCommand <= Len(toServer.cps)
       /\ Len(toServer.cps) <= Len(client.cps)
       /\ \A n \in 1 .. Len(toServer.cps) : toServer.cps[n] = client.cps[n]

\* The client's newest message is the last gamestate, a later message, or one
\* before that gamestate and after the one before it; what was acknowledged
\* before is no newer.
Ordered ==
  /\ client.acked.gamestates # cl.gamestates =>
       cl.gamestates = (client.acked.gamestates + 1) % 4 /\ client.acked.later
  /\ toClient # Nothing =>
       /\ toClient.at = [gamestates |-> cl.gamestates, later |-> toClient.kind # "gamestate"]
       /\ client.acked.gamestates = cl.gamestates => toClient.kind # "gamestate"
  /\ toServer # Nothing =>
       /\ toServer.acked = [gamestates |-> cl.gamestates, later |-> TRUE] =>
            client.acked = toServer.acked

\* A system id is that of a map, or of one of its restarts; the ids of the
\* map that runs start at restartedServerId.
OfThisMap(map, id) == (map = sv.map) <=> (id >= sv.restartedServerId)

IdsGrow ==
  /\ sv.restartedServerId <= sv.system /\ sv.system <= sv.serverId
  /\ client.serverId <= sv.serverId
  /\ client.map <= sv.map
  /\ client.state = "loading" => OfThisMap(client.map, client.serverId)
  /\ \A n \in 1 .. Len(client.cps) : /\ client.cps[n].map <= sv.map
                                     /\ client.cps[n].serverId <= sv.serverId
                                     /\ OfThisMap(client.cps[n].map, client.cps[n].serverId)
  /\ toServer # Nothing => toServer.serverId <= sv.serverId /\ toServer.map <= sv.map
  /\ toClient # Nothing =>
       /\ toClient.map <= sv.map /\ toClient.system <= sv.serverId
       /\ toClient.kind = "gamestate" => OfThisMap(toClient.map, toClient.system)
  /\ \A n \in 1 .. Len(cl.commands) : cl.commands[n].cs = "system" =>
       /\ cl.commands[n].value <= sv.serverId
       /\ \A k \in n .. Len(cl.commands) : cl.commands[k].cs = "system" =>
            cl.commands[n].value <= cl.commands[k].value

\* Who has the map that runs has its last gamestate, and has asked to enter
\* with a "cp" of its own as soon as it makes usercmds.
HasThisMap ==
  /\ client.map = sv.map =>
       /\ client.acked.gamestates = cl.gamestates
       /\ client.state \in {"primed", "active"} =>
            \E n \in 1 .. Len(client.cps) : client.cps[n].map = sv.map
  /\ \A n \in 1 .. Len(client.cps) : client.cps[n].map = sv.map => client.map = sv.map
  /\ toServer # Nothing =>
       /\ toServer.map = sv.map => client.map = sv.map
       /\ \A n \in 1 .. Len(toServer.cps) : toServer.cps[n].map = sv.map =>
            toServer.map = sv.map
       /\ toServer.map = sv.map /\ toServer.move =>
            \E n \in 1 .. Len(toServer.cps) : toServer.cps[n].map = sv.map

\* Until the client has entered the world of the map, the map was not
\* restarted, and nobody but the gamestate tells the client of it.
Waiting == cl.state \in {"connected", "primed"}

Entering ==
  Waiting =>
    /\ sv.serverId = sv.restartedServerId /\ ~sv.systemModified
    /\ \A n \in 1 .. Len(cl.commands) :
         cl.commands[n].cs = "system" => cl.commands[n].value < sv.restartedServerId
    /\ OfThisMap(client.map, client.serverId)
    /\ client.map = sv.map => client.snap = 0 /\ ~client.newSnapshots /\ client.state # "active"
    /\ toServer # Nothing => OfThisMap(toServer.map, toServer.serverId)
    /\ toClient # Nothing /\ toClient.map = sv.map => toClient.kind # "snapshot"

Connected ==
  cl.state = "connected" =>
    /\ client.map # sv.map
    /\ toClient # Nothing /\ toClient.kind = "gamestate" => toClient.map # sv.map

\* ... and one who missed the last gamestate says so before it has the map.
WaitsForThisMap ==
  cl.state = "primed" =>
    /\ toClient # Nothing => toClient.map = sv.map
    /\ client.acked = [gamestates |-> cl.gamestates, later |-> FALSE] => client.map = sv.map
    /\ (/\ toServer # Nothing
        /\ toServer.acked = [gamestates |-> cl.gamestates, later |-> TRUE]
        /\ toServer.map # sv.map) => client.map # sv.map

\* One of the first n commands brings a system id of this map, and so does
\* every later one that brings any.
Refreshed(n) ==
  \E k \in 1 .. n : /\ cl.commands[k].cs = "system"
                    /\ cl.commands[k].value >= sv.restartedServerId

\* Who is in the world, without a restart that took it in too early, has the
\* map.  As long as its "cp" has not come it was taken in by a restart, and
\* keeps to the ids of this map.
InThisWorld ==
  cl.state = "active" /\ ~cl.stranded =>
    /\ client.map = sv.map
    /\ toClient # Nothing => toClient.map = sv.map
    /\ toServer # Nothing /\ toServer.map # sv.map =>
         toServer.serverId < sv.restartedServerId
    /\ ~cl.gotCP =>
         /\ client.serverId >= sv.restartedServerId
         /\ sv.systemModified \/ Refreshed(Len(cl.commands))
         /\ client.snap # 0 => Refreshed(client.snap)
         /\ toClient # Nothing /\ toClient.kind = "snapshot" => Refreshed(toClient.commands)
         /\ toServer # Nothing /\ toServer.map = sv.map =>
              toServer.serverId >= sv.restartedServerId

\* A "cp" of this map is not executed without being heard.
Heard ==
  Waiting \/ (cl.state = "active" /\ ~cl.stranded) =>
    \A n \in 1 .. cl.lastClientCommand : client.cps[n].map = sv.map => cl.gotCP

Excused == (cl.state = "dropped" \/ cl.wrongMove) => cl.stranded

IInv == /\ Types
        /\ Counted
        /\ Ordered
        /\ IdsGrow
        /\ HasThisMap
        /\ Entering
        /\ Connected
        /\ WaitsForThisMap
        /\ InThisWorld
        /\ Heard
        /\ Excused

----------------------------------------------------------------------------
(* Initially, and steps of one side.                                       *)

\* What a sequence of "cp" commands, and one of server commands, holds.
LEMMA CPNumbers ==
  ASSUME NEW s \in Seq(CPs)
  PROVE  \A n \in 1 .. Len(s) : /\ s[n] \in CPs
                                /\ s[n].map \in Nat /\ s[n].serverId \in Nat
  <1> SUFFICES ASSUME NEW n \in 1 .. Len(s)
               PROVE  s[n] \in CPs /\ s[n].map \in Nat /\ s[n].serverId \in Nat
    OBVIOUS
  <1>1. s[n] \in CPs
    OBVIOUS
  <1> QED
    BY <1>1 DEF CPs

\* The value of a configstring is of the kind of the configstring.
LEMMA CommandNumbers ==
  ASSUME NEW s \in Seq(Commands)
  PROVE  \A n \in 1 .. Len(s) : /\ s[n] \in Commands
                                /\ s[n].cs = "system" => s[n].value \in Nat
                                /\ s[n].cs = "game" => s[n].value \in Values
  <1> SUFFICES ASSUME NEW n \in 1 .. Len(s)
               PROVE  /\ s[n] \in Commands
                      /\ s[n].cs = "system" => s[n].value \in Nat
                      /\ s[n].cs = "game" => s[n].value \in Values
    OBVIOUS
  <1>1. s[n] \in Commands
    OBVIOUS
  <1> QED
    BY <1>1 DEF Commands

\* The initial state satisfies the invariant.
LEMMA InitHolds == Init => IInv
  <1> SUFFICES ASSUME Init PROVE IInv
    OBVIOUS
  <1>1. Types
    BY GamestateAssumption DEF Init, Types, Servers, ServedClients, Clients, Acked, Values,
                               Value, Nothing
  <1>2. /\ Len(client.cps) = 0 /\ Len(cl.commands) = 0
    BY DEF Init
  <1>3. Counted /\ Ordered
    BY <1>2 DEF Init, Counted, Ordered
  <1>4. IdsGrow /\ HasThisMap /\ Entering /\ Connected
    BY <1>2 DEF Init, IdsGrow, HasThisMap, Entering, Connected, OfThisMap, Waiting
  <1>5. WaitsForThisMap /\ InThisWorld /\ Heard /\ Excused
    BY <1>2 DEF Init, WaitsForThisMap, InThisWorld, Heard, Excused, Waiting
  <1> QED
    BY <1>1, <1>3, <1>4, <1>5 DEF IInv

\* The game changes its configstring.
LEMMA SetConfigstringHolds ==
  ASSUME IInv, SV_SetConfigstring
  PROVE  IInv'
  <1> USE DEF SV_SetConfigstring
  <1>1. Types'
    <2>1. sv' \in Servers
      <3> DEFINE v == Value(sv.map, bound.changes)
                 m == sv.modified \cup {"game"}
      <3>1. v \in Values /\ m \in SUBSET {"game"} /\ sv \in Servers
        BY DEF IInv, Types, Servers, Value, Values
      <3>2. sv' = [sv EXCEPT !.game = v, !.modified = m]
        OBVIOUS
      <3> HIDE DEF v, m
      <3> QED
        BY <3>1, <3>2 DEF Servers
    <2>2. bound' \in [spawns : Nat, restarts : Nat, changes : Nat]
      <3> DEFINE n == bound.changes - 1
      <3>1. n \in Nat /\ bound \in [spawns : Nat, restarts : Nat, changes : Nat]
        BY DEF IInv, Types
      <3>2. bound' = [bound EXCEPT !.changes = n]
        OBVIOUS
      <3> HIDE DEF n
      <3> QED
        BY <3>1, <3>2
    <2> QED
      BY <2>1, <2>2 DEF IInv, Types
  <1>2. /\ sv'.map = sv.map /\ sv'.serverId = sv.serverId /\ sv'.system = sv.system
        /\ sv'.restartedServerId = sv.restartedServerId
        /\ sv'.systemModified = sv.systemModified
    BY DEF IInv, Types, Servers
  <1>3. UNCHANGED <<cl, client, toClient, toServer>>
    OBVIOUS
  <1> HIDE DEF SV_SetConfigstring
  <1>4. Counted' /\ Ordered' /\ IdsGrow' /\ HasThisMap'
    BY <1>2, <1>3 DEF IInv, Counted, Ordered, IdsGrow, HasThisMap, OfThisMap
  <1>5. Entering' /\ Connected' /\ WaitsForThisMap' /\ InThisWorld' /\ Heard' /\ Excused'
    BY <1>2, <1>3 DEF IInv, Entering, Connected, WaitsForThisMap, InThisWorld, Heard, Excused,
                      Waiting, OfThisMap, Refreshed
  <1> QED
    BY <1>1, <1>4, <1>5 DEF IInv

\* The client sends what it knows.
LEMMA PacketType ==
  ASSUME NEW c \in Clients
  PROVE  /\ Packet(c) \in Packets
         /\ Packet(c).serverId = c.serverId /\ Packet(c).acked = c.acked
         /\ Packet(c).cps = c.cps /\ Packet(c).map = c.map
         /\ Packet(c).move <=> c.state \in {"primed", "active"}
  <1> DEFINE b == c.state \in {"primed", "active"}
  <1>1. b \in BOOLEAN /\ c.serverId \in Nat /\ c.acked \in Acked
        /\ c.cps \in Seq(CPs) /\ c.map \in Nat
    BY DEF Clients
  <1>2. Packet(c) = [serverId |-> c.serverId, acked |-> c.acked, cps |-> c.cps,
                     move |-> b, map |-> c.map]
    BY DEF Packet
  <1>3. Packet(c) \in Packets
    <2> HIDE DEF b
    <2> QED
      BY <1>1, <1>2 DEF Packets
  <1>4. /\ Packet(c).serverId = c.serverId /\ Packet(c).acked = c.acked
        /\ Packet(c).cps = c.cps /\ Packet(c).map = c.map /\ Packet(c).move = b
    <2> HIDE DEF b
    <2> QED
      BY <1>2
  <1> QED
    BY <1>3, <1>4

\* The client sends a packet.
LEMMA SendCmdHolds ==
  ASSUME IInv, CL_SendCmd
  PROVE  IInv'
  <1>1. client \in Clients /\ UNCHANGED <<sv, cl, client, toClient, bound>>
    BY DEF IInv, Types, CL_SendCmd
  <1>2. /\ toServer' \in Packets
        /\ toServer'.serverId = client.serverId /\ toServer'.acked = client.acked
        /\ toServer'.cps = client.cps /\ toServer'.map = client.map
        /\ toServer'.move => client.state \in {"primed", "active"}
    BY <1>1, PacketType DEF CL_SendCmd
  <1>3. Types'
    BY <1>1, <1>2 DEF IInv, Types
  <1>4. Counted' /\ Ordered'
    BY <1>1, <1>2 DEF IInv, Counted, Ordered, Clients
  <1>5. IdsGrow' /\ HasThisMap'
    BY <1>1, <1>2 DEF IInv, IdsGrow, HasThisMap, OfThisMap
  <1>6. Entering' /\ Connected' /\ WaitsForThisMap'
    BY <1>1, <1>2 DEF IInv, Entering, Connected, WaitsForThisMap, Waiting, OfThisMap, Ordered
  <1>7. InThisWorld' /\ Heard' /\ Excused'
    BY <1>1, <1>2 DEF IInv, InThisWorld, Heard, Excused, Waiting, Refreshed
  <1> QED
    BY <1>3, <1>4, <1>5, <1>6, <1>7 DEF IInv

----------------------------------------------------------------------------
(* The server's frame, a new map and a restart.                            *)

\* A message carries what its sender knows.
LEMMA MessageType ==
  ASSUME NEW c \in ServedClients, sv \in Servers,
         NEW kind \in {"gamestate", "snapshot", "idle"}
  PROVE  /\ Message(c, kind) \in ToClients
         /\ Message(c, kind).kind = kind
         /\ Message(c, kind).at = [gamestates |-> c.gamestates, later |-> kind # "gamestate"]
         /\ Message(c, kind).commands = Len(c.commands)
         /\ Message(c, kind).map = sv.map /\ Message(c, kind).system = sv.system
  <1> DEFINE b == kind # "gamestate"
             at == [gamestates |-> c.gamestates, later |-> b]
             n == Len(c.commands)
             i == sv.system
             m == sv.map
             g == sv.game
  <1>1. b \in BOOLEAN /\ at \in Acked /\ n \in Nat /\ i \in Nat /\ m \in Nat /\ g \in Values
    BY DEF Servers, ServedClients, Acked
  <1>2. Message(c, kind) = [kind |-> kind, at |-> at, commands |-> n, map |-> m,
                            system |-> i, game |-> g]
    BY DEF Message
  <1> HIDE DEF b, at, n, i, m, g
  <1>3. Message(c, kind) \in ToClients
    BY <1>1, <1>2 DEF ToClients
  <1>4. /\ Message(c, kind).kind = kind /\ Message(c, kind).at = at
        /\ Message(c, kind).commands = n /\ Message(c, kind).map = m
        /\ Message(c, kind).system = i
    BY <1>2
  <1> QED
    BY <1>3, <1>4 DEF b, at, n, i, m

\* SV_UpdateConfigStrings adds the system id when it changed, and first.
LEMMA UpdatesAre ==
  ASSUME NEW s \in [map : Nat, serverId : Nat, restartedServerId : Nat, system : Nat,
                    systemModified : BOOLEAN, game : Values,
                    modified : SUBSET {"system", "game"}],
         NEW c \in ServedClients
  PROVE  /\ Updates(s, c) \in Seq(Commands)
         /\ \A k \in 1 .. Len(Updates(s, c)) : Updates(s, c)[k].cs = "system" =>
              k = 1 /\ "system" \in s.modified /\ Updates(s, c)[k].value = s.system
         /\ c.state # "connected" /\ "system" \in s.modified =>
              /\ Len(Updates(s, c)) >= 1
              /\ Updates(s, c)[1] = [cs |-> "system", value |-> s.system]
  <1> DEFINE a == [cs |-> "system", value |-> s.system]
             g == [cs |-> "game", value |-> s.game]
  <1>1. /\ a \in Commands /\ a.cs = "system" /\ a.value = s.system
        /\ g \in Commands /\ g.cs # "system"
    BY DEF Commands
  <1>2. Updates(s, c) = IF c.state = "connected" THEN <<>>
                        ELSE (IF "system" \in s.modified THEN <<a>> ELSE <<>>)
                             \o (IF "game" \in s.modified THEN <<g>> ELSE <<>>)
    BY DEF Updates
  <1> HIDE DEF a, g
  <1>3. CASE c.state = "connected"
    BY <1>2, <1>3
  <1>4. CASE c.state # "connected" /\ "system" \in s.modified /\ "game" \in s.modified
    <2>1. Updates(s, c) = <<a>> \o <<g>>
      BY <1>2, <1>4
    <2>2. <<a>> \in Seq(Commands) /\ <<g>> \in Seq(Commands)
          /\ Len(<<a>>) = 1 /\ Len(<<g>>) = 1 /\ <<a>>[1] = a /\ <<g>>[1] = g
      BY <1>1
    <2>3. /\ <<a>> \o <<g>> \in Seq(Commands) /\ Len(<<a>> \o <<g>>) = 2
          /\ (<<a>> \o <<g>>)[1] = a /\ (<<a>> \o <<g>>)[2] = g
      BY <2>2
    <2> QED
      BY <2>1, <2>3, <1>1, <1>4 DEF a
  <1>5. CASE c.state # "connected" /\ "system" \in s.modified /\ "game" \notin s.modified
    <2>1. Updates(s, c) = <<a>>
      BY <1>2, <1>5
    <2> QED
      BY <2>1, <1>1, <1>5 DEF a
  <1>6. CASE c.state # "connected" /\ "system" \notin s.modified /\ "game" \in s.modified
    <2>1. Updates(s, c) = <<g>>
      BY <1>2, <1>6
    <2> QED
      BY <2>1, <1>1, <1>6
  <1>7. CASE c.state # "connected" /\ "system" \notin s.modified /\ "game" \notin s.modified
    <2>1. Updates(s, c) = <<>>
      BY <1>2, <1>7
    <2> QED
      BY <2>1, <1>7
  <1> QED
    BY <1>3, <1>4, <1>5, <1>6, <1>7

\* What a frame of the server does: commands are added, the system id among
\* them when it was due, and a message may be sent that knows of them all.
FrameStep(u, kind) ==
  /\ sv' \in Servers /\ cl' \in ServedClients
  /\ sv'.map = sv.map /\ sv'.serverId = sv.serverId
  /\ sv'.restartedServerId = sv.restartedServerId
  /\ ~sv'.systemModified
  /\ sv'.system = IF sv.systemModified THEN sv.serverId ELSE sv.system
  /\ u \in Seq(Commands)
  /\ \A k \in 1 .. Len(u) : u[k].cs = "system" =>
       k = 1 /\ sv.systemModified /\ u[k].value = sv.serverId
  /\ cl.state # "connected" /\ sv.systemModified =>
       Len(u) >= 1 /\ u[1] = [cs |-> "system", value |-> sv.serverId]
  /\ cl' = [cl EXCEPT !.commands = cl.commands \o u]
  /\ \/ UNCHANGED toClient
     \/ /\ toClient' \in ToClients
        /\ toClient'.kind = kind
        /\ toClient'.at = [gamestates |-> cl.gamestates, later |-> TRUE]
        /\ toClient'.commands = Len(cl'.commands)
        /\ toClient'.map = sv.map /\ toClient'.system = sv.system
  /\ UNCHANGED <<client, toServer, bound>>

\* SV_Frame is such a step.
LEMMA FrameIs ==
  ASSUME IInv, NEW send \in BOOLEAN, SV_Frame(send)
  PROVE  \E u : FrameStep(u, IF cl.state = "active" THEN "snapshot" ELSE "idle")
  <1> DEFINE s == IF sv.systemModified
                  THEN [sv EXCEPT !.system = sv.serverId, !.systemModified = FALSE,
                                  !.modified = @ \cup {"system"}]
                  ELSE sv
             u == Updates(s, cl)
             kind == IF cl.state = "active" THEN "snapshot" ELSE "idle"
  <1>1. sv \in Servers /\ cl \in ServedClients
    BY DEF IInv, Types
  <1>2. /\ s \in [map : Nat, serverId : Nat, restartedServerId : Nat, system : Nat,
                  systemModified : BOOLEAN, game : Values, modified : SUBSET {"system", "game"}]
        /\ s.map = sv.map /\ s.serverId = sv.serverId
        /\ s.restartedServerId = sv.restartedServerId /\ ~s.systemModified
        /\ s.system = IF sv.systemModified THEN sv.serverId ELSE sv.system
        /\ "system" \in s.modified <=> sv.systemModified
    <2>1. CASE sv.systemModified
      <3> DEFINE m == sv.modified \cup {"system"}
                 i == sv.serverId
      <3>1. m \in SUBSET {"system", "game"} /\ i \in Nat /\ "system" \in m
        BY <1>1 DEF Servers
      <3>2. s = [sv EXCEPT !.system = i, !.systemModified = FALSE, !.modified = m]
        BY <2>1
      <3> HIDE DEF m, s
      <3>3. /\ s \in [map : Nat, serverId : Nat, restartedServerId : Nat, system : Nat,
                      systemModified : BOOLEAN, game : Values,
                      modified : SUBSET {"system", "game"}]
            /\ s.map = sv.map /\ s.serverId = sv.serverId
            /\ s.restartedServerId = sv.restartedServerId /\ s.systemModified = FALSE
            /\ s.system = i /\ s.modified = m
        <4> HIDE DEF i
        <4> QED
          BY <3>1, <3>2, <1>1 DEF Servers
      <3> QED
        BY <3>1, <3>3, <2>1
    <2>2. CASE ~sv.systemModified
      BY <2>2, <1>1 DEF Servers
    <2> QED
      BY <2>1, <2>2
  <1>3. /\ sv' = [s EXCEPT !.modified = {}]
        /\ cl' = [cl EXCEPT !.commands = cl.commands \o u]
        /\ IF send THEN SV_SendClientSnapshot([cl EXCEPT !.commands = cl.commands \o u])
                   ELSE UNCHANGED toClient
        /\ UNCHANGED <<client, toServer, bound>>
    BY DEF SV_Frame
  <1> HIDE DEF s
  <1>4. /\ u \in Seq(Commands)
        /\ \A k \in 1 .. Len(u) : u[k].cs = "system" =>
             k = 1 /\ "system" \in s.modified /\ u[k].value = s.system
        /\ cl.state # "connected" /\ "system" \in s.modified =>
             Len(u) >= 1 /\ u[1] = [cs |-> "system", value |-> s.system]
    BY <1>1, <1>2, UpdatesAre
  <1> HIDE DEF u
  <1>5. /\ sv' \in Servers /\ sv'.map = sv.map /\ sv'.serverId = sv.serverId
        /\ sv'.restartedServerId = sv.restartedServerId /\ ~sv'.systemModified
        /\ sv'.system = IF sv.systemModified THEN sv.serverId ELSE sv.system
    BY <1>2, <1>3 DEF Servers
  <1>6. cl' \in ServedClients /\ cl'.commands = cl.commands \o u
        /\ cl'.state = cl.state /\ cl'.gamestates = cl.gamestates
    <2> DEFINE v == cl.commands \o u
    <2>1. v \in Seq(Commands)
      BY <1>1, <1>4 DEF ServedClients
    <2>2. cl' = [cl EXCEPT !.commands = v]
      BY <1>3
    <2> HIDE DEF v
    <2>3. cl' \in ServedClients /\ cl'.commands = v
          /\ cl'.state = cl.state /\ cl'.gamestates = cl.gamestates
      BY <2>1, <2>2, <1>1 DEF ServedClients
    <2> QED
      BY <2>3 DEF v
  <1>7. CASE send
    <2>1. toClient' = Message(cl', kind)
      BY <1>3, <1>6, <1>7 DEF SV_SendClientSnapshot
    <2> HIDE DEF kind
    <2>2. kind \in {"gamestate", "snapshot", "idle"} /\ kind # "gamestate"
      BY DEF kind
    <2>3. /\ toClient' \in ToClients /\ toClient'.kind = kind
          /\ toClient'.at = [gamestates |-> cl'.gamestates, later |-> kind # "gamestate"]
          /\ toClient'.commands = Len(cl'.commands)
          /\ toClient'.map = sv.map /\ toClient'.system = sv.system
      BY <1>1, <1>6, <2>1, <2>2, MessageType
    <2>4. (kind # "gamestate") = TRUE
      BY <2>2
    <2>5. FrameStep(u, kind)
      BY <1>2, <1>3, <1>4, <1>5, <1>6, <2>3, <2>4 DEF FrameStep
    <2> QED
      BY <2>5 DEF kind
  <1>8. CASE ~send
    <2> HIDE DEF kind
    <2>1. FrameStep(u, kind)
      BY <1>2, <1>3, <1>4, <1>5, <1>6, <1>8 DEF FrameStep
    <2> QED
      BY <2>1 DEF kind
  <1> QED
    BY <1>7, <1>8

\* A frame of the server.
LEMMA FrameHolds ==
  ASSUME IInv, NEW send \in BOOLEAN, SV_Frame(send)
  PROVE  IInv'
  <1>1. PICK u : FrameStep(u, IF cl.state = "active" THEN "snapshot" ELSE "idle")
    BY FrameIs
  <1> DEFINE kind == IF cl.state = "active" THEN "snapshot" ELSE "idle"
             M == cl'.commands
  <1> HIDE DEF kind
  <1>2. FrameStep(u, kind) /\ kind \in {"snapshot", "idle"} /\ kind # "gamestate"
        /\ (kind = "snapshot" => cl.state = "active")
    BY <1>1 DEF kind
  <1>3. /\ sv \in Servers /\ cl \in ServedClients /\ client \in Clients
        /\ sv' \in Servers /\ cl' \in ServedClients
    BY <1>2 DEF IInv, Types, FrameStep
  <1>4. /\ cl'.state = cl.state /\ cl'.gamestates = cl.gamestates /\ cl'.acked = cl.acked
        /\ cl'.lastClientCommand = cl.lastClientCommand /\ cl'.gotCP = cl.gotCP
        /\ cl'.stranded = cl.stranded /\ cl'.wrongMove = cl.wrongMove
        /\ M = cl.commands \o u
    BY <1>2, <1>3 DEF FrameStep, ServedClients
  <1>5. /\ cl.commands \in Seq(Commands) /\ u \in Seq(Commands)
        /\ Len(M) = Len(cl.commands) + Len(u)
        /\ Len(cl.commands) \in Nat /\ Len(u) \in Nat /\ Len(M) \in Nat
        /\ \A n \in 1 .. Len(cl.commands) : M[n] = cl.commands[n]
        /\ \A n \in 1 .. Len(M) : n > Len(cl.commands) =>
             n - Len(cl.commands) \in 1 .. Len(u) /\ M[n] = u[n - Len(cl.commands)]
    BY <1>2, <1>3, <1>4 DEF FrameStep, ServedClients
  <1>6. /\ sv'.map = sv.map /\ sv'.serverId = sv.serverId
        /\ sv'.restartedServerId = sv.restartedServerId /\ ~sv'.systemModified
        /\ sv'.system = IF sv.systemModified THEN sv.serverId ELSE sv.system
        /\ UNCHANGED <<client, toServer, bound>>
    BY <1>2 DEF FrameStep
  <1>7. \/ UNCHANGED toClient
        \/ /\ toClient' \in ToClients /\ toClient'.kind = kind
           /\ toClient'.at = [gamestates |-> cl.gamestates, later |-> TRUE]
           /\ toClient'.commands = Len(M)
           /\ toClient'.map = sv.map /\ toClient'.system = sv.system
    BY <1>2 DEF FrameStep
  <1>8. \A n \in 1 .. Len(M) : n > Len(cl.commands) /\ M[n].cs = "system" =>
          n = Len(cl.commands) + 1 /\ sv.systemModified /\ M[n].value = sv.serverId
    BY <1>2, <1>5 DEF FrameStep
  <1>9. \A n \in 1 .. Len(cl.commands) : M[n] = cl.commands[n]
    BY <1>5
  <1>10. Types'
    BY <1>3, <1>6, <1>7 DEF IInv, Types
  <1>11. Counted'
    <2>1. Counted
      BY DEF IInv
    <2>2. client.serverCommandSequence \in Nat /\ client.serverCommandSequence <= Len(M)
      BY <2>1, <1>3, <1>5 DEF Counted, Clients
    <2>3. toClient' # Nothing => /\ client.serverCommandSequence <= toClient'.commands
                                 /\ toClient'.commands <= Len(M)
      <3>1. toClient # Nothing => toClient.commands \in Nat
        BY DEF IInv, Types, ToClients
      <3>2. CASE UNCHANGED toClient
        BY <2>1, <3>1, <3>2, <1>5 DEF Counted
      <3>3. CASE toClient'.commands = Len(M)
        BY <2>2, <3>3, <1>5
      <3> QED
        BY <3>2, <3>3, <1>7
    <2> HIDE DEF M
    <2>4. cl'.commands = M
      BY DEF M
    <2> QED
      BY <2>1, <2>2, <2>3, <2>4, <1>4, <1>6 DEF Counted
  <1>12. Ordered'
    BY <1>2, <1>3, <1>4, <1>6, <1>7 DEF IInv, Ordered
  <1>13. IdsGrow'
    <2>1. sv.system <= sv.serverId /\ sv.restartedServerId <= sv.system
          /\ \A n \in 1 .. Len(cl.commands) : cl.commands[n].cs = "system" =>
                /\ cl.commands[n].value <= sv.serverId
                /\ \A k \in n .. Len(cl.commands) : cl.commands[k].cs = "system" =>
                     cl.commands[n].value <= cl.commands[k].value
      BY DEF IInv, IdsGrow
    <2>2. \A n \in 1 .. Len(M) : M[n].cs = "system" =>
             /\ M[n].value <= sv.serverId
             /\ \A k \in n .. Len(M) : M[k].cs = "system" => M[n].value <= M[k].value
      <3> SUFFICES ASSUME NEW n \in 1 .. Len(M), M[n].cs = "system"
                   PROVE  /\ M[n].value <= sv.serverId
                          /\ \A k \in n .. Len(M) : M[k].cs = "system" => M[n].value <= M[k].value
        OBVIOUS
      <3>1. sv.serverId \in Nat
        BY <1>3 DEF Servers
      <3>2. CASE n <= Len(cl.commands)
        <4>1. n \in 1 .. Len(cl.commands) /\ M[n] = cl.commands[n]
          BY <3>2, <1>5
        <4>2. M[n].value <= sv.serverId
          BY <4>1, <2>1
        <4>3. ASSUME NEW k \in n .. Len(M), M[k].cs = "system"
              PROVE  M[n].value <= M[k].value
          <5>1. CASE k <= Len(cl.commands)
            BY <5>1, <4>1, <4>3, <2>1, <1>5
          <5>2. CASE k > Len(cl.commands)
            BY <5>2, <4>2, <4>3, <1>5, <1>8
          <5> QED
            BY <5>1, <5>2, <1>5
        <4> QED
          BY <4>2, <4>3
      <3>3. CASE n > Len(cl.commands)
        <4>1. n = Len(cl.commands) + 1 /\ M[n].value = sv.serverId
          BY <3>3, <1>8
        <4>2. ASSUME NEW k \in n .. Len(M), M[k].cs = "system"
              PROVE  M[n].value <= M[k].value
          BY <4>1, <4>2, <3>1, <1>5, <1>8
        <4> QED
          BY <4>1, <4>2, <3>1
      <3> QED
        BY <3>2, <3>3, <1>5
    <2>3. /\ sv'.restartedServerId <= sv'.system /\ sv'.system <= sv'.serverId
      BY <2>1, <1>3, <1>6 DEF Servers
    <2>4. toClient' # Nothing =>
             /\ toClient'.map <= sv.map /\ toClient'.system <= sv.serverId
             /\ toClient'.kind = "gamestate" =>
                  ((toClient'.map = sv.map) <=> (toClient'.system >= sv.restartedServerId))
      BY <2>1, <1>2, <1>3, <1>7 DEF IInv, IdsGrow, OfThisMap, Servers
    <2> QED
      BY <2>2, <2>3, <2>4, <1>6 DEF IInv, IdsGrow, OfThisMap
  <1>14. HasThisMap'
    BY <1>4, <1>6 DEF IInv, HasThisMap
  <1>15. Entering' /\ Connected'
    <2>1. Waiting => ~sv.systemModified /\ \A n \in 1 .. Len(cl.commands) :
             cl.commands[n].cs = "system" => cl.commands[n].value < sv.restartedServerId
      BY DEF IInv, Entering
    <2>2. Waiting => \A n \in 1 .. Len(M) :
             M[n].cs = "system" => M[n].value < sv.restartedServerId
      <3> SUFFICES ASSUME Waiting, NEW n \in 1 .. Len(M), M[n].cs = "system"
                   PROVE  M[n].value < sv.restartedServerId
        OBVIOUS
      <3>1. n <= Len(cl.commands)
        BY <2>1, <1>5, <1>8
      <3>2. n \in 1 .. Len(cl.commands) /\ M[n] = cl.commands[n]
        BY <3>1, <1>5
      <3> QED
        BY <2>1, <3>2
    <2>3. Waiting => (toClient' # Nothing /\ toClient'.map = sv.map => toClient'.kind # "snapshot")
      BY <1>2, <1>7 DEF IInv, Entering, Waiting
    <2>4. Entering'
      BY <2>1, <2>2, <2>3, <1>4, <1>6 DEF IInv, Entering, OfThisMap, Waiting
    <2>5. Connected'
      BY <1>2, <1>4, <1>6, <1>7 DEF IInv, Connected
    <2> QED
      BY <2>4, <2>5
  <1>16. WaitsForThisMap'
    BY <1>4, <1>6, <1>7 DEF IInv, WaitsForThisMap
  <1>17. InThisWorld'
    <2>1. ASSUME NEW n \in Nat, n <= Len(cl.commands), Refreshed(n)
          PROVE  Refreshed(n)'
      BY <2>1, <1>5, <1>6 DEF Refreshed
    <2>2. ASSUME cl.state = "active", sv.systemModified
          PROVE  Refreshed(Len(cl.commands))'
      <3> DEFINE k == Len(cl.commands) + 1
      <3>1. Len(u) >= 1 /\ u[1] = [cs |-> "system", value |-> sv.serverId]
        BY <2>2, <1>2 DEF FrameStep
      <3>2. k \in 1 .. Len(M) /\ k > Len(cl.commands) /\ k - Len(cl.commands) = 1
        BY <3>1, <1>5
      <3>3. M[k] = u[1]
        BY <3>2, <1>5
      <3>4. M[k].cs = "system" /\ M[k].value = sv.serverId
        BY <3>1, <3>3
      <3>5. sv.serverId >= sv.restartedServerId
        BY <1>3 DEF IInv, IdsGrow, Servers
      <3> HIDE DEF k
      <3> QED
        BY <3>2, <3>4, <3>5, <1>6 DEF Refreshed
    <2>3. Refreshed(Len(cl.commands)) => Refreshed(Len(cl.commands))'
      BY <1>5, <1>6 DEF Refreshed
    <2>4. client.snap # 0 /\ Refreshed(client.snap) => Refreshed(client.snap)'
      <3>1. client.snap \in Nat /\ client.snap <= Len(cl.commands)
        BY <1>3, <1>5 DEF IInv, Counted, Clients
      <3>2. client' = client /\ sv'.restartedServerId = sv.restartedServerId
        BY <1>6
      <3>3. \A k \in 1 .. client.snap : cl'.commands[k] = cl.commands[k]
        BY <3>1, <1>5
      <3> QED
        BY <3>2, <3>3 DEF Refreshed
    <2>5. toClient # Nothing /\ UNCHANGED toClient /\ Refreshed(toClient.commands)
             => Refreshed(toClient.commands)'
      <3>1. toClient # Nothing => toClient.commands \in Nat /\ toClient.commands <= Len(cl.commands)
        BY <1>3, <1>5 DEF IInv, Types, Counted, ToClients
      <3> QED
        BY <3>1, <1>5, <1>6 DEF Refreshed
    <2>6. toClient'.commands = Len(M) /\ Refreshed(Len(cl.commands))'
             => Refreshed(toClient.commands)'
      BY DEF Refreshed
    <2>7. InThisWorld
      BY DEF IInv
    <2>8. CASE cl.state = "active" /\ ~cl.stranded
      <3>1. ~cl.gotCP => Refreshed(Len(cl.commands))'
        BY <2>2, <2>3, <2>7, <2>8 DEF InThisWorld
      <3>2. ~cl.gotCP /\ toClient' # Nothing /\ toClient'.kind = "snapshot"
              => Refreshed(toClient.commands)'
        BY <3>1, <2>5, <2>6, <2>7, <2>8, <1>7 DEF InThisWorld
      <3>3. toClient' # Nothing => toClient'.map = sv.map
        BY <2>7, <2>8, <1>7 DEF InThisWorld
      <3> QED
        BY <3>1, <3>2, <3>3, <2>4, <2>7, <2>8, <1>4, <1>6 DEF InThisWorld
    <2> QED
      BY <2>8, <1>4 DEF InThisWorld
  <1>18. Heard' /\ Excused'
    BY <1>4, <1>6 DEF IInv, Heard, Excused, Waiting
  <1> QED
    BY <1>10, <1>11, <1>12, <1>13, <1>14, <1>15, <1>16, <1>17, <1>18 DEF IInv

\* A new map: what the client knows is of an older one.
LEMMA SpawnServerHolds ==
  ASSUME IInv, SV_SpawnServer
  PROVE  IInv'
  <1> DEFINE kind == IF cl.state = "active" THEN "snapshot" ELSE "idle"
             i == sv.serverId + 1
             m == sv.map + 1
             v == Value(m, 0)
             n == bound.spawns - 1
  <1>1. /\ sv \in Servers /\ cl \in ServedClients /\ client \in Clients
        /\ bound \in [spawns : Nat, restarts : Nat, changes : Nat]
    BY DEF IInv, Types
  <1>2. i \in Nat /\ m \in Nat /\ v \in Values /\ n \in Nat
    BY <1>1 DEF SV_SpawnServer, Servers, Value, Values
  <1>3. /\ sv' = [map |-> m, serverId |-> i, restartedServerId |-> i, system |-> i,
                  systemModified |-> FALSE, game |-> v, modified |-> {}]
        /\ cl' = [cl EXCEPT !.state = "connected"]
        /\ bound' = [bound EXCEPT !.spawns = n]
        /\ toClient' = Message(cl, kind)
        /\ UNCHANGED <<client, toServer>>
    BY DEF SV_SpawnServer, Time, SV_SendClientSnapshot
  <1> HIDE DEF kind, v, n
  <1>4. kind \in {"gamestate", "snapshot", "idle"} /\ kind # "gamestate"
    BY DEF kind
  <1>5. sv' \in Servers /\ bound' \in [spawns : Nat, restarts : Nat, changes : Nat]
    <2> HIDE DEF i, m
    <2> QED
      BY <1>1, <1>2, <1>3 DEF Servers
  <1>6. /\ sv'.map = sv.map + 1 /\ sv'.serverId = sv.serverId + 1
        /\ sv'.restartedServerId = sv.serverId + 1 /\ sv'.system = sv.serverId + 1
        /\ ~sv'.systemModified /\ sv.map \in Nat /\ sv.serverId \in Nat
    BY <1>1, <1>3 DEF Servers
  <1>7. /\ cl' \in ServedClients /\ cl'.state = "connected"
        /\ cl'.gamestates = cl.gamestates /\ cl'.commands = cl.commands
        /\ cl'.lastClientCommand = cl.lastClientCommand /\ cl'.gotCP = cl.gotCP
        /\ cl'.stranded = cl.stranded /\ cl'.wrongMove = cl.wrongMove
    BY <1>1, <1>3 DEF ServedClients
  <1>8. /\ toClient' \in ToClients /\ toClient'.kind = kind
        /\ toClient'.at = [gamestates |-> cl.gamestates, later |-> kind # "gamestate"]
        /\ toClient'.commands = Len(cl.commands)
        /\ toClient'.map = sv.map /\ toClient'.system = sv.system
    BY <1>1, <1>3, <1>4, MessageType
  <1> HIDE DEF i, m
  <1>9. Types'
    BY <1>3, <1>5, <1>7, <1>8 DEF IInv, Types
  <1>10. Counted' /\ Ordered'
    <2>1. client.serverCommandSequence \in Nat /\ Len(cl.commands) \in Nat
      BY <1>1 DEF Clients, ServedClients
    <2> QED
      BY <2>1, <1>3, <1>4, <1>7, <1>8 DEF IInv, Counted, Ordered
  <1>11. /\ client.map \in Nat /\ client.serverId \in Nat
         /\ \A k \in 1 .. Len(client.cps) : client.cps[k].map \in Nat /\ client.cps[k].serverId \in Nat
         /\ toServer # Nothing => toServer.map \in Nat /\ toServer.serverId \in Nat
         /\ sv.system \in Nat /\ sv.restartedServerId \in Nat
         /\ toServer # Nothing => toServer.cps \in Seq(CPs)
         /\ \A k \in 1 .. Len(cl.commands) :
              cl.commands[k].cs = "system" => cl.commands[k].value \in Nat
    <2>1. client.cps \in Seq(CPs) /\ cl.commands \in Seq(Commands)
      BY <1>1 DEF Clients, ServedClients
    <2> QED
      BY <1>1, <2>1, CPNumbers, CommandNumbers DEF IInv, Types, Clients, Packets, Servers
  <1>12. IdsGrow'
    <2>1. /\ client.serverId <= sv.serverId /\ client.map <= sv.map /\ sv.system <= sv.serverId
          /\ \A k \in 1 .. Len(client.cps) : /\ client.cps[k].map <= sv.map
                                             /\ client.cps[k].serverId <= sv.serverId
          /\ toServer # Nothing => toServer.serverId <= sv.serverId /\ toServer.map <= sv.map
          /\ \A k \in 1 .. Len(cl.commands) : cl.commands[k].cs = "system" =>
               /\ cl.commands[k].value <= sv.serverId
               /\ \A j \in k .. Len(cl.commands) : cl.commands[j].cs = "system" =>
                    cl.commands[k].value <= cl.commands[j].value
      BY DEF IInv, IdsGrow
    <2>2. \A k \in 1 .. Len(cl.commands) : cl.commands[k].cs = "system" =>
             cl.commands[k].value <= sv.serverId + 1
      BY <2>1, <1>6, <1>11
    <2>3. \A k \in 1 .. Len(client.cps) :
            /\ client.cps[k].map <= sv.map + 1 /\ client.cps[k].serverId <= sv.serverId + 1
            /\ ~(client.cps[k].map = sv.map + 1) /\ ~(client.cps[k].serverId >= sv.serverId + 1)
      BY <2>1, <1>6, <1>11
    <2>4. /\ client.serverId <= sv.serverId + 1 /\ client.map <= sv.map + 1
          /\ ~(client.map = sv.map + 1) /\ ~(client.serverId >= sv.serverId + 1)
          /\ toServer # Nothing => /\ toServer.serverId <= sv.serverId + 1
                                   /\ toServer.map <= sv.map + 1
          /\ sv.map <= sv.map + 1 /\ sv.system <= sv.serverId + 1
      BY <2>1, <1>6, <1>11
    <2> QED
      BY <2>1, <2>2, <2>3, <2>4, <1>3, <1>4, <1>6, <1>7, <1>8 DEF IdsGrow, OfThisMap
  <1>13. /\ client.map # sv'.map
         /\ toServer # Nothing => /\ toServer.map # sv'.map
                                  /\ toServer.serverId < sv'.restartedServerId
         /\ client.serverId < sv'.restartedServerId
         /\ \A k \in 1 .. Len(client.cps) : client.cps[k].map # sv'.map
         /\ \A k \in 1 .. Len(cl.commands) :
              cl.commands[k].cs = "system" => cl.commands[k].value < sv'.restartedServerId
    BY <1>6, <1>11 DEF IInv, IdsGrow
  <1>14. HasThisMap'
    <2>1. toServer # Nothing => \A k \in 1 .. Len(toServer.cps) :
            toServer.cps[k].map # sv'.map
      <3> SUFFICES ASSUME toServer # Nothing, NEW k \in 1 .. Len(toServer.cps)
                   PROVE  toServer.cps[k].map # sv'.map
        OBVIOUS
      <3>1. /\ Len(toServer.cps) \in Nat /\ Len(client.cps) \in Nat
            /\ Len(toServer.cps) <= Len(client.cps) /\ toServer.cps[k] = client.cps[k]
        <4>1. client.cps \in Seq(CPs) /\ toServer.cps \in Seq(CPs)
          BY <1>1, <1>11 DEF Clients
        <4>2. Len(toServer.cps) <= Len(client.cps) /\ toServer.cps[k] = client.cps[k]
          BY DEF IInv, Counted
        <4> QED
          BY <4>1, <4>2
      <3>2. k \in 1 .. Len(client.cps)
        BY <3>1
      <3> QED
        BY <3>1, <3>2, <1>13
    <2> QED
      BY <2>1, <1>3, <1>13 DEF HasThisMap
  <1>15. Entering' /\ Connected'
    BY <1>3, <1>4, <1>6, <1>7, <1>8, <1>11, <1>13 DEF Entering, Connected, OfThisMap, Waiting
  <1>16. WaitsForThisMap' /\ InThisWorld' /\ Heard'
    <2>1. client.cps \in Seq(CPs) /\ cl.lastClientCommand \in Nat
          /\ cl.lastClientCommand <= Len(client.cps)
      BY <1>1 DEF IInv, Counted, Clients, ServedClients
    <2>2. \A k \in 1 .. cl.lastClientCommand : k \in 1 .. Len(client.cps)
      BY <2>1
    <2> QED
      BY <2>2, <1>3, <1>7, <1>13 DEF WaitsForThisMap, InThisWorld, Heard
  <1>17. Excused'
    BY <1>7 DEF IInv, Excused
  <1> QED
    BY <1>9, <1>10, <1>12, <1>14, <1>15, <1>16, <1>17 DEF IInv

\* A restart of the map.
LEMMA MapRestartHolds ==
  ASSUME IInv, SV_MapRestart
  PROVE  IInv'
  <1> DEFINE i == sv.serverId + 1
             b == cl.stranded \/ (cl.state # "active" /\ client.map # sv.map)
             n == bound.restarts - 1
  <1>1. /\ sv \in Servers /\ cl \in ServedClients /\ client \in Clients
        /\ bound \in [spawns : Nat, restarts : Nat, changes : Nat]
    BY DEF IInv, Types
  <1>2. i \in Nat /\ b \in BOOLEAN /\ n \in Nat
    BY <1>1 DEF SV_MapRestart, Servers, ServedClients
  <1>3. /\ sv' = [sv EXCEPT !.serverId = i, !.systemModified = TRUE]
        /\ cl' = [cl EXCEPT !.state = "active", !.stranded = b]
        /\ bound' = [bound EXCEPT !.restarts = n]
        /\ cl.state # "dropped"
        /\ UNCHANGED <<client, toClient, toServer>>
    BY DEF SV_MapRestart, Time
  <1>4. /\ sv' \in Servers /\ bound' \in [spawns : Nat, restarts : Nat, changes : Nat]
        /\ sv'.map = sv.map /\ sv'.serverId = i /\ sv'.system = sv.system
        /\ sv'.restartedServerId = sv.restartedServerId /\ sv'.systemModified
    <2> HIDE DEF i, n, b
    <2> QED
      BY <1>1, <1>2, <1>3 DEF Servers
  <1>5. /\ cl' \in ServedClients /\ cl'.state = "active" /\ cl'.stranded = b
        /\ cl'.gamestates = cl.gamestates /\ cl'.commands = cl.commands
        /\ cl'.lastClientCommand = cl.lastClientCommand /\ cl'.gotCP = cl.gotCP
        /\ cl'.wrongMove = cl.wrongMove
    <2> HIDE DEF i, n, b
    <2> QED
      BY <1>1, <1>2, <1>3 DEF ServedClients
  <1>6. Types'
    BY <1>3, <1>4, <1>5 DEF IInv, Types
  <1>7. Counted' /\ Ordered' /\ HasThisMap'
    BY <1>3, <1>4, <1>5 DEF IInv, Counted, Ordered, HasThisMap
  <1>8. IdsGrow'
    <2>1. ASSUME NEW k \in Nat, k <= sv.serverId
          PROVE  k <= sv'.serverId
      BY <2>1, <1>1, <1>4 DEF Servers
    <2>2. /\ sv.system \in Nat /\ client.serverId \in Nat
          /\ client.cps \in Seq(CPs) /\ cl.commands \in Seq(Commands)
          /\ toServer # Nothing => toServer.serverId \in Nat
          /\ toClient # Nothing => toClient.system \in Nat
      BY <1>1 DEF IInv, Types, Servers, Clients, ServedClients, Packets, ToClients
    <2>3. /\ \A k \in 1 .. Len(client.cps) : client.cps[k].serverId \in Nat
          /\ \A k \in 1 .. Len(cl.commands) :
               cl.commands[k].cs = "system" => cl.commands[k].value \in Nat
      BY <2>2, CPNumbers, CommandNumbers
    <2>4. /\ sv'.system <= sv'.serverId /\ client.serverId <= sv'.serverId
          /\ \A k \in 1 .. Len(client.cps) : client.cps[k].serverId <= sv'.serverId
          /\ toServer # Nothing => toServer.serverId <= sv'.serverId
          /\ toClient # Nothing => toClient.system <= sv'.serverId
          /\ \A k \in 1 .. Len(cl.commands) :
               cl.commands[k].cs = "system" => cl.commands[k].value <= sv'.serverId
      BY <2>1, <2>2, <2>3, <1>4 DEF IInv, IdsGrow
    <2> QED
      BY <2>4, <1>3, <1>4, <1>5 DEF IInv, IdsGrow, OfThisMap
  <1>9. Entering' /\ Connected' /\ WaitsForThisMap'
    BY <1>5 DEF Entering, Connected, WaitsForThisMap, Waiting
  <1>10. InThisWorld'
    <2>1. CASE cl.state = "active"
      <3>1. b = cl.stranded
        BY <2>1, <1>1 DEF ServedClients
      <3> QED
        BY <3>1, <2>1, <1>3, <1>4, <1>5 DEF IInv, InThisWorld, Refreshed
    <2>2. CASE cl.state # "active" /\ b
      BY <2>2, <1>5 DEF InThisWorld
    <2>3. CASE cl.state # "active" /\ ~b
      <3>1. Waiting /\ client.map = sv.map
        BY <2>3, <1>1, <1>3 DEF Waiting, ServedClients
      <3>2. cl.state = "primed"
        BY <3>1 DEF IInv, Connected, Waiting
      <3>3. /\ sv.serverId = sv.restartedServerId
            /\ OfThisMap(client.map, client.serverId)
            /\ client.snap = 0
            /\ toServer # Nothing => OfThisMap(toServer.map, toServer.serverId)
            /\ toClient # Nothing /\ toClient.map = sv.map => toClient.kind # "snapshot"
            /\ toClient # Nothing => toClient.map = sv.map
        BY <3>1, <3>2 DEF IInv, Entering, WaitsForThisMap
      <3>4. toServer # Nothing => toServer.serverId \in Nat /\ sv.restartedServerId \in Nat
        BY <1>1 DEF IInv, Types, Packets, Servers
      <3>5. toServer # Nothing /\ toServer.map # sv.map =>
              toServer.serverId < sv.restartedServerId
        BY <3>3, <3>4 DEF OfThisMap
      <3> QED
        BY <3>1, <3>3, <3>5, <1>3, <1>4, <1>5 DEF InThisWorld, OfThisMap
    <2> QED
      BY <2>1, <2>2, <2>3
  <1>11. Heard'
    <2>1. CASE b
      BY <2>1, <1>5 DEF Heard, Waiting
    <2>2. CASE ~b
      <3>1. Waiting \/ (cl.state = "active" /\ ~cl.stranded)
        BY <2>2, <1>1, <1>3 DEF Waiting, ServedClients
      <3> QED
        BY <3>1, <1>3, <1>4, <1>5 DEF IInv, Heard
    <2> QED
      BY <2>1, <2>2
  <1>12. Excused'
    BY <1>5 DEF IInv, Excused
  <1> QED
    BY <1>6, <1>7, <1>8, <1>9, <1>10, <1>11, <1>12 DEF IInv

----------------------------------------------------------------------------
(* The client.                                                             *)

\* The client takes a message of the server.
LEMMA ParseServerMessageHolds ==
  ASSUME IInv, CL_ParseServerMessage
  PROVE  IInv'
  <1>1. /\ sv \in Servers /\ cl \in ServedClients /\ client \in Clients
        /\ toClient # Nothing /\ toClient \in ToClients
    BY DEF IInv, Types, CL_ParseServerMessage
  <1>2. UNCHANGED <<sv, cl, toServer, bound>> /\ toClient' = Nothing
    BY DEF CL_ParseServerMessage
  <1>3. /\ toClient.at \in Acked /\ toClient.commands \in Nat /\ toClient.map \in Nat
        /\ toClient.system \in Nat /\ toClient.game \in Values
        /\ toClient.kind \in {"gamestate", "snapshot", "idle"}
    BY <1>1 DEF ToClients
  <1>4. CASE toClient.kind = "gamestate"
    <2> DEFINE b == client.stale \/ \E n \in client.lastExecuted + 1 .. toClient.commands :
                             cl.commands[n] \notin {[cs |-> "system", value |-> toClient.system],
                                                    [cs |-> "game", value |-> toClient.game]}
               at == toClient.at
               m == toClient.commands
               map == toClient.map
               id == toClient.system
               g == toClient.game
    <2>1. b \in BOOLEAN
      BY <1>1 DEF Clients
    <2>2. client' = [client EXCEPT !.acked = at, !.serverCommandSequence = m,
                                   !.state = "loading", !.map = map, !.serverId = id,
                                   !.game = g, !.snap = 0, !.newSnapshots = FALSE, !.stale = b]
      <3> DEFINE c == [client EXCEPT !.acked = at, !.serverCommandSequence = m]
      <3>1. client' = CL_ParseGamestate(c, toClient)
        BY <1>4 DEF CL_ParseServerMessage
      <3>2. c.stale = client.stale /\ c.lastExecuted = client.lastExecuted
        BY <1>1 DEF Clients
      <3>3. client' = [c EXCEPT !.state = "loading", !.map = map, !.serverId = id,
                                !.game = g, !.snap = 0, !.newSnapshots = FALSE, !.stale = b]
        BY <3>1, <3>2 DEF CL_ParseGamestate
      <3> HIDE DEF b, at, m, map, id, g
      <3> QED
        BY <3>3, <1>1 DEF Clients
    <2>3. /\ client' \in Clients /\ client'.acked = at /\ client'.serverCommandSequence = m
          /\ client'.state = "loading" /\ client'.map = map /\ client'.serverId = id
          /\ client'.snap = 0 /\ client'.newSnapshots = FALSE
          /\ client'.cps = client.cps /\ client'.lastExecuted = client.lastExecuted
      <3>1. /\ at \in Acked /\ m \in Nat /\ map \in Nat /\ id \in Nat /\ g \in Values
        BY <1>3
      <3> HIDE DEF b, at, m, map, id, g
      <3> QED
        BY <3>1, <2>1, <2>2, <1>1 DEF Clients
    <2>4. /\ at.gamestates = cl.gamestates /\ at.later = FALSE
          /\ client.acked.gamestates # cl.gamestates
          /\ toServer # Nothing =>
               toServer.acked # [gamestates |-> cl.gamestates, later |-> TRUE]
      <3> DEFINE later == toClient.kind # "gamestate"
      <3>1. later = FALSE
        BY <1>4
      <3>2. /\ at = [gamestates |-> cl.gamestates, later |-> later]
            /\ client.acked.gamestates # cl.gamestates
            /\ toServer # Nothing /\ toServer.acked = [gamestates |-> cl.gamestates, later |-> TRUE]
                 => client.acked = toServer.acked
        BY <1>1, <1>4 DEF IInv, Ordered
      <3> HIDE DEF later, at
      <3> QED
        BY <3>1, <3>2
    <2>5. client.map # sv.map
      BY <2>4 DEF IInv, HasThisMap
    <2>6. Types'
      BY <1>2, <2>3 DEF IInv, Types
    <2>7. Counted'
      <3>1. Counted /\ client.lastExecuted \in Nat /\ client.serverCommandSequence \in Nat
            /\ Len(cl.commands) \in Nat
        BY <1>1 DEF IInv, Clients, ServedClients
      <3> QED
        BY <3>1, <1>1, <1>2, <1>3, <2>3 DEF Counted
    <2>8. Ordered'
      BY <1>2, <2>3, <2>4 DEF IInv, Ordered
    <2>9. IdsGrow'
      BY <1>1, <1>2, <1>4, <2>3 DEF IInv, IdsGrow, OfThisMap
    <2>10. HasThisMap'
      BY <1>2, <2>3, <2>4, <2>5 DEF IInv, HasThisMap
    <2>11. Entering' /\ Connected'
      <3>1. OfThisMap(map, id)
        BY <1>1, <1>4 DEF IInv, IdsGrow
      <3> QED
        BY <3>1, <1>1, <1>2, <1>4, <2>3 DEF IInv, Entering, Connected, OfThisMap, Waiting
    <2>12. WaitsForThisMap'
      BY <1>1, <1>2, <2>3, <2>4 DEF IInv, WaitsForThisMap
    <2>13. InThisWorld'
      BY <1>2, <2>5 DEF IInv, InThisWorld
    <2>14. Heard' /\ Excused'
      BY <1>2, <2>3 DEF IInv, Heard, Excused, Waiting
    <2> QED
      BY <2>6, <2>7, <2>8, <2>9, <2>10, <2>11, <2>12, <2>13, <2>14 DEF IInv
  <1>5. CASE toClient.kind # "gamestate"
    <2> DEFINE s == IF toClient.kind = "snapshot" THEN toClient.commands ELSE client.snap
               b == IF toClient.kind = "snapshot" THEN TRUE ELSE client.newSnapshots
               at == toClient.at
               m == toClient.commands
    <2>1. s \in Nat /\ b \in BOOLEAN
      BY <1>1, <1>3 DEF Clients
    <2>2. client' = [client EXCEPT !.acked = at, !.serverCommandSequence = m,
                                   !.snap = s, !.newSnapshots = b]
      <3>1. CASE toClient.kind = "snapshot"
        BY <3>1, <1>1 DEF CL_ParseServerMessage, Clients
      <3>2. CASE toClient.kind # "snapshot"
        BY <3>2, <1>1, <1>5 DEF CL_ParseServerMessage, Clients
      <3> QED
        BY <3>1, <3>2
    <2>3. /\ client' \in Clients /\ client'.acked = at /\ client'.serverCommandSequence = m
          /\ client'.snap = s /\ client'.newSnapshots = b
          /\ client'.state = client.state /\ client'.map = client.map
          /\ client'.serverId = client.serverId
          /\ client'.cps = client.cps /\ client'.lastExecuted = client.lastExecuted
      <3>1. at \in Acked /\ m \in Nat
        BY <1>3
      <3> HIDE DEF s, b, at, m
      <3> QED
        BY <3>1, <2>1, <2>2, <1>1 DEF Clients
    <2>4. at.gamestates = cl.gamestates /\ at.later = TRUE
          /\ at = [gamestates |-> cl.gamestates, later |-> TRUE]
      <3> DEFINE later == toClient.kind # "gamestate"
      <3>1. later = TRUE
        BY <1>5
      <3>2. at = [gamestates |-> cl.gamestates, later |-> later]
        BY <1>1 DEF IInv, Ordered
      <3> HIDE DEF later, at
      <3> QED
        BY <3>1, <3>2
    <2>5. Types'
      BY <1>2, <2>3 DEF IInv, Types
    <2>6. Counted'
      <3>1. Counted /\ client.lastExecuted \in Nat /\ client.serverCommandSequence \in Nat
            /\ Len(cl.commands) \in Nat /\ client.snap \in Nat
        BY <1>1 DEF IInv, Clients, ServedClients
      <3> QED
        BY <3>1, <1>1, <1>2, <1>3, <2>3 DEF Counted
    <2>7. Ordered'
      BY <1>2, <2>3, <2>4 DEF IInv, Ordered
    <2>8. IdsGrow' /\ HasThisMap'
      BY <1>2, <2>3, <2>4 DEF IInv, IdsGrow, OfThisMap, HasThisMap
    <2>9. Entering' /\ Connected'
      <3>1. Waiting /\ client.map = sv.map => toClient.map = sv.map
        BY <1>1 DEF IInv, Connected, WaitsForThisMap, Waiting
      <3>2. Waiting /\ client.map = sv.map => toClient.kind # "snapshot"
        BY <3>1, <1>1 DEF IInv, Entering
      <3> QED
        BY <3>2, <1>2, <2>3 DEF IInv, Entering, Connected, OfThisMap, Waiting
    <2>10. WaitsForThisMap'
      BY <1>2, <2>3, <2>4 DEF IInv, WaitsForThisMap
    <2>11. InThisWorld'
      <3>1. cl.state = "active" /\ ~cl.stranded /\ ~cl.gotCP =>
               /\ toClient.kind = "snapshot" => Refreshed(toClient.commands)
               /\ client.snap # 0 => Refreshed(client.snap)
        BY <1>1 DEF IInv, InThisWorld
      <3>2. cl.state = "active" /\ ~cl.stranded /\ ~cl.gotCP =>
               (s # 0 => Refreshed(s))
        BY <3>1
      <3>3. Refreshed(s) => Refreshed(client.snap)'
        BY <1>2, <2>3 DEF Refreshed
      <3>4. Refreshed(Len(cl.commands)) => Refreshed(Len(cl.commands))'
        BY <1>2 DEF Refreshed
      <3> HIDE DEF s, b, at, m
      <3> QED
        BY <3>2, <3>3, <3>4, <1>2, <2>3 DEF IInv, InThisWorld
    <2>12. Heard' /\ Excused'
      BY <1>2, <2>3 DEF IInv, Heard, Excused, Waiting
    <2> QED
      BY <2>5, <2>6, <2>7, <2>8, <2>9, <2>10, <2>11, <2>12 DEF IInv
  <1> QED
    BY <1>4, <1>5

\* The map is loaded: a "cp" for it is added and sent.
LEMMA DownloadsCompleteHolds ==
  ASSUME IInv, CL_DownloadsComplete
  PROVE  IInv'
  <1> DEFINE cp == [serverId |-> client.serverId, map |-> client.map]
             v == Append(client.cps, cp)
             c == [client EXCEPT !.state = "primed", !.cps = v]
  <1>1. /\ sv \in Servers /\ cl \in ServedClients /\ client \in Clients
        /\ client.cps \in Seq(CPs) /\ Len(client.cps) \in Nat
        /\ client.serverId \in Nat /\ client.map \in Nat
    BY DEF IInv, Types, Clients
  <1>2. cp \in CPs /\ cp.serverId = client.serverId /\ cp.map = client.map
    BY <1>1 DEF CPs
  <1>3. /\ client' = c /\ toServer' = [Packet(c) EXCEPT !.move = FALSE]
        /\ client.state = "loading"
        /\ UNCHANGED <<sv, cl, toClient, bound>>
    BY DEF CL_DownloadsComplete
  <1> HIDE DEF cp
  <1>4. /\ v \in Seq(CPs) /\ Len(v) = Len(client.cps) + 1 /\ v[Len(v)] = cp
        /\ \A n \in 1 .. Len(client.cps) : v[n] = client.cps[n]
    BY <1>1, <1>2
  <1> HIDE DEF v
  <1>5. /\ client' \in Clients /\ client'.state = "primed" /\ client'.cps = v
        /\ client'.map = client.map /\ client'.serverId = client.serverId
        /\ client'.acked = client.acked /\ client'.snap = client.snap
        /\ client'.serverCommandSequence = client.serverCommandSequence
        /\ client'.lastExecuted = client.lastExecuted
        /\ client'.newSnapshots = client.newSnapshots
    BY <1>1, <1>3, <1>4 DEF Clients
  <1> HIDE DEF c
  <1>6. /\ toServer' \in Packets
        /\ toServer'.serverId = client.serverId /\ toServer'.acked = client.acked
        /\ toServer'.cps = v /\ toServer'.map = client.map /\ ~toServer'.move
    <2>1. /\ Packet(c) \in Packets /\ Packet(c).serverId = c.serverId
          /\ Packet(c).acked = c.acked /\ Packet(c).cps = c.cps /\ Packet(c).map = c.map
      BY <1>3, <1>5, PacketType
    <2> QED
      BY <2>1, <1>3, <1>5 DEF Packets
  <1>7. Types'
    BY <1>3, <1>5, <1>6 DEF IInv, Types
  <1>8. Counted' /\ Ordered'
    <2>1. cl.lastClientCommand \in Nat /\ cl.lastClientCommand <= Len(client.cps)
      BY <1>1 DEF IInv, Counted, ServedClients
    <2>2. cl.lastClientCommand <= Len(v) /\ Len(v) <= Len(v)
      BY <2>1, <1>1, <1>4
    <2> QED
      BY <2>2, <1>3, <1>5, <1>6 DEF IInv, Counted, Ordered
  <1>9. \A n \in 1 .. Len(v) : v[n].map \in Nat /\ (n \in 1 .. Len(client.cps) \/ v[n] = cp)
    <2> SUFFICES ASSUME NEW n \in 1 .. Len(v)
                 PROVE  v[n].map \in Nat /\ (n \in 1 .. Len(client.cps) \/ v[n] = cp)
      OBVIOUS
    <2>1. v[n].map \in Nat
      BY <1>4, CPNumbers
    <2>2. n \in 1 .. Len(client.cps) \/ n = Len(v)
      BY <1>1, <1>4
    <2> QED
      BY <2>1, <2>2, <1>4
  <1>10. OfThisMap(client.map, client.serverId) /\ client.map <= sv.map
         /\ client.serverId <= sv.serverId
    BY <1>3 DEF IInv, IdsGrow
  <1>11. IdsGrow'
    <2>1. \A n \in 1 .. Len(v) : /\ v[n].map <= sv.map /\ v[n].serverId <= sv.serverId
                                 /\ OfThisMap(v[n].map, v[n].serverId)
      BY <1>2, <1>4, <1>9, <1>10 DEF IInv, IdsGrow
    <2> QED
      BY <2>1, <1>3, <1>5, <1>6, <1>10 DEF IInv, IdsGrow, OfThisMap
  <1>12. HasThisMap'
    <2>1. client.map = sv.map => \E n \in 1 .. Len(v) : v[n].map = sv.map
      <3>1. Len(v) \in 1 .. Len(v)
        BY <1>1, <1>4
      <3> QED
        BY <3>1, <1>2, <1>4
    <2>2. \A n \in 1 .. Len(v) : v[n].map = sv.map => client.map = sv.map
      BY <1>2, <1>4, <1>9 DEF IInv, HasThisMap
    <2> QED
      BY <2>1, <2>2, <1>3, <1>5, <1>6 DEF IInv, HasThisMap
  <1>13. Entering' /\ Connected' /\ WaitsForThisMap'
    BY <1>3, <1>5, <1>6, <1>10
    DEF IInv, Entering, Connected, WaitsForThisMap, OfThisMap, Waiting
  <1>14. InThisWorld'
    BY <1>3, <1>5, <1>6 DEF IInv, InThisWorld, Refreshed
  <1>15. Heard' /\ Excused'
    <2>1. \A n \in 1 .. cl.lastClientCommand : v[n] = client.cps[n]
      <3>1. cl.lastClientCommand \in Nat /\ cl.lastClientCommand <= Len(client.cps)
        BY <1>1 DEF IInv, Counted, ServedClients
      <3> QED
        BY <3>1, <1>1, <1>4
    <2> QED
      BY <2>1, <1>3, <1>5 DEF IInv, Heard, Excused, Waiting
  <1> QED
    BY <1>7, <1>8, <1>11, <1>12, <1>13, <1>14, <1>15 DEF IInv

\* What a configstring is after some commands: as before, or what the last of
\* those that change it brings.
LEMMA AfterIs ==
  ASSUME IInv, NEW cs, NEW old,
         NEW from \in Nat \ {0}, NEW to \in Nat, to <= Len(cl.commands)
  PROVE  \/ After(cs, old, from, to) = old /\ \A i \in from .. to : cl.commands[i].cs # cs
         \/ \E n \in from .. to : /\ cl.commands[n].cs = cs
                                  /\ After(cs, old, from, to) = cl.commands[n].value
                                  /\ \A i \in from .. to : cl.commands[i].cs = cs => i <= n
  <1> DEFINE N == {n \in from .. to : cl.commands[n].cs = cs}
  <1>1. After(cs, old, from, to) =
          IF N = {} THEN old ELSE cl.commands[CHOOSE n \in N : \A i \in N : i <= n].value
    BY DEF After
  <1>2. CASE N = {}
    BY <1>1, <1>2
  <1>3. CASE N # {}
    <2>1. PICK n \in N : \A i \in N : i <= n
      <3>1. N \subseteq Nat /\ \A i \in N : i <= to
        OBVIOUS
      <3> HIDE DEF N
      <3> QED
        BY <1>3, <3>1, GreatestExists
    <2> DEFINE c == CHOOSE k \in N : \A i \in N : i <= k
    <2>2. c \in N /\ \A i \in N : i <= c
      BY <2>1
    <2>3. After(cs, old, from, to) = cl.commands[c].value
      BY <1>1, <1>3
    <2> HIDE DEF c
    <2> QED
      BY <2>2, <2>3
  <1> QED
    BY <1>2, <1>3

\* The client enters the world, or goes on in it, and executes commands.
LEMMA SetCGameTimeHolds ==
  ASSUME IInv, CL_SetCGameTime
  PROVE  IInv'
  <1> DEFINE from == client.lastExecuted + 1
             to == client.snap
             last == IF client.snap > client.lastExecuted THEN client.snap
                                                          ELSE client.lastExecuted
             id == After("system", client.serverId, from, to)
             game == After("game", client.game, from, to)
  <1>1. /\ sv \in Servers /\ cl \in ServedClients /\ client \in Clients
        /\ cl.commands \in Seq(Commands) /\ Len(cl.commands) \in Nat
        /\ client.serverId \in Nat /\ client.game \in Values
        /\ client.lastExecuted \in Nat /\ client.snap \in Nat
        /\ client.serverCommandSequence \in Nat
        /\ sv.restartedServerId \in Nat /\ sv.serverId \in Nat
    BY DEF IInv, Types, Clients, ServedClients, Servers
  <1>2. /\ from \in Nat \ {0} /\ to \in Nat /\ to <= Len(cl.commands)
        /\ last \in Nat /\ last <= client.serverCommandSequence
        /\ \A n \in from .. to : n \in 1 .. Len(cl.commands)
    BY <1>1 DEF IInv, Counted
  <1>3. /\ UNCHANGED <<sv, cl, toClient, toServer, bound>>
        /\ client' = [client EXCEPT !.state = "active", !.newSnapshots = FALSE,
                                    !.lastExecuted = last, !.serverId = id, !.game = game]
        /\ client.state = "active" \/ (client.state = "primed" /\ client.newSnapshots)
    BY <1>1 DEF CL_SetCGameTime, Clients
  <1> HIDE DEF from, to, last
  <1>4. \/ id = client.serverId /\ \A i \in from .. to : cl.commands[i].cs # "system"
        \/ \E n \in from .. to : /\ cl.commands[n].cs = "system" /\ id = cl.commands[n].value
                                 /\ \A i \in from .. to : cl.commands[i].cs = "system" => i <= n
    BY <1>2, AfterIs
  <1>5. \/ game = client.game
        \/ \E n \in from .. to : cl.commands[n].cs = "game" /\ game = cl.commands[n].value
    BY <1>2, AfterIs
  <1> HIDE DEF id, game
  <1>6. id \in Nat /\ game \in Values
    BY <1>1, <1>2, <1>4, <1>5, CommandNumbers
  <1>7. /\ client' \in Clients /\ client'.state = "active" /\ client'.newSnapshots = FALSE
        /\ client'.lastExecuted = last /\ client'.serverId = id
        /\ client'.map = client.map /\ client'.cps = client.cps /\ client'.snap = client.snap
        /\ client'.acked = client.acked
        /\ client'.serverCommandSequence = client.serverCommandSequence
    BY <1>1, <1>2, <1>3, <1>6 DEF Clients
  <1>8. Types'
    BY <1>3, <1>7 DEF IInv, Types
  <1>9. Counted' /\ Ordered'
    BY <1>2, <1>3, <1>7 DEF IInv, Counted, Ordered
  <1>10. IdsGrow'
    <2>1. id <= sv.serverId
      BY <1>2, <1>4 DEF IInv, IdsGrow
    <2> QED
      BY <2>1, <1>3, <1>7 DEF IInv, IdsGrow, OfThisMap
  <1>11. HasThisMap'
    BY <1>3, <1>7 DEF IInv, HasThisMap
  <1>12. Entering' /\ Connected' /\ WaitsForThisMap'
    <2>1. ASSUME Waiting
          PROVE  client.map # sv.map /\ ~(id >= sv.restartedServerId)
      <3>1. client.map # sv.map
        BY <2>1, <1>3 DEF IInv, Entering
      <3>2. ~(client.serverId >= sv.restartedServerId)
        BY <2>1, <3>1 DEF IInv, Entering, OfThisMap
      <3>3. \A n \in from .. to : cl.commands[n].cs = "system" =>
               ~(cl.commands[n].value >= sv.restartedServerId)
        <4> SUFFICES ASSUME NEW n \in from .. to, cl.commands[n].cs = "system"
                     PROVE  ~(cl.commands[n].value >= sv.restartedServerId)
          OBVIOUS
        <4>1. n \in 1 .. Len(cl.commands)
          BY <1>2
        <4>2. cl.commands[n].value \in Nat
          BY <4>1, <1>1, CommandNumbers
        <4>3. cl.commands[n].value < sv.restartedServerId
          BY <4>1, <2>1 DEF IInv, Entering
        <4> QED
          BY <4>2, <4>3, <1>1
      <3> QED
        BY <3>1, <3>2, <3>3, <1>4
    <2> QED
      BY <2>1, <1>3, <1>7
      DEF IInv, Entering, Connected, WaitsForThisMap, OfThisMap, Waiting
  <1>13. InThisWorld'
    <2>1. ASSUME cl.state = "active", ~cl.stranded, ~cl.gotCP
          PROVE  id >= sv.restartedServerId
      <3>1. client.serverId >= sv.restartedServerId
            /\ (client.snap # 0 => Refreshed(client.snap))
        BY <2>1 DEF IInv, InThisWorld
      <3>2. CASE id = client.serverId
        BY <3>1, <3>2
      <3>3. ASSUME NEW n \in from .. to, cl.commands[n].cs = "system", id = cl.commands[n].value,
                   \A i \in from .. to : cl.commands[i].cs = "system" => i <= n
            PROVE  id >= sv.restartedServerId
        <4>1. n \in 1 .. Len(cl.commands) /\ n \in Nat /\ n <= to /\ n >= from /\ client.snap # 0
          BY <1>2, <3>3 DEF to
        <4>2. PICK k \in 1 .. client.snap : /\ cl.commands[k].cs = "system"
                                            /\ cl.commands[k].value >= sv.restartedServerId
          BY <3>1, <4>1 DEF Refreshed
        <4>3. k <= n
          <5>1. k \in Nat /\ k <= to
            BY <1>1 DEF to
          <5>2. CASE k >= from
            <6>1. k \in from .. to
              BY <5>1, <5>2, <1>2
            <6> QED
              BY <6>1, <4>2, <3>3
          <5>3. CASE ~(k >= from)
            BY <5>1, <5>3, <4>1, <1>2
          <5> QED
            BY <5>2, <5>3
        <4>4. k \in 1 .. Len(cl.commands) /\ n \in k .. Len(cl.commands)
          BY <4>1, <4>3, <1>1, <1>2 DEF to
        <4>5. cl.commands[k].value <= cl.commands[n].value
          BY <4>2, <4>4, <3>3 DEF IInv, IdsGrow
        <4>6. cl.commands[k].value \in Nat
          BY <4>2, <4>4, <1>1, CommandNumbers
        <4> QED
          BY <4>2, <4>5, <4>6, <3>3, <1>1, <1>6
      <3> QED
        BY <3>2, <3>3, <1>4
    <2> QED
      BY <2>1, <1>3, <1>7 DEF IInv, InThisWorld, Refreshed
  <1>14. Heard' /\ Excused'
    BY <1>3, <1>7 DEF IInv, Heard, Excused, Waiting
  <1> QED
    BY <1>8, <1>9, <1>10, <1>11, <1>12, <1>13, <1>14 DEF IInv

----------------------------------------------------------------------------
(* The server takes a message of the client.                               *)

\* What the commands of a message change.
LEMMA ExecutedFields ==
  ASSUME NEW c \in ServedClients, NEW cps \in Seq(CPs), NEW premaprestart \in BOOLEAN,
         sv \in Servers
  PROVE  LET e == Executed(c, cps, premaprestart)
             Hears(n) == /\ ~premaprestart /\ n > c.lastClientCommand
                         /\ cps[n].serverId >= sv.restartedServerId
         IN  /\ e \in ServedClients
             /\ e.lastClientCommand = Len(cps)
             /\ e.gotCP <=> c.gotCP \/ \E n \in 1 .. Len(cps) : Hears(n)
             /\ e.state = IF \E n \in 1 .. Len(cps) : Hears(n) /\ cps[n].map # sv.map
                          THEN "dropped" ELSE c.state
             /\ e.gamestates = c.gamestates /\ e.acked = c.acked
             /\ e.commands = c.commands /\ e.stranded = c.stranded
             /\ e.wrongMove = c.wrongMove
  <1> DEFINE e == Executed(c, cps, premaprestart)
             Hears(n) == /\ ~premaprestart /\ n > c.lastClientCommand
                         /\ cps[n].serverId >= sv.restartedServerId
             new == {n \in DOMAIN cps : n > c.lastClientCommand}
             heard == {n \in new : ~premaprestart /\ cps[n].serverId >= sv.restartedServerId}
             got == c.gotCP \/ heard # {}
             state == IF \E n \in heard : cps[n].map # sv.map THEN "dropped" ELSE c.state
             last == Len(cps)
  <1>1. \A n : n \in heard <=> n \in 1 .. Len(cps) /\ Hears(n)
    OBVIOUS
  <1>2. e = [c EXCEPT !.lastClientCommand = last, !.gotCP = got, !.state = state]
    BY DEF Executed, ServedClients
  <1>3. /\ last \in Nat /\ got \in BOOLEAN
        /\ state \in {"connected", "primed", "active", "dropped"}
    BY DEF ServedClients
  <1>4. /\ got <=> c.gotCP \/ \E n \in 1 .. Len(cps) : Hears(n)
        /\ state = IF \E n \in 1 .. Len(cps) : Hears(n) /\ cps[n].map # sv.map
                   THEN "dropped" ELSE c.state
    BY <1>1
  <1> HIDE DEF e, got, state, last, heard, new
  <1>5. /\ e \in ServedClients /\ e.lastClientCommand = last /\ e.gotCP = got
        /\ e.state = state
        /\ e.gamestates = c.gamestates /\ e.acked = c.acked
        /\ e.commands = c.commands /\ e.stranded = c.stranded
        /\ e.wrongMove = c.wrongMove
    BY <1>2, <1>3 DEF ServedClients
  <1> HIDE DEF Hears
  <1>6. /\ e.lastClientCommand = Len(cps)
        /\ e.gotCP <=> c.gotCP \/ \E n \in 1 .. Len(cps) : Hears(n)
        /\ e.state = IF \E n \in 1 .. Len(cps) : Hears(n) /\ cps[n].map # sv.map
                     THEN "dropped" ELSE c.state
    BY <1>4, <1>5 DEF last
  <1> QED
    BY <1>5, <1>6 DEF e, Hears

\* Commands of a message from another gamestate are skipped.
LEMMA SkippedFields ==
  ASSUME sv \in Servers
  PROVE  \A c \in ServedClients, cps \in Seq(CPs) :
           LET e == Executed(c, cps, TRUE)
           IN  /\ e \in ServedClients /\ e.state = c.state /\ e.gamestates = c.gamestates
               /\ e.commands = c.commands /\ e.stranded = c.stranded
               /\ e.wrongMove = c.wrongMove /\ e.lastClientCommand = Len(cps)
               /\ (e.gotCP <=> c.gotCP)
  BY ExecutedFields

\* How the server takes a message without sending a gamestate.
TakenStep ==
  /\ cl' \in ServedClients
  /\ cl'.gamestates = cl.gamestates /\ cl'.commands = cl.commands
  /\ cl'.stranded = cl.stranded
  /\ cl'.lastClientCommand \in {cl.lastClientCommand, Len(toServer.cps)}
  /\ cl.gotCP => cl'.gotCP
  /\ \/ cl'.state = cl.state
     \/ cl.state = "primed" /\ cl'.state = "active" /\ cl'.gotCP /\ client.map = sv.map
     \/ cl'.state = "dropped" /\ cl.stranded
  /\ cl'.wrongMove => cl.wrongMove \/ cl.stranded
  /\ (Waiting \/ (cl.state = "active" /\ ~cl.stranded)) =>
       \A n \in 1 .. cl'.lastClientCommand : client.cps[n].map = sv.map => cl'.gotCP
  /\ toServer' = Nothing
  /\ UNCHANGED <<sv, client, toClient, bound>>

\* Such a step keeps the invariant.
LEMMA TakenHolds ==
  ASSUME IInv, toServer # Nothing, TakenStep
  PROVE  IInv'
  <1>1. /\ sv \in Servers /\ cl \in ServedClients /\ client \in Clients
        /\ toServer \in Packets /\ cl' \in ServedClients
    BY DEF IInv, Types, TakenStep
  <1>2. /\ cl'.gamestates = cl.gamestates /\ cl'.commands = cl.commands
        /\ cl'.stranded = cl.stranded /\ toServer' = Nothing
        /\ UNCHANGED <<sv, client, toClient, bound>>
    BY DEF TakenStep
  <1>3. Types'
    BY <1>1, <1>2 DEF IInv, Types
  <1>4. Counted' /\ Ordered'
    <2>1. cl'.lastClientCommand <= Len(client.cps)
      BY DEF IInv, Counted, TakenStep
    <2> QED
      BY <2>1, <1>2 DEF IInv, Counted, Ordered
  <1>5. IdsGrow' /\ HasThisMap'
    BY <1>2 DEF IInv, IdsGrow, HasThisMap, OfThisMap
  <1>6. Entering' /\ Connected' /\ WaitsForThisMap'
    BY <1>2 DEF IInv, Entering, Connected, WaitsForThisMap, OfThisMap, Waiting, TakenStep
  <1>7. InThisWorld'
    <2>1. CASE cl'.state = cl.state
      BY <2>1, <1>2 DEF IInv, InThisWorld, Refreshed, TakenStep
    <2>2. CASE cl.state = "primed" /\ cl'.state = "active" /\ cl'.gotCP /\ client.map = sv.map
      BY <2>2, <1>2 DEF IInv, InThisWorld, WaitsForThisMap
    <2>3. CASE cl'.state = "dropped" /\ cl.stranded
      BY <2>3 DEF InThisWorld
    <2> QED
      BY <2>1, <2>2, <2>3 DEF TakenStep
  <1>8. Heard'
    BY <1>2 DEF Heard, Waiting, TakenStep
  <1>9. Excused'
    BY <1>2 DEF IInv, Excused, TakenStep
  <1> QED
    BY <1>3, <1>4, <1>5, <1>6, <1>7, <1>8, <1>9 DEF IInv

\* The server finds that the client lost the last gamestate, and sends one.
LEMMA ResentHolds ==
  ASSUME IInv, toServer # Nothing, cl.state # "dropped",
         NEW c \in ServedClients, c = [cl EXCEPT !.acked = toServer.acked],
         toServer.serverId # sv.serverId, LostGamestate(c),
         toClient' = Message(Primed(c), "gamestate"),
         cl' = Executed(Primed(c), toServer.cps, TRUE),
         toServer' = Nothing, UNCHANGED <<sv, client, bound>>
  PROVE  IInv'
  <1> DEFINE G == (c.gamestates + 1) % 4
             p == Primed(c)
  <1>1. /\ sv \in Servers /\ cl \in ServedClients /\ client \in Clients
        /\ toServer \in Packets /\ toServer.cps \in Seq(CPs) /\ client.cps \in Seq(CPs)
        /\ toServer.acked \in Acked
    BY DEF IInv, Types, Packets, Clients
  <1>2. /\ c.state = cl.state /\ c.gamestates = cl.gamestates /\ c.acked = toServer.acked
        /\ c.commands = cl.commands /\ c.stranded = cl.stranded /\ c.wrongMove = cl.wrongMove
    BY <1>1 DEF ServedClients
  <1>3. /\ cl.gamestates \in 0 .. 3 /\ client.acked \in Acked
        /\ client.acked.gamestates \in 0 .. 3
    BY <1>1 DEF ServedClients, Clients, Acked
  <1>4. G \in 0 .. 3 /\ G # cl.gamestates /\ G = (cl.gamestates + 1) % 4
    BY <1>2, <1>3
  <1>5. /\ p \in ServedClients /\ p.state = "primed" /\ p.gotCP = FALSE /\ p.gamestates = G
        /\ p.commands = cl.commands /\ p.stranded = cl.stranded /\ p.wrongMove = cl.wrongMove
    <2>1. p = [c EXCEPT !.state = "primed", !.gotCP = FALSE, !.gamestates = G]
      BY DEF Primed
    <2> HIDE DEF p, G
    <2> QED
      BY <2>1, <1>2, <1>4 DEF ServedClients
  <1>6. /\ cl' \in ServedClients /\ cl'.state = "primed" /\ cl'.gamestates = G
        /\ cl'.commands = cl.commands /\ cl'.stranded = cl.stranded
        /\ cl'.wrongMove = cl.wrongMove /\ cl'.lastClientCommand = Len(toServer.cps)
    <2> HIDE DEF G
    <2>1. cl' = Executed(p, toServer.cps, TRUE)
      OBVIOUS
    <2> HIDE DEF p
    <2>2. LET e == Executed(p, toServer.cps, TRUE)
          IN  /\ e \in ServedClients /\ e.state = p.state /\ e.gamestates = p.gamestates
              /\ e.commands = p.commands /\ e.stranded = p.stranded
              /\ e.wrongMove = p.wrongMove /\ e.lastClientCommand = Len(toServer.cps)
      BY <1>1, <1>5, SkippedFields
    <2> QED
      BY <2>1, <2>2, <1>5
  <1>7. /\ toClient' \in ToClients /\ toClient'.kind = "gamestate"
        /\ toClient'.at = [gamestates |-> G, later |-> FALSE]
        /\ toClient'.commands = Len(cl.commands)
        /\ toClient'.map = sv.map /\ toClient'.system = sv.system
    <2>1. toClient' = Message(p, "gamestate")
      OBVIOUS
    <2> HIDE DEF p, G
    <2>2. LET m == Message(p, "gamestate")
          IN  /\ m \in ToClients /\ m.kind = "gamestate"
              /\ m.at = [gamestates |-> p.gamestates, later |-> "gamestate" # "gamestate"]
              /\ m.commands = Len(p.commands) /\ m.map = sv.map /\ m.system = sv.system
      BY <1>1, <1>5, MessageType
    <2>3. ("gamestate" # "gamestate") = FALSE
      OBVIOUS
    <2> QED
      BY <2>1, <2>2, <2>3, <1>5
  <1> HIDE DEF p, G
  <1>8. /\ toServer.acked = [gamestates |-> cl.gamestates, later |-> TRUE]
        /\ client.acked = toServer.acked /\ client.acked.gamestates = cl.gamestates
        /\ client.acked.later = TRUE
        /\ Waiting
    BY <1>1, <1>2 DEF IInv, Ordered, LostGamestate, Waiting, ServedClients
  <1>9. toServer.map # sv.map
    <2>1. /\ OfThisMap(toServer.map, toServer.serverId) /\ sv.serverId = sv.restartedServerId
          /\ toServer.serverId <= sv.serverId
      BY <1>8 DEF IInv, Entering, IdsGrow
    <2>2. toServer.serverId \in Nat /\ sv.serverId \in Nat
      BY <1>1 DEF Packets, Servers
    <2> QED
      BY <2>1, <2>2 DEF OfThisMap
  <1>10. client.map # sv.map
    BY <1>8, <1>9 DEF IInv, Connected, WaitsForThisMap, Waiting
  <1>11. Types'
    BY <1>1, <1>6, <1>7 DEF IInv, Types
  <1>12. Counted'
    <2>1. Counted /\ client.serverCommandSequence \in Nat /\ Len(cl.commands) \in Nat
      BY <1>1 DEF IInv, Clients, ServedClients
    <2>2. Len(cl.commands) <= Len(cl.commands)
          /\ client.serverCommandSequence <= Len(cl.commands)
          /\ Len(toServer.cps) <= Len(client.cps)
      BY <2>1 DEF Counted
    <2>3. cl'.commands = cl.commands /\ client' = client /\ toServer' = Nothing
          /\ cl'.lastClientCommand = Len(toServer.cps)
      BY <1>6
    <2> QED
      BY <2>1, <2>2, <2>3, <1>7 DEF Counted
  <1>13. Ordered'
    BY <1>4, <1>6, <1>7, <1>8 DEF IInv, Ordered
  <1>14. IdsGrow'
    <2>1. /\ sv.map <= sv.map /\ sv.system <= sv.serverId /\ sv.system >= sv.restartedServerId
      BY <1>1 DEF IInv, IdsGrow, Servers
    <2>2. cl'.commands = cl.commands /\ sv' = sv /\ client' = client /\ toServer' = Nothing
      BY <1>6
    <2>3. IdsGrow
      BY DEF IInv
    <2>4. toClient' # Nothing =>
            /\ toClient'.map <= sv.map /\ toClient'.system <= sv.serverId
            /\ toClient'.kind = "gamestate" =>
                 ((toClient'.map = sv.map) <=> (toClient'.system >= sv.restartedServerId))
      <3>1. sv.map <= sv.map
        BY <1>1 DEF Servers
      <3> QED
        BY <3>1, <2>1, <1>7
    <2>5. /\ sv'.restartedServerId <= sv'.system /\ sv'.system <= sv'.serverId
          /\ client'.serverId <= sv'.serverId /\ client'.map <= sv'.map
          /\ client'.state = "loading" => OfThisMap(client.map, client.serverId)'
      BY <2>2, <2>3 DEF IdsGrow, OfThisMap
    <2>6. \A n \in 1 .. Len(client'.cps) :
            /\ client'.cps[n].map <= sv'.map /\ client'.cps[n].serverId <= sv'.serverId
            /\ OfThisMap(client.cps[n].map, client.cps[n].serverId)'
      BY <2>2, <2>3 DEF IdsGrow, OfThisMap
    <2>7. \A n \in 1 .. Len(cl'.commands) : cl'.commands[n].cs = "system" =>
            /\ cl'.commands[n].value <= sv'.serverId
            /\ \A k \in n .. Len(cl'.commands) : cl'.commands[k].cs = "system" =>
                 cl'.commands[n].value <= cl'.commands[k].value
      <3> DEFINE M == cl'.commands
      <3>1. M = cl.commands
        BY <2>2
      <3> HIDE DEF M
      <3>2. \A n \in 1 .. Len(M) : M[n].cs = "system" =>
              /\ M[n].value <= sv.serverId
              /\ \A k \in n .. Len(M) : M[k].cs = "system" => M[n].value <= M[k].value
        BY <2>3, <3>1 DEF IdsGrow
      <3> QED
        BY <3>2, <2>2 DEF M
    <2> QED
      BY <2>2, <2>4, <2>5, <2>6, <2>7 DEF IdsGrow, OfThisMap
  <1>15. HasThisMap'
    BY <1>10 DEF IInv, HasThisMap
  <1>16. Entering' /\ Connected'
    <2>1. sv' = sv /\ client' = client /\ toServer' = Nothing /\ cl'.commands = cl.commands
      BY <1>6
    <2>2. /\ sv.serverId = sv.restartedServerId /\ ~sv.systemModified
          /\ \A n \in 1 .. Len(cl.commands) :
               cl.commands[n].cs = "system" => cl.commands[n].value < sv.restartedServerId
          /\ OfThisMap(client.map, client.serverId)
          /\ client.map = sv.map => client.snap = 0 /\ ~client.newSnapshots /\ client.state # "active"
      BY <1>8 DEF IInv, Entering
    <2>3. OfThisMap(client.map, client.serverId)'
      BY <2>1, <2>2 DEF OfThisMap
    <2>4. toClient'.kind # "snapshot"
      BY <1>7
    <2>5. Entering'
      BY <2>1, <2>2, <2>3, <2>4 DEF Entering
    <2>6. Connected'
      BY <1>6 DEF Connected
    <2> QED
      BY <2>5, <2>6
  <1>17. WaitsForThisMap'
    BY <1>6, <1>7, <1>8 DEF WaitsForThisMap
  <1>18. InThisWorld' /\ Heard'
    <2>1. Len(toServer.cps) \in Nat /\ Len(client.cps) \in Nat
          /\ Len(toServer.cps) <= Len(client.cps)
      BY <1>1 DEF IInv, Counted
    <2>2. \A n \in 1 .. Len(toServer.cps) : n \in 1 .. Len(client.cps)
      BY <2>1
    <2>3. \A n \in 1 .. Len(toServer.cps) : client.cps[n].map # sv.map
      BY <2>2, <1>10 DEF IInv, HasThisMap
    <2> QED
      BY <2>3, <1>6 DEF InThisWorld, Heard
  <1>19. Excused'
    BY <1>6 DEF IInv, Excused
  <1> QED
    BY <1>11, <1>12, <1>13, <1>14, <1>15, <1>16, <1>17, <1>18, <1>19 DEF IInv

\* The server takes a message of the client.
LEMMA ExecuteClientMessageHolds ==
  ASSUME IInv, SV_ExecuteClientMessage
  PROVE  IInv'
  <1> DEFINE a == toServer.acked
             cps == toServer.cps
             c == [cl EXCEPT !.acked = a]
             outdated == /\ toServer.serverId >= sv.restartedServerId
                         /\ toServer.serverId < sv.serverId
             Hears(n) == /\ n > cl.lastClientCommand
                         /\ cps[n].serverId >= sv.restartedServerId
             Trusted == Waiting \/ (cl.state = "active" /\ ~cl.stranded)
  <1>1. /\ sv \in Servers /\ cl \in ServedClients /\ client \in Clients
        /\ toServer # Nothing /\ toServer \in Packets /\ cps \in Seq(CPs) /\ a \in Acked
        /\ cl.state # "dropped" /\ toServer' = Nothing
        /\ UNCHANGED <<sv, client, bound>>
    BY DEF IInv, Types, SV_ExecuteClientMessage, Packets
  <1>2. /\ c \in ServedClients /\ c.state = cl.state /\ c.gamestates = cl.gamestates
        /\ c.commands = cl.commands /\ c.lastClientCommand = cl.lastClientCommand
        /\ c.gotCP = cl.gotCP /\ c.stranded = cl.stranded /\ c.wrongMove = cl.wrongMove
    <2> HIDE DEF a
    <2> QED
      BY <1>1 DEF ServedClients
  <1>3. /\ toServer.serverId \in Nat /\ sv.serverId \in Nat /\ sv.restartedServerId \in Nat
        /\ toServer.serverId <= sv.serverId /\ sv.restartedServerId <= sv.serverId
        /\ cl.lastClientCommand \in Nat /\ Len(cps) \in Nat /\ Len(client.cps) \in Nat
        /\ cl.lastClientCommand <= Len(cps) /\ Len(cps) <= Len(client.cps)
        /\ \A n \in 1 .. Len(cps) : cps[n] = client.cps[n] /\ n \in 1 .. Len(client.cps)
    <2>1. /\ toServer.serverId \in Nat /\ sv.serverId \in Nat /\ sv.restartedServerId \in Nat
          /\ sv.system \in Nat /\ cl.lastClientCommand \in Nat /\ client.cps \in Seq(CPs)
      BY <1>1 DEF Packets, Servers, ServedClients, Clients
    <2>2. /\ toServer.serverId <= sv.serverId /\ sv.restartedServerId <= sv.system
          /\ sv.system <= sv.serverId
      BY <1>1 DEF IInv, IdsGrow
    <2>3. /\ cl.lastClientCommand <= Len(cps) /\ Len(cps) <= Len(client.cps)
          /\ \A n \in 1 .. Len(cps) : cps[n] = client.cps[n]
      BY <1>1 DEF IInv, Counted
    <2> QED
      BY <2>1, <2>2, <2>3, <1>1
  <1>4. \A n \in 1 .. Len(cps) : /\ OfThisMap(cps[n].map, cps[n].serverId)
                                 /\ cps[n].map = sv.map => toServer.map = sv.map
    BY <1>1, <1>3 DEF IInv, IdsGrow, HasThisMap
  <1>5. Trusted /\ ~cl.gotCP => \A n \in 1 .. cl.lastClientCommand : client.cps[n].map # sv.map
    BY DEF IInv, Heard
  <1>6. Trusted /\ toServer.map # sv.map => toServer.serverId < sv.restartedServerId
    BY <1>1, <1>3 DEF IInv, Entering, InThisWorld, OfThisMap
  <1>7. Trusted /\ toServer.map = sv.map /\ toServer.move =>
          \/ cl.gotCP
          \/ \E n \in 1 .. Len(cps) : Hears(n)
    <2> SUFFICES ASSUME Trusted, toServer.map = sv.map, toServer.move, ~cl.gotCP
                 PROVE  \E n \in 1 .. Len(cps) : Hears(n)
      OBVIOUS
    <2>1. PICK n \in 1 .. Len(cps) : cps[n].map = sv.map
      BY <1>1 DEF IInv, HasThisMap
    <2>2. ~(n \in 1 .. cl.lastClientCommand)
      BY <2>1, <1>3, <1>5
    <2>3. n > cl.lastClientCommand
      BY <2>2, <1>3
    <2> QED
      BY <2>1, <2>3, <1>4 DEF OfThisMap
  <1> HIDE DEF a, c
  <1>8. CASE toServer.serverId # sv.serverId /\ outdated
    <2>1. cl' = c /\ UNCHANGED toClient
      BY <1>8 DEF SV_ExecuteClientMessage, c, a
    <2>2. Trusted =>
             \A n \in 1 .. cl'.lastClientCommand : client.cps[n].map = sv.map => cl'.gotCP
      BY <1>2, <1>5, <2>1
    <2>3. TakenStep
      BY <1>1, <1>2, <2>1, <2>2 DEF TakenStep
    <2> QED
      BY <1>1, <2>3, TakenHolds
  <1>9. CASE toServer.serverId # sv.serverId /\ ~outdated /\ LostGamestate(c)
    <2>1. /\ toClient' = Message(Primed(c), "gamestate")
          /\ cl' = Executed(Primed(c), cps, TRUE)
      BY <1>9 DEF SV_ExecuteClientMessage, c, a
    <2>2. c = [cl EXCEPT !.acked = toServer.acked]
      BY DEF c, a
    <2> QED
      BY <1>1, <1>2, <1>9, <2>1, <2>2, ResentHolds
  <1>10. CASE toServer.serverId # sv.serverId /\ ~outdated /\ ~LostGamestate(c)
    <2>1. cl' = Executed(c, cps, TRUE) /\ UNCHANGED toClient
      BY <1>10 DEF SV_ExecuteClientMessage, c, a
    <2>2. /\ cl' \in ServedClients /\ cl'.lastClientCommand = Len(cps)
          /\ (cl'.gotCP <=> c.gotCP) /\ cl'.state = c.state
          /\ cl'.gamestates = c.gamestates /\ cl'.commands = c.commands
          /\ cl'.stranded = c.stranded /\ cl'.wrongMove = c.wrongMove
      <3>1. LET e == Executed(c, cps, TRUE)
            IN  /\ e \in ServedClients /\ e.lastClientCommand = Len(cps)
                /\ (e.gotCP <=> c.gotCP) /\ e.state = c.state
                /\ e.gamestates = c.gamestates /\ e.commands = c.commands
                /\ e.stranded = c.stranded /\ e.wrongMove = c.wrongMove
        BY <1>1, <1>2, ExecutedFields
      <3> QED
        BY <2>1, <3>1
    <2>3. toServer.serverId < sv.restartedServerId
      BY <1>3, <1>10
    <2>4. Trusted /\ ~cl.gotCP => toServer.map # sv.map
      BY <1>1, <1>3, <2>3 DEF IInv, Entering, InThisWorld, OfThisMap
    <2>5. Trusted =>
             \A n \in 1 .. cl'.lastClientCommand : client.cps[n].map = sv.map => cl'.gotCP
      BY <1>2, <1>3, <1>4, <2>2, <2>4
    <2>6. TakenStep
      BY <1>1, <1>2, <2>1, <2>2, <2>5 DEF TakenStep
    <2> QED
      BY <1>1, <2>6, TakenHolds
  <1>11. CASE toServer.serverId = sv.serverId
    <2> DEFINE e == Executed(c, cps, FALSE)
    <2>1. /\ e \in ServedClients /\ e.lastClientCommand = Len(cps)
          /\ (e.gotCP <=> cl.gotCP \/ \E n \in 1 .. Len(cps) : Hears(n))
          /\ e.state = cl.state
          /\ e.gamestates = cl.gamestates /\ e.commands = cl.commands
          /\ e.stranded = cl.stranded /\ e.wrongMove = cl.wrongMove
      <3>1. LET r == Executed(c, cps, FALSE)
                H(n) == /\ ~FALSE /\ n > c.lastClientCommand
                        /\ cps[n].serverId >= sv.restartedServerId
            IN  /\ r \in ServedClients /\ r.lastClientCommand = Len(cps)
                /\ (r.gotCP <=> c.gotCP \/ \E n \in 1 .. Len(cps) : H(n))
                /\ r.state = IF \E n \in 1 .. Len(cps) : H(n) /\ cps[n].map # sv.map
                             THEN "dropped" ELSE c.state
                /\ r.gamestates = c.gamestates /\ r.commands = c.commands
                /\ r.stranded = c.stranded /\ r.wrongMove = c.wrongMove
        BY <1>1, <1>2, ExecutedFields
      <3>2. ~ \E n \in 1 .. Len(cps) : Hears(n) /\ cps[n].map # sv.map
        BY <1>4 DEF OfThisMap
      <3> QED
        BY <3>1, <3>2, <1>2
    <2>2. /\ IF toServer.move /\ e.state # "dropped" THEN SV_UserMove(e, toServer.map)
             ELSE cl' = e /\ UNCHANGED toClient
      BY <1>11 DEF SV_ExecuteClientMessage, c, a
    <2> HIDE DEF e
    <2>3. Trusted =>
             \A n \in 1 .. Len(cps) : client.cps[n].map = sv.map => e.gotCP
      <3> SUFFICES ASSUME Trusted, NEW n \in 1 .. Len(cps), client.cps[n].map = sv.map
                   PROVE  e.gotCP
        OBVIOUS
      <3>1. CASE n \in 1 .. cl.lastClientCommand
        BY <3>1, <1>5, <2>1
      <3>2. CASE n \notin 1 .. cl.lastClientCommand
        <4>1. n > cl.lastClientCommand /\ cps[n] = client.cps[n]
          BY <3>2, <1>3
        <4>2. Hears(n)
          BY <4>1, <1>4 DEF OfThisMap
        <4> QED
          BY <4>2, <2>1
      <3> QED
        BY <3>1, <3>2
    <2>4. Trusted => toServer.map = sv.map
      BY <1>3, <1>6, <1>11
    <2>5. Trusted \/ cl.stranded
      BY <1>1 DEF Waiting, ServedClients
    <2>6. CASE ~toServer.move
      <3>1. cl' = e /\ UNCHANGED toClient
        BY <2>2, <2>6
      <3>2. TakenStep
        BY <1>1, <2>1, <2>3, <3>1 DEF TakenStep
      <3> QED
        BY <1>1, <3>2, TakenHolds
    <2>7. CASE toServer.move
      <3>1. SV_UserMove(e, toServer.map)
        BY <1>1, <2>1, <2>2, <2>7
      <3>2. Trusted => e.gotCP
        BY <1>7, <2>1, <2>4, <2>7
      <3>3. ~(e.state = "primed" /\ ~e.gotCP)
        BY <3>2, <2>1 DEF Waiting
      <3> DEFINE st == IF e.state = "primed" THEN "active" ELSE e.state
                 w == e.wrongMove \/ (e.state # "connected" /\ toServer.map # sv.map)
      <3>4. /\ UNCHANGED toClient
            /\ cl' = IF ~e.gotCP THEN [e EXCEPT !.state = "dropped"]
                     ELSE [e EXCEPT !.state = st, !.wrongMove = w]
        BY <3>1, <3>3, <2>1 DEF SV_UserMove, ServedClients
      <3>5. w \in BOOLEAN /\ st \in {"connected", "primed", "active", "dropped"}
        BY <2>1 DEF ServedClients
      <3>6. w => cl.wrongMove \/ cl.stranded
        BY <2>1, <2>4, <2>5
      <3>7. CASE ~e.gotCP
        <4>1. cl.stranded
          BY <3>2, <3>7, <2>5
        <4>2. /\ cl' \in ServedClients /\ cl'.state = "dropped"
              /\ cl'.lastClientCommand = e.lastClientCommand /\ (cl'.gotCP <=> e.gotCP)
              /\ cl'.gamestates = e.gamestates /\ cl'.commands = e.commands
              /\ cl'.stranded = e.stranded /\ cl'.wrongMove = e.wrongMove
          BY <3>4, <3>7, <2>1 DEF ServedClients
        <4>3. ~Trusted
          BY <3>2, <3>7
        <4>4. TakenStep
          BY <1>1, <2>1, <3>4, <4>1, <4>2, <4>3 DEF TakenStep
        <4> QED
          BY <1>1, <4>4, TakenHolds
      <3>8. CASE e.gotCP
        <4> HIDE DEF st, w
        <4>1. /\ cl' \in ServedClients /\ cl'.state = st
              /\ cl'.lastClientCommand = e.lastClientCommand /\ (cl'.gotCP <=> e.gotCP)
              /\ cl'.gamestates = e.gamestates /\ cl'.commands = e.commands
              /\ cl'.stranded = e.stranded /\ cl'.wrongMove = w
          BY <3>4, <3>5, <3>8, <2>1 DEF ServedClients
        <4>2. \/ st = cl.state
              \/ cl.state = "primed" /\ st = "active" /\ client.map = sv.map
          <5>1. cl.state = "primed" => client.map = sv.map
            BY <2>4, <1>1 DEF IInv, HasThisMap, Waiting
          <5> QED
            BY <5>1, <2>1 DEF st
        <4>3. TakenStep
          BY <1>1, <2>1, <3>4, <3>6, <3>8, <4>1, <4>2 DEF TakenStep
        <4> QED
          BY <1>1, <4>3, TakenHolds
      <3> QED
        BY <3>7, <3>8
    <2> QED
      BY <2>6, <2>7
  <1> QED
    BY <1>8, <1>9, <1>10, <1>11

----------------------------------------------------------------------------
(* The theorems.                                                           *)

\* The invariant holds in every reachable state.
THEOREM Invariant == Spec => []IInv
  <1>1. Init => IInv
    BY InitHolds
  <1>2. IInv /\ [Next]_vars => IInv'
    <2> SUFFICES ASSUME IInv, [Next]_vars PROVE IInv'
      OBVIOUS
    <2>1. CASE SV_SetConfigstring
      BY <2>1, SetConfigstringHolds
    <2>2. ASSUME NEW send \in BOOLEAN, SV_Frame(send) PROVE IInv'
      BY <2>2, FrameHolds
    <2>3. CASE SV_SpawnServer
      BY <2>3, SpawnServerHolds
    <2>4. CASE SV_MapRestart
      BY <2>4, MapRestartHolds
    <2>5. CASE SV_ExecuteClientMessage
      BY <2>5, ExecuteClientMessageHolds
    <2>6. CASE CL_SendCmd
      BY <2>6, SendCmdHolds
    <2>7. CASE CL_ParseServerMessage
      BY <2>7, ParseServerMessageHolds
    <2>8. CASE CL_DownloadsComplete
      BY <2>8, DownloadsCompleteHolds
    <2>9. CASE CL_SetCGameTime
      BY <2>9, SetCGameTimeHolds
    <2>10. CASE UNCHANGED vars
      BY <2>10 DEF vars, IInv, Types, Counted, Ordered, IdsGrow, HasThisMap, Entering,
                   Connected, WaitsForThisMap, InThisWorld, Heard, Excused, Waiting,
                   OfThisMap, Refreshed
    <2> QED
      BY <2>1, <2>2, <2>3, <2>4, <2>5, <2>6, <2>7, <2>8, <2>9, <2>10 DEF Next
  <1> QED
    BY <1>1, <1>2, PTL DEF Spec

\* Types, and what the client has never runs ahead of the server.
THEOREM TypeCorrect == Spec => []TypeOK
  <1>1. IInv => TypeOK
    <2> SUFFICES ASSUME IInv PROVE TypeOK
      OBVIOUS
    <2>1. /\ sv \in Servers /\ cl \in ServedClients /\ client \in Clients
      BY DEF IInv, Types
    <2>2. sv \in [map : Nat, serverId : Nat, restartedServerId : Nat, system : Nat,
                  systemModified : BOOLEAN, game : Values, modified : SUBSET {"system", "game"}]
      BY <2>1 DEF Servers
    <2>3. /\ cl.state \in {"connected", "primed", "active", "dropped"}
          /\ cl.acked \in Acked /\ client.acked \in Acked
          /\ cl.gotCP \in BOOLEAN /\ cl.stranded \in BOOLEAN /\ cl.wrongMove \in BOOLEAN
          /\ client.state \in {"connected", "loading", "primed", "active"}
          /\ client.game \in Values
      BY <2>1 DEF ServedClients, Clients
    <2>4. (cl.gamestates - client.acked.gamestates) % 4 \in 0 .. 2
      <3>1. cl.gamestates \in 0 .. 3 /\ client.acked.gamestates \in 0 .. 3
        BY <2>1 DEF ServedClients, Clients, Acked
      <3>2. \/ cl.gamestates = client.acked.gamestates
            \/ cl.gamestates = (client.acked.gamestates + 1) % 4
        BY DEF IInv, Ordered
      <3> QED
        BY <3>1, <3>2
    <2>5. /\ client.serverCommandSequence <= Len(cl.commands)
          /\ client.lastExecuted <= client.serverCommandSequence
          /\ cl.lastClientCommand <= Len(client.cps)
      BY DEF IInv, Counted
    <2> QED
      BY <2>2, <2>3, <2>4, <2>5 DEF TypeOK
  <1> QED
    BY <1>1, Invariant, PTL

\* An honest client is not dropped and none of its usercmds is executed in
\* another map, unless a restart took it in without a gamestate, and who waits
\* to enter the world waits for that of the map that runs: for any number of
\* maps, restarts and lost messages.
THEOREM HonestClientsServed == Spec => []HonestServed
  <1>1. IInv => HonestServed
    BY DEF IInv, Excused, WaitsForThisMap, HonestServed, HonestNeverDropped,
           NoMoveOfAnotherMap, PrimedForThisMap
  <1> QED
    BY <1>1, Invariant, PTL
=============================================================================
