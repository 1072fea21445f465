----------------------------- MODULE Connection -----------------------------
(***************************************************************************)
(* How clients get a slot of the server and lose it: challenge, info and   *)
(* connect packets outside the connection, resent until answered; the slot *)
(* that is reused or found; the game module, that knows its players by     *)
(* their guid and may refuse one; drops, zombies and timeouts.             *)
(*                                                                         *)
(* All clients are behind one IP address, where addresses differ in their  *)
(* port only.  A packet outside the connection is seen by its receiver any *)
(* number of times, also none, in any order, until it is MaxAge old.  Time *)
(* is kept as ages, in seconds that stop to count once nothing compares    *)
(* them any more.  The six frames in a row that a timeout takes are        *)
(* shorter than a second.                                                  *)
(*                                                                         *)
(* A packet inside the connection either arrives at once or is lost.  What *)
(* Netchan, Reliable and Gamestate model is left out: such a packet says   *)
(* that the sender is there, and may carry a "disconnect".  Where the two  *)
(* ends need not agree it may be read as anything.                         *)
(***************************************************************************)
EXTENDS Naturals, FiniteSets, FiniteSetsExt

CONSTANTS Clients,            \* players, each with a guid of its own
          PortsOf,            \* the ports its address translator gives each of them
          None,               \* no player
          NumSlots,           \* sv_maxclients
          MAX_CHALLENGES,
          RETRANSMIT_TIMEOUT, cl_timeout,
          sv_reconnectlimit, sv_zombietime, sv_timeout,
          MaxAge,             \* how long a packet may be under way
          MaxConnects,        \* bound: "connect" commands of all users
          MaxIncidents,       \* bound: crashes of clients and changed ports
          MaxInFlight         \* bound: packets under way outside the connection

ASSUME ConnectionAssumption ==
  /\ None \notin Clients
  /\ \A c \in Clients : PortsOf[c] # {} /\ PortsOf[c] \subseteq Nat \ {0}
  /\ \A c, d \in Clients : c # d => PortsOf[c] \cap PortsOf[d] = {}
  /\ NumSlots \in Nat \ {0} /\ MAX_CHALLENGES \in Nat \ {0}
  /\ {RETRANSMIT_TIMEOUT, cl_timeout, sv_reconnectlimit, sv_zombietime, sv_timeout,
      MaxAge, MaxConnects, MaxIncidents, MaxInFlight} \subseteq Nat
  /\ 2 * MaxAge < RETRANSMIT_TIMEOUT /\ 2 * MaxAge < sv_reconnectlimit  \* a round trip

VARIABLES
  slot,        \* svs.clients
  challenges,  \* svs.challenges; a later challenge is a greater number
  game,        \* the players the game module has, by slot
  client,      \* clientStatic_t and clientConnection_t of every player
  net,         \* packets under way outside the connection
  connects, incidents,  \* how many there were, for the bounds
  hasty        \* history: who ever tried again before the last try was over

vars == <<slot, challenges, game, client, net, connects, incidents, hasty>>

Slots == 1 .. NumSlots
Entries == 1 .. MAX_CHALLENGES
NoPort == 0   \* of an address that is all zeros
NoChallenge == 0
First(I) == Min(I)
Capped(n, cap) == IF n < cap THEN n ELSE cap

\* Where a client's age stops to count: what it is compared with in its state.
LongAgo == [disconnected |-> 2 * MaxAge + 1, connecting |-> RETRANSMIT_TIMEOUT,
            challenging_info |-> RETRANSMIT_TIMEOUT,
            challenging_request |-> RETRANSMIT_TIMEOUT, connected |-> cl_timeout + 1]

\* net_qport: a number the client's process draws at its start.
QPort(c, n) == <<c, n>>

Slot(state, player, port, qport, challenge, connectAge, packetAge) ==
  [state |-> state, player |-> player, port |-> port, qport |-> qport,
   challenge |-> challenge, connectAge |-> connectAge, packetAge |-> packetAge]

Init ==
  /\ slot = [i \in Slots |-> Slot("free", None, NoPort, QPort(None, 0), NoChallenge,
                                  sv_reconnectlimit, sv_timeout + 1)]
  /\ challenges = [k \in Entries |->
                     [port |-> NoPort, challenge |-> NoChallenge, connected |-> FALSE]]
  /\ game = [i \in Slots |-> None]
  /\ client = [c \in Clients |->
                 [state |-> "disconnected", port |-> First(PortsOf[c]),
                  qport |-> QPort(c, 0), challenge |-> NoChallenge, age |-> LongAgo.disconnected]]
  /\ net = {} /\ connects = 0 /\ incidents = 0 /\ hasty = {}

\* One packet is lost at once when there are more than the bound.
Send(m) == IF Cardinality(net) < MaxInFlight THEN net' = net \cup {m}
           ELSE \E lost \in net \cup {m} : net' = (net \cup {m}) \ {lost}
ToServer(kind, c) == [kind |-> kind, port |-> client[c].port, qport |-> client[c].qport,
                      challenge |-> client[c].challenge, age |-> 0]
ToClient(kind, port, challenge) ==
  [kind |-> kind, port |-> port, challenge |-> challenge, age |-> 0]

----------------------------------------------------------------------------
(* The server drops a client.                                              *)

\* The first entry with a client's address may be used again.
Unconnected(ports) ==
  LET Of(p) == {k \in Entries : challenges[k].port = p}
      freed == {First(Of(p)) : p \in {q \in ports : Of(q) # {}}}
  IN  [k \in Entries |-> [challenges[k] EXCEPT !.connected = @ /\ k \notin freed]]

\* A command of the client, that came from this port just now, is why.
SV_DropClient(i, port) ==
  /\ slot' = [slot EXCEPT ![i].state = "zombie", ![i].port = port, ![i].packetAge = 0]
  /\ challenges' = Unconnected({port})
  /\ game' = [game EXCEPT ![i] = None]

----------------------------------------------------------------------------
(* The client leaves.                                                      *)

\* The slot a packet of the client inside the connection is for.
Found(c) == {i \in Slots : slot[i].state # "free" /\ slot[i].qport = client[c].qport}
Heard(c) == {i \in Found(c) : i = First(Found(c))}
\* The slot that can decode it.
Served(c) == {i \in Heard(c) : /\ slot[i].state = "connected"
                               /\ slot[i].challenge = client[c].challenge}

\* CL_Disconnect sends "disconnect" three times, and all may be lost.
Leaves(c) == \/ /\ client[c].state = "connected"
                /\ \E i \in Heard(c) : /\ slot[i].state = "connected"
                                       /\ SV_DropClient(i, client[c].port)
             \/ UNCHANGED <<slot, challenges, game>>

CL_Disconnect(c) ==
  /\ client' = [client EXCEPT ![c].state = "disconnected", ![c].challenge = NoChallenge,
                              ![c].age = 0]
  /\ Leaves(c)
  /\ UNCHANGED <<net, connects, incidents, hasty>>

CL_Disconnect_f(c) == client[c].state # "disconnected" /\ CL_Disconnect(c)

\* Of a connected client nothing was heard for cl_timeout.  A client that has
\* just connected has not heard anything yet, and counts from the start of the
\* process.
CL_CheckTimeout(c) ==
  /\ client[c].state = "connected" /\ client[c].age > cl_timeout
  /\ CL_Disconnect(c)

----------------------------------------------------------------------------
(* The client connects.                                                    *)

\* No answer to the client's last try can be under way.
TryIsOver(c) == client[c].state = "disconnected" /\ client[c].age > 2 * MaxAge

\* "connect" and "reconnect" leave whatever the client is in and try at once.
CL_Connect_f(c) ==
  /\ connects < MaxConnects
  /\ connects' = connects + 1
  /\ hasty' = IF TryIsOver(c) THEN hasty ELSE hasty \cup {c}
  /\ client' = [client EXCEPT ![c].state = "connecting", ![c].challenge = NoChallenge,
                              ![c].age = LongAgo.connecting]
  /\ Leaves(c)
  /\ UNCHANGED <<net, incidents>>

Requests == [connecting |-> "getchallenge", challenging_info |-> "getinfo",
             challenging_request |-> "connect"]

CL_CheckForResend(c) ==
  /\ client[c].state \in DOMAIN Requests
  /\ client[c].age >= RETRANSMIT_TIMEOUT
  /\ Send(ToServer(Requests[client[c].state], c))
  /\ client' = [client EXCEPT ![c].age = 0]
  /\ UNCHANGED <<slot, challenges, game, connects, incidents, hasty>>

\* The address translator gives the client another port, and none that the
\* server still sends to.
Translated(c) == PortsOf[c] \ ({client[d].port : d \in Clients}
                               \cup {slot[i].port : i \in {j \in Slots : slot[j].state # "free"}})

Translate(c) ==
  /\ incidents < MaxIncidents
  /\ incidents' = incidents + 1
  /\ \E p \in Translated(c) : client' = [client EXCEPT ![c].port = p]
  /\ UNCHANGED <<slot, challenges, game, net, connects, hasty>>

\* A crash loses the connection and starts a process with another qport, and
\* perhaps another port.
Crash(c) ==
  /\ incidents < MaxIncidents
  /\ incidents' = incidents + 1
  /\ \E p \in Translated(c) \cup {client[c].port} :
        client' = [client EXCEPT ![c] = [state |-> "disconnected", port |-> p,
                                         qport |-> QPort(c, incidents + 1),
                                         challenge |-> NoChallenge, age |-> 0]]
  /\ UNCHANGED <<slot, challenges, game, net, connects, hasty>>

----------------------------------------------------------------------------
(* The server's packets outside the connection.                            *)

\* The challenge a client was given and has not used yet.
MutPending(m) == {k \in Entries : challenges[k].connected /\ challenges[k].port = m.port}

Pending(m) == {k \in Entries : ~challenges[k].connected /\ challenges[k].port = m.port}

\* It is sent again; one that needs another takes the oldest entry.
SV_GetChallenge(m) ==
  LET Number(k) == challenges[k].challenge
      oldest == First({k \in Entries : \A j \in Entries : Number(k) <= Number(j)})
      fresh == Max({Number(k) : k \in Entries}) + 1
      Answer(n) == Send(ToClient("challengeResponse", m.port, n))
  IN  /\ m.kind = "getchallenge"
      /\ IF Pending(m) # {}
         THEN Answer(Number(First(Pending(m)))) /\ UNCHANGED challenges
         ELSE /\ Answer(fresh)
              /\ challenges' = [challenges EXCEPT ![oldest] =
                    [port |-> m.port, challenge |-> fresh, connected |-> FALSE]]
      /\ UNCHANGED <<slot, game>>

SVC_Info(m) ==
  /\ m.kind = "getinfo"
  /\ Send(ToClient("infoResponse", m.port, NoChallenge))
  /\ UNCHANGED <<slot, challenges, game>>

\* The slots whose client has the sender's qport or port.
Same(m) == {i \in Slots : /\ slot[i].port # NoPort
                          /\ slot[i].qport = m.qport \/ slot[i].port = m.port}

\* Any slot counts here, also a free one, but only the first.
MutTooSoon(m) == Same(m) # {} /\ slot[First(Same(m))].connectAge > sv_reconnectlimit

TooSoon(m) == Same(m) # {} /\ slot[First(Same(m))].connectAge < sv_reconnectlimit

\* The entries that allow the client to connect, whether used before or not.
Valid(m) == {k \in Entries : /\ challenges[k].port = m.port
                             /\ challenges[k].challenge = m.challenge}

\* The slot that is there for the client, or else a free one.
Place(m) ==
  LET reused == {i \in Same(m) : slot[i].state # "free"}
      free   == {i \in Slots : slot[i].state = "free"}
  IN  IF reused # {} THEN {First(reused)}
      ELSE IF free # {} THEN {First(free)} ELSE {}

Player(m) == m.qport[1]
\* ClientConnect refuses a guid the game has already.
MutDenied(m) == \E i \in Place(m) : game[i] = Player(m)

Denied(m) == \E i \in Slots : game[i] = Player(m)

\* What a slot holds of a client once it is let in, and of one that is refused.
MutAccepted(m, i) ==
  Slot("connected", Player(m), m.port, m.qport,
       IF slot[i].state = "zombie" THEN slot[i].challenge ELSE m.challenge, 0, 0)

Accepted(m, i) == Slot("connected", Player(m), m.port, m.qport, m.challenge, 0, 0)

Refused(m) == Slot("free", Player(m), m.port, m.qport, m.challenge,
                   sv_reconnectlimit, sv_timeout + 1)

\* The slot is wiped before the game is asked: whoever had it has it no more.
SV_DirectConnect(m) ==
  /\ m.kind = "connect" /\ ~TooSoon(m)
  /\ \/ /\ Valid(m) = {}
        /\ Send(ToClient("print", m.port, NoChallenge))
        /\ UNCHANGED <<slot, challenges, game>>
     \/ /\ Valid(m) # {}
        /\ challenges' = [challenges EXCEPT ![First(Valid(m))].connected = TRUE]
        /\ Place(m) = {}   \* the answer to this does not end the client's try
        /\ UNCHANGED <<slot, game, net>>
     \/ /\ Valid(m) # {}
        /\ challenges' = [challenges EXCEPT ![First(Valid(m))].connected = TRUE]
        /\ \E i \in Place(m) :
              IF Denied(m)
              THEN /\ slot' = [slot EXCEPT ![i] = Refused(m)]
                   /\ Send(ToClient("print", m.port, NoChallenge))
                   /\ UNCHANGED game
              ELSE /\ slot' = [slot EXCEPT ![i] = Accepted(m, i)]
                   /\ Send(ToClient("connectResponse", m.port, NoChallenge))
                   /\ game' = [game EXCEPT ![i] = Player(m)]

SV_ConnectionlessPacket(m) ==
  /\ SV_GetChallenge(m) \/ SVC_Info(m) \/ SV_DirectConnect(m)
  /\ UNCHANGED <<client, connects, incidents, hasty>>

----------------------------------------------------------------------------
(* The client's packets outside the connection.                            *)

\* What the client waits for in each state, and the state it gets into.
MutBecomesInfo(c, kind) ==
  LET from == client[c].state
  IN  CASE kind = "challengeResponse" /\ from = "connecting" -> "challenging_info"
        [] kind = "infoResponse" /\ from = "connecting" -> "challenging_request"
        [] kind = "connectResponse" /\ from \in {"challenging_info", "challenging_request"}
             -> "connected"
        [] OTHER -> from

Becomes(c, kind) ==
  LET from == client[c].state
  IN  CASE kind = "challengeResponse" /\ from = "connecting" -> "challenging_info"
        [] kind = "infoResponse" /\ from = "challenging_info" -> "challenging_request"
        [] kind = "connectResponse" /\ from \in {"challenging_info", "challenging_request"}
             -> "connected"
        [] OTHER -> from

CL_ConnectionlessPacket(c, m) ==
  /\ m.port = client[c].port
  /\ \/ /\ Becomes(c, m.kind) # client[c].state
        /\ client' = [client EXCEPT ![c].state = Becomes(c, m.kind),
                                    ![c].age = LongAgo[Becomes(c, m.kind)],
                                    ![c].challenge = IF m.kind = "challengeResponse"
                                                     THEN m.challenge ELSE @]
        /\ UNCHANGED <<slot, challenges, game, net, connects, incidents, hasty>>
     \/ m.kind = "print" /\ client[c].state # "disconnected" /\ CL_Disconnect(c)

----------------------------------------------------------------------------
(* Packets inside the connection.                                          *)

\* Both ends read each other's packets: with the same challenge, and in the
\* order of one try.
Legible(c, i) == slot[i].challenge = client[c].challenge /\ c \notin hasty

\* The port is the sender's from now on, whether or not the packet can be read.
\* One that cannot may be out of order, or end the connection as the commands
\* it seems to carry make no sense.
SV_PacketEvent(c) ==
  /\ client[c].state = "connected"
  /\ \E i \in Heard(c) :
        LET moved == [slot EXCEPT ![i].port = client[c].port]
        IN  \/ /\ slot[i].state = "connected"
               /\ slot' = [moved EXCEPT ![i].packetAge = 0]
               /\ UNCHANGED <<challenges, game>>
            \/ /\ slot[i].state = "zombie" \/ ~Legible(c, i)
               /\ slot' = moved
               /\ UNCHANGED <<challenges, game>>
            \/ /\ slot[i].state = "connected" /\ ~Legible(c, i)
               /\ SV_DropClient(i, client[c].port)
  /\ UNCHANGED <<client, net, connects, incidents, hasty>>

\* A zombie's packets still carry the "disconnect" that tells the client why,
\* and a packet that cannot be read is an error.
CL_PacketEvent(c, i) ==
  /\ client[c].state = "connected"
  /\ slot[i].state # "free" /\ slot[i].port = client[c].port
  /\ \/ /\ client' = [client EXCEPT ![c].age = 0]
        /\ UNCHANGED <<slot, challenges, game, net, connects, incidents, hasty>>
     \/ (slot[i].state = "zombie" \/ ~Legible(c, i)) /\ CL_Disconnect(c)

----------------------------------------------------------------------------
(* Time.                                                                   *)

\* A second passes, and SV_CheckTimeouts.
Older(s) == [s EXCEPT !.connectAge = Capped(@ + 1, sv_reconnectlimit),
                      !.packetAge = Capped(@ + 1, sv_timeout + 1)]
MutTimedOut == {i \in Slots : slot[i].state = "zombie" /\ slot[i].packetAge >= sv_timeout}

TimedOut == {i \in Slots : slot[i].state = "connected" /\ slot[i].packetAge >= sv_timeout}

Rested == {i \in Slots : slot[i].state = "zombie" /\ slot[i].packetAge >= sv_zombietime}

SV_CheckTimeouts ==
  /\ slot' = [i \in Slots |-> IF i \in TimedOut \cup Rested
                              THEN [Older(slot[i]) EXCEPT !.state = "free"]
                              ELSE Older(slot[i])]
  /\ challenges' = Unconnected({slot[i].port : i \in TimedOut})
  /\ game' = [i \in Slots |-> IF i \in TimedOut THEN None ELSE game[i]]

SV_Frame ==
  /\ SV_CheckTimeouts
  /\ client' = [c \in Clients |-> [client[c] EXCEPT
                                      !.age = Capped(@ + 1, LongAgo[client[c].state])]]
  /\ net' = {[m EXCEPT !.age = @ + 1] : m \in {n \in net : n.age < MaxAge}}
  /\ UNCHANGED <<connects, incidents, hasty>>

----------------------------------------------------------------------------

Next == \/ \E c \in Clients : \/ CL_Connect_f(c) \/ CL_Disconnect_f(c)
                              \/ CL_CheckForResend(c) \/ CL_CheckTimeout(c)
                              \/ Crash(c) \/ Translate(c) \/ SV_PacketEvent(c)
        \/ \E c \in Clients, m \in net : CL_ConnectionlessPacket(c, m)
        \/ \E c \in Clients, i \in Slots : CL_PacketEvent(c, i)
        \/ \E m \in net : SV_ConnectionlessPacket(m)
        \/ SV_Frame

Spec == Init /\ [][Next]_vars

(* Fairness: both sides go on, and of packets sent again and again one     *)
(* gets through.                                                           *)
SV_Hears(c) == \E m \in net : m.port = client[c].port /\ SV_ConnectionlessPacket(m)
CL_Hears(c) == \E m \in net : CL_ConnectionlessPacket(c, m)

FairSpec == /\ Spec
            /\ WF_vars(SV_Frame)
            /\ \A c \in Clients : WF_vars(CL_CheckForResend(c))
            /\ \A c \in Clients : SF_vars(SV_Hears(c)) /\ SF_vars(CL_Hears(c))

----------------------------------------------------------------------------
(* Properties.                                                             *)

States == DOMAIN LongAgo
Ports == UNION {PortsOf[c] : c \in Clients}
Numbers == 0 .. 4 * (MaxConnects + MaxIncidents)
QPorts == {QPort(c, n) : c \in Clients, n \in 0 .. MaxIncidents}

\* Every variable keeps its type: challenge numbers are handed out only for
\* connects and changed ports, and packets are no older than they may be.
TypeOK ==
  /\ slot \in [Slots -> [state : {"free", "zombie", "connected"},
                         player : Clients \cup {None}, port : Ports \cup {NoPort},
                         qport : QPorts \cup {QPort(None, 0)}, challenge : Numbers,
                         connectAge : 0 .. sv_reconnectlimit, packetAge : 0 .. sv_timeout + 1]]
  /\ challenges \in [Entries -> [port : Ports \cup {NoPort}, challenge : Numbers,
                                 connected : BOOLEAN]]
  /\ game \in [Slots -> Clients \cup {None}]
  /\ \A c \in Clients : /\ client[c] \in [state : States, port : PortsOf[c], qport : QPorts,
                                          challenge : Numbers, age : Nat]
                        /\ client[c].age <= LongAgo[client[c].state]
  /\ \A m \in net : m.port \in Ports /\ m.age \in 0 .. MaxAge /\ m.challenge \in Numbers
  /\ Cardinality(net) <= MaxInFlight
  /\ hasty \subseteq Clients

\* Both ends encode with the challenge each of them holds, and no answer says
\* which challenge it is for: whatever was sent twice, late or never, the slot
\* of a connected client, and any slot that sends to it, has the client's, as
\* long as its user never tried again before the last try was over.
Agree(c) ==
  client[c].state = "connected" =>
    /\ \A i \in Heard(c) : slot[i].challenge = client[c].challenge
    /\ \A i \in Slots : slot[i].state # "free" /\ slot[i].port = client[c].port
                          => slot[i].challenge = client[c].challenge
KeysAgree == \A c \in Clients \ hasty : Agree(c)

\* A player has one slot at most, however often it crashes, tries again or
\* gets another port, and the game has the player in that slot and no other.
OneSlotPerPlayer ==
  \A i \in Slots : slot[i].state = "connected" =>
     \A j \in Slots : game[j] = slot[i].player <=> i = j

\* Duplicates of a client's own "connect" come after it is connected, and would wipe
\* its slot, but for sv_reconnectlimit, which is looked up in the first slot that has
\* the sender's port or qport, a free one too.  A client that stays, and whose user
\* never tried again before the last try was over, keeps its slot until the server has
\* not heard of it for sv_timeout, unless it has left an earlier slot.
LeftEarlier(c, i) == \E j \in Slots : j < i /\ slot[j].state = "free" /\ slot[j].player = c
NotThrownOut ==
  [][\A c \in Clients \ hasty : \A i \in Served(c) :
       client'[c].state = "connected" /\ client'[c].qport = client[c].qport =>
         i \in Served(c)' \/ slot[i].packetAge >= sv_timeout \/ LeftEarlier(c, i)]_vars

\* Whoever tries to connect comes to an end: connected, refused or given up,
\* if the server is not full.
Trying(c) == client[c].state \in DOMAIN Requests
NoPlaceFor(c) == \A i \in Slots : slot[i].state # "free" /\ slot[i].player # c
ConnectEnds == \A c \in Clients : Trying(c) ~> (~Trying(c) \/ NoPlaceFor(c))

\* A slot whose client is gone is given up, by the server alone if need be.
Attended(i) == \E c \in Clients : client[c].state = "connected" /\ client[c].qport = slot[i].qport
AbandonedFreed ==
  \A i \in Slots : slot[i].state = "connected" ~> (slot[i].state = "free" \/ Attended(i))
=============================================================================
