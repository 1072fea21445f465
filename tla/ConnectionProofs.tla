-------------------------- MODULE ConnectionProofs --------------------------
(***************************************************************************)
(* Proofs about Connection: for any number of players, ports, slots and    *)
(* challenges, and whatever the timeouts are, a player has one slot at     *)
(* most.  Of a user who never tries again before the last try is over,     *)
(* both ends of the connection have the same challenge, and the client, if *)
(* it stays, keeps its slot, unless it has left an earlier one.            *)
(*                                                                         *)
(* The slots say who a client claims to be, the game says whom it has let  *)
(* in.  The inductive invariant keeps the two apart: a refused client      *)
(* leaves its name in a free slot, and the game may still have the player  *)
(* who had that slot before.  What holds of every step is that a connected *)
(* slot is the game's slot of its player, and that the game has nobody     *)
(* twice.                                                                  *)
(*                                                                         *)
(* That the keys agree rests on what is under way: all connects of a       *)
(* player are of one try, since who is not hasty tries again only once     *)
(* nothing of the last try comes any more; a challenge is never given out  *)
(* twice, so connects that are let in come from one port; and of the slots *)
(* of a player, none shares a port or a qport with another.  Of a hasty    *)
(* player none of this is claimed, and what it does is no other player's   *)
(* business.                                                               *)
(***************************************************************************)
EXTENDS Connection, Integers, FiniteSetTheorems, TLAPS

----------------------------------------------------------------------------
(* A set of numbers has a least and a greatest element.                    *)

\* A set of natural numbers has a least element.
LEMMA LeastExists ==
  ASSUME NEW S \in SUBSET Nat, S # {}
  PROVE  \E n \in S : \A i \in S : n <= i
<1> DEFINE Less == {p \in Nat \X Nat : p[1] < p[2]}
<1>1. IsWellFoundedOn(Less, Nat) BY NatLessThanWellFounded DEF OpToRel
<1>2. \A x, y \in S : <<y, x>> \notin Less => x <= y OBVIOUS
<1> HIDE DEF Less
<1> QED BY <1>1, <1>2, WFMin

\* A finite one has a greatest element: of the sets of its elements from one of
\* them on, finite all of them, one includes no other.
LEMMA FiniteGreatest ==
  ASSUME NEW S \in SUBSET Nat, IsFiniteSet(S), S # {}
  PROVE  \E n \in S : \A i \in S : i <= n
<1> DEFINE From(n) == {k \in S : k >= n}
           T == {From(n) : n \in S}
<1>1. \A n \in S : From(n) \subseteq Nat /\ IsFiniteSet(From(n))
  BY FS_Subset
<1>2. T \subseteq FiniteSubsetsOf(Nat) /\ T # {}
  BY <1>1 DEF FiniteSubsetsOf
<1> HIDE DEF T
<1>3. PICK x \in T : \A y \in T : ~ (<<y, x>> \in StrictSubsetOrdering(Nat))
  BY <1>2, FS_StrictSubsetOrderingWellFounded, WFMin
<1>4. PICK n \in S : x = From(n) BY DEF T
<1>5. ASSUME NEW k \in S, n < k PROVE FALSE
  <2>1. k \in Nat /\ n \in Nat OBVIOUS
  <2>2. n \in From(n) /\ n \notin From(k) BY <1>5, <2>1
  <2>3. ASSUME NEW j \in From(k) PROVE j \in From(n)
    <3>1. j \in S /\ j \in Nat /\ j >= k BY <2>3
    <3>2. j >= n BY <1>5, <2>1, <3>1
    <3> QED BY <3>1, <3>2
  <2>4. From(k) \in T BY DEF T
  <2>5. <<From(k), From(n)>> \in StrictSubsetOrdering(Nat)
    BY <1>1, <2>2, <2>3 DEF StrictSubsetOrdering
  <2> QED BY <1>3, <1>4, <2>4, <2>5
<1> QED BY <1>5

----------------------------------------------------------------------------
(* The inductive invariant.                                                *)

SlotRecords ==
  [state : {"free", "zombie", "connected"}, player : Clients \cup {None}, port : Nat,
   qport : (Clients \cup {None}) \X Nat, challenge : Nat, connectAge : Nat, packetAge : Nat]
EntryRecords == [port : Nat, challenge : Nat, connected : BOOLEAN]
ClientRecords == [state : States, port : Nat, qport : Clients \X Nat, challenge : Nat, age : Nat]

\* A packet carries a challenge, and a "connect" a player's qport.
Packet(m) == /\ m.port \in Nat /\ m.challenge \in Nat
             /\ m.kind = "connect" => m.qport \in Clients \X Nat

Types ==
  /\ slot \in [Slots -> SlotRecords]
  /\ challenges \in [Entries -> EntryRecords]
  /\ game \in [Slots -> Clients \cup {None}]
  /\ client \in [Clients -> ClientRecords]
  /\ \A m \in net : Packet(m)
  /\ incidents \in Nat

\* The slot of a connected client is the slot the game has its player in.
Admitted == \A i \in Slots : slot[i].state = "connected" =>
               slot[i].player \in Clients /\ game[i] = slot[i].player

\* The game has nobody twice.
NobodyTwice == \A i, j \in Slots : game[i] # None /\ game[i] = game[j] => i = j

IInv == Types /\ Admitted /\ NobodyTwice

----------------------------------------------------------------------------
(* Helpers.                                                                *)

\* The first of some indexes, ages that are capped, and the constants.
LEMMA FirstIn ==
  ASSUME NEW I \in SUBSET Nat, I # {}
  PROVE  First(I) \in I
<1>1. PICK n \in I : \A i \in I : n <= i BY LeastExists
<1> QED BY <1>1 DEF First, Min

\* A counter that stops at a bound is a number.
LEMMA CappedType ==
  ASSUME NEW n \in Nat, NEW cap \in Nat
  PROVE  Capped(n, cap) \in Nat
BY DEF Capped

\* The age from which on nothing changes is a number, for every state.
LEMMA LongAgoType ==
  /\ LongAgo \in [States -> Nat]
  /\ States = {"disconnected", "connecting", "challenging_info", "challenging_request",
               "connected"}
<1>1. cl_timeout \in Nat /\ MaxAge \in Nat /\ RETRANSMIT_TIMEOUT \in Nat
  BY ConnectionAssumption
<1> QED BY <1>1 DEF LongAgo, States

\* What the proofs need of the constants.
LEMMA ConstantsTyped ==
  /\ sv_reconnectlimit \in Nat /\ sv_timeout \in Nat /\ NumSlots \in Nat
  /\ MAX_CHALLENGES \in Nat \ {0} /\ None \notin Clients
  /\ Slots \subseteq Nat /\ Entries \subseteq Nat /\ Entries # {} /\ IsFiniteSet(Entries)
  /\ \A c \in Clients : PortsOf[c] # {} /\ PortsOf[c] \subseteq Nat
<1>1. /\ sv_reconnectlimit \in Nat /\ sv_timeout \in Nat /\ NumSlots \in Nat
      /\ MAX_CHALLENGES \in Nat \ {0} /\ None \notin Clients
      /\ \A c \in Clients : PortsOf[c] # {} /\ PortsOf[c] \subseteq Nat
  BY ConnectionAssumption
<1>2. IsFiniteSet(Entries) BY <1>1, FS_Interval DEF Entries
<1> QED BY <1>1, <1>2 DEF Slots, Entries

\* A packet that is sent may be lost, or another one.
LEMMA SendKeeps ==
  ASSUME \A n \in net : Packet(n), NEW m, Packet(m), Send(m)
  PROVE  \A n \in net' : Packet(n)
BY DEF Send

\* A fresh challenge is greater than those that were given out and are still there.
LEMMA FreshIsGreater ==
  ASSUME challenges \in [Entries -> EntryRecords], NEW n,
         n = Max({challenges[k].challenge : k \in Entries}) + 1
  PROVE  n \in Nat /\ \A k \in Entries : challenges[k].challenge < n
<1> DEFINE S == {challenges[k].challenge : k \in Entries}
           f == [k \in Entries |-> challenges[k].challenge]
<1>0. \A k \in Entries : challenges[k].challenge \in Nat BY DEF EntryRecords
<1>1. S \in SUBSET Nat /\ S # {} BY <1>0, ConstantsTyped
<1>2. IsFiniteSet(S)
  <2>1. f \in Surjection(Entries, S) BY DEF Surjection
  <2> HIDE DEF f, S
  <2> QED BY <2>1, ConstantsTyped, FS_Surjection
<1>3. \A k \in Entries : challenges[k].challenge \in S OBVIOUS
<1>4. n = Max(S) + 1 OBVIOUS
<1> HIDE DEF S
<1>5. PICK x \in S : \A i \in S : i <= x BY <1>1, <1>2, FiniteGreatest
<1>6. \A i \in S : x >= i BY <1>1, <1>5
<1>7. Max(S) \in S /\ \A i \in S : Max(S) >= i BY <1>6 DEF Max
<1>8. Max(S) \in Nat BY <1>1, <1>7
<1>9. ASSUME NEW k \in Entries PROVE challenges[k].challenge < n
  <2>1. challenges[k].challenge <= Max(S) BY <1>3, <1>7
  <2>2. challenges[k].challenge \in Nat BY <1>0
  <2> QED BY <1>4, <1>8, <2>1, <2>2
<1>10. n \in Nat BY <1>4, <1>8
<1> QED BY <1>9, <1>10

\* An entry whose client is not connected yet keeps its type.
LEMMA UnconnectedType ==
  ASSUME challenges \in [Entries -> EntryRecords], NEW ports
  PROVE  Unconnected(ports) \in [Entries -> EntryRecords]
<1>1. ASSUME NEW k \in Entries, NEW b \in BOOLEAN
      PROVE  [challenges[k] EXCEPT !.connected = b] \in EntryRecords
  BY <1>1 DEF EntryRecords
<1>2. ASSUME NEW k \in Entries PROVE challenges[k].connected \in BOOLEAN
  BY <1>2 DEF EntryRecords
<1> QED BY <1>1, <1>2 DEF Unconnected

\* A slot whose fields are given.
LEMMA SlotIs ==
  ASSUME NEW st \in {"free", "zombie", "connected"}, NEW p \in Clients \cup {None},
         NEW port \in Nat, NEW q \in (Clients \cup {None}) \X Nat, NEW n \in Nat,
         NEW a \in Nat, NEW b \in Nat
  PROVE  /\ Slot(st, p, port, q, n, a, b) \in SlotRecords
         /\ Slot(st, p, port, q, n, a, b).state = st
         /\ Slot(st, p, port, q, n, a, b).player = p
BY DEF Slot, SlotRecords

\* A slot that changes its state or its ages.
LEMMA SlotChanges ==
  ASSUME NEW s \in SlotRecords
  PROVE  /\ \A st \in {"free", "zombie", "connected"} :
              /\ [s EXCEPT !.state = st] \in SlotRecords
              /\ [s EXCEPT !.state = st].state = st
         /\ /\ Older(s) \in SlotRecords
            /\ Older(s).state = s.state /\ Older(s).player = s.player
         /\ s.packetAge \in Nat /\ s.connectAge \in Nat /\ s.challenge \in Nat
<1>1. s.packetAge \in Nat /\ s.connectAge \in Nat /\ s.challenge \in Nat BY DEF SlotRecords
<1> DEFINE a == Capped(s.connectAge + 1, sv_reconnectlimit)
           b == Capped(s.packetAge + 1, sv_timeout + 1)
<1>2. a \in Nat /\ b \in Nat
  <2>1. s.connectAge + 1 \in Nat /\ s.packetAge + 1 \in Nat /\ sv_timeout + 1 \in Nat
    BY <1>1, ConstantsTyped
  <2> QED BY <2>1, CappedType, ConstantsTyped
<1>3. Older(s) = [s EXCEPT !.connectAge = a, !.packetAge = b] BY DEF Older
<1> HIDE DEF a, b
<1>4. /\ Older(s) \in SlotRecords
      /\ Older(s).state = s.state /\ Older(s).player = s.player
  BY <1>2, <1>3 DEF SlotRecords
<1>5. \A st \in {"free", "zombie", "connected"} :
        /\ [s EXCEPT !.state = st] \in SlotRecords
        /\ [s EXCEPT !.state = st].state = st
  BY DEF SlotRecords
<1> QED BY <1>1, <1>4, <1>5

\* A client that changes state.
LEMMA ClientIs ==
  ASSUME NEW r \in ClientRecords, NEW st \in States, NEW port \in Nat, NEW n \in Nat,
         NEW a \in Nat
  PROVE  /\ [r EXCEPT !.state = st, !.challenge = n, !.age = a] \in ClientRecords
         /\ [r EXCEPT !.state = st, !.age = a] \in ClientRecords
         /\ [r EXCEPT !.state = st, !.age = a, !.challenge = n] \in ClientRecords
         /\ [r EXCEPT !.age = a] \in ClientRecords
         /\ [r EXCEPT !.port = port] \in ClientRecords
         /\ r.state \in States /\ r.port \in Nat /\ r.challenge \in Nat /\ r.age \in Nat
         /\ r.qport \in Clients \X Nat
BY DEF ClientRecords

----------------------------------------------------------------------------
(* The slots and the game.                                                 *)

\* Slots that are dropped are no player's, and nothing else changes.
LEMMA DroppedKeeps ==
  ASSUME IInv, NEW I \in SUBSET Slots, NEW ports, challenges' = Unconnected(ports),
         game' \in [Slots -> Clients \cup {None}],
         \A i \in Slots : game'[i] = IF i \in I THEN None ELSE game[i],
         slot' \in [Slots -> SlotRecords],
         \A i \in I : slot'[i].state # "connected",
         \A i \in Slots \ I : slot'[i].state = "connected" =>
            slot[i].state = "connected" /\ slot'[i].player = slot[i].player
  PROVE  /\ challenges' \in [Entries -> EntryRecords]
         /\ Admitted' /\ NobodyTwice'
<1>1. challenges' \in [Entries -> EntryRecords]
  BY UnconnectedType DEF IInv, Types
<1>2. Admitted' BY DEF IInv, Admitted
<1>3. NobodyTwice' BY DEF IInv, NobodyTwice
<1> QED BY <1>1, <1>2, <1>3

\* What holds of the server's part of the state.
ServerHolds ==
  /\ slot \in [Slots -> SlotRecords]
  /\ challenges \in [Entries -> EntryRecords]
  /\ game \in [Slots -> Clients \cup {None}]
  /\ Admitted /\ NobodyTwice

\* A slot becomes a zombie, with the port the last packet came from.
LEMMA ZombieIs ==
  ASSUME slot \in [Slots -> SlotRecords], NEW i \in Slots, NEW p \in Nat,
         slot' = [slot EXCEPT ![i].state = "zombie", ![i].port = p, ![i].packetAge = 0]
  PROVE  /\ slot' \in [Slots -> SlotRecords]
         /\ slot'[i] = [slot[i] EXCEPT !.state = "zombie", !.port = p, !.packetAge = 0]
         /\ slot'[i].state = "zombie" /\ slot'[i].port = p
         /\ slot'[i].qport = slot[i].qport /\ slot'[i].challenge = slot[i].challenge
         /\ slot'[i].player = slot[i].player /\ slot'[i].connectAge = slot[i].connectAge
         /\ \A j \in Slots \ {i} : slot'[j] = slot[j]
<1> DEFINE s == [slot[i] EXCEPT !.state = "zombie", !.port = p, !.packetAge = 0]
<1>1. /\ s \in SlotRecords
      /\ s.state = "zombie" /\ s.port = p /\ s.qport = slot[i].qport
      /\ s.challenge = slot[i].challenge /\ s.player = slot[i].player
      /\ s.connectAge = slot[i].connectAge
  <2>1. slot[i] \in SlotRecords OBVIOUS
  <2> QED BY <2>1 DEF SlotRecords
<1>2. slot' = [slot EXCEPT ![i] = s] OBVIOUS
<1> HIDE DEF s
<1>3. slot'[i] = s /\ \A j \in Slots \ {i} : slot'[j] = slot[j] BY <1>2
<1>4. slot' \in [Slots -> SlotRecords] BY <1>1, <1>2
<1> QED BY <1>1, <1>3, <1>4 DEF s

\* The server drops a client.
LEMMA SV_DropClientHolds ==
  ASSUME IInv, NEW i \in Slots, NEW p \in Nat, SV_DropClient(i, p)
  PROVE  ServerHolds'
<1>1. /\ slot' \in [Slots -> SlotRecords]
      /\ slot'[i].state = "zombie"
      /\ \A j \in Slots \ {i} : slot'[j] = slot[j]
  BY ZombieIs DEF IInv, Types, SV_DropClient
<1>2. /\ game' \in [Slots -> Clients \cup {None}]
      /\ \A j \in Slots : game'[j] = IF j \in {i} THEN None ELSE game[j]
  BY DEF IInv, Types, SV_DropClient
<1>3. challenges' = Unconnected({p}) BY DEF SV_DropClient
<1>4. /\ challenges' \in [Entries -> EntryRecords]
      /\ Admitted' /\ NobodyTwice'
  BY <1>1, <1>2, <1>3, DroppedKeeps
<1> QED BY <1>1, <1>2, <1>4 DEF ServerHolds

\* A client that leaves takes its slot with it, or the packet is lost.
LEMMA LeavesHolds ==
  ASSUME IInv, NEW c \in Clients, Leaves(c)
  PROVE  ServerHolds'
<1>1. CASE UNCHANGED <<slot, challenges, game>>
  BY <1>1 DEF IInv, Types, ServerHolds, Admitted, NobodyTwice
<1>2. CASE \E i \in Heard(c) : SV_DropClient(i, client[c].port)
  <2>1. client[c].port \in Nat BY DEF IInv, Types, ClientRecords
  <2> QED BY <1>2, <2>1, SV_DropClientHolds DEF Heard, Found
<1> QED BY <1>1, <1>2 DEF Leaves

\* A step that leaves the slots and the game alone.
LEMMA OthersKeep ==
  ASSUME IInv, UNCHANGED <<slot, game>>,
         challenges' \in [Entries -> EntryRecords], client' \in [Clients -> ClientRecords],
         \A m \in net' : Packet(m), incidents' \in Nat
  PROVE  IInv'
BY DEF IInv, Types, Admitted, NobodyTwice

----------------------------------------------------------------------------
(* The clients' steps.                                                     *)

\* A client leaves.
LEMMA CL_DisconnectHolds ==
  ASSUME IInv, NEW c \in Clients, CL_Disconnect(c)
  PROVE  IInv'
<1>1. client' \in [Clients -> ClientRecords]
  BY ClientIs, LongAgoType DEF IInv, Types, CL_Disconnect, NoChallenge
<1>2. UNCHANGED <<net, incidents>> BY DEF CL_Disconnect
<1>3. ServerHolds' BY LeavesHolds DEF CL_Disconnect
<1> QED BY <1>1, <1>2, <1>3 DEF IInv, Types, ServerHolds

\* A client leaves what it is in and starts to connect.
LEMMA CL_Connect_fHolds ==
  ASSUME IInv, NEW c \in Clients, CL_Connect_f(c)
  PROVE  IInv'
<1>1. client' \in [Clients -> ClientRecords]
  BY ClientIs, LongAgoType DEF IInv, Types, CL_Connect_f, NoChallenge
<1>2. UNCHANGED <<net, incidents>> BY DEF CL_Connect_f
<1>3. ServerHolds' BY LeavesHolds DEF CL_Connect_f
<1> QED BY <1>1, <1>2, <1>3 DEF IInv, Types, ServerHolds

\* A client sends its request again.
LEMMA CL_CheckForResendHolds ==
  ASSUME IInv, NEW c \in Clients, CL_CheckForResend(c)
  PROVE  IInv'
<1>1. client' \in [Clients -> ClientRecords]
  BY ClientIs, LongAgoType DEF IInv, Types, CL_CheckForResend
<1> DEFINE m == ToServer(Requests[client[c].state], c)
<1>2. Packet(m)
  <2>1. client[c] \in ClientRecords BY DEF IInv, Types
  <2>2. client[c].port \in Nat /\ client[c].challenge \in Nat /\ client[c].qport \in Clients \X Nat
    BY <2>1 DEF ClientRecords
  <2> QED BY <2>2 DEF Packet, ToServer
<1>3. Send(m) BY DEF CL_CheckForResend
<1>4. \A n \in net' : Packet(n) BY <1>2, <1>3, SendKeeps DEF IInv, Types
<1> QED BY <1>1, <1>4, OthersKeep DEF IInv, Types, CL_CheckForResend

\* A port that a NAT may choose is a number.
LEMMA TranslatedTyped ==
  ASSUME NEW c \in Clients
  PROVE  Translated(c) \subseteq Nat
BY ConstantsTyped DEF Translated

\* The port of a client changes.
LEMMA TranslateHolds ==
  ASSUME IInv, NEW c \in Clients, Translate(c)
  PROVE  IInv'
<1>1. PICK p \in Translated(c) : client' = [client EXCEPT ![c].port = p] BY DEF Translate
<1>2. p \in Nat BY TranslatedTyped
<1>3. client' \in [Clients -> ClientRecords]
  BY <1>1, <1>2, ClientIs, LongAgoType DEF IInv, Types
<1> QED BY <1>3, OthersKeep DEF IInv, Types, Translate

\* A client crashes and is started again.
LEMMA CrashHolds ==
  ASSUME IInv, NEW c \in Clients, Crash(c)
  PROVE  IInv'
<1>1. PICK p \in Translated(c) \cup {client[c].port} :
        client' = [client EXCEPT ![c] = [state |-> "disconnected", port |-> p,
                                         qport |-> QPort(c, incidents + 1),
                                         challenge |-> NoChallenge, age |-> 0]]
  BY DEF Crash
<1>2. p \in Nat
  <2>1. client[c] \in ClientRecords BY DEF IInv, Types
  <2>2. Translated(c) \subseteq Nat BY TranslatedTyped
  <2>3. client[c].port \in Nat BY <2>1 DEF ClientRecords
  <2> QED BY <2>2, <2>3
<1>3. [state |-> "disconnected", port |-> p, qport |-> QPort(c, incidents + 1),
       challenge |-> NoChallenge, age |-> 0] \in ClientRecords
  BY <1>2, LongAgoType DEF ClientRecords, QPort, NoChallenge, IInv, Types
<1>4. client' \in [Clients -> ClientRecords] BY <1>1, <1>3 DEF IInv, Types
<1> QED BY <1>4, OthersKeep DEF IInv, Types, Crash

\* Whatever an answer says, the client is in one of its states after it.
LEMMA BecomesType ==
  ASSUME NEW c \in Clients, NEW kind, client[c].state \in States
  PROVE  Becomes(c, kind) \in States
BY LongAgoType DEF Becomes

\* A client reads an answer without a connection.
LEMMA CL_ConnectionlessPacketHolds ==
  ASSUME IInv, NEW c \in Clients, NEW m \in net, CL_ConnectionlessPacket(c, m)
  PROVE  IInv'
<1>1. CASE m.kind = "print" /\ CL_Disconnect(c) BY <1>1, CL_DisconnectHolds
<1>2. CASE /\ client' = [client EXCEPT ![c].state = Becomes(c, m.kind),
                                    ![c].age = LongAgo[Becomes(c, m.kind)],
                                    ![c].challenge = IF m.kind = "challengeResponse"
                                                     THEN m.challenge ELSE @]
           /\ UNCHANGED <<slot, challenges, game, net, connects, incidents, hasty>>
  <2> DEFINE st == Becomes(c, m.kind)
             n == IF m.kind = "challengeResponse" THEN m.challenge ELSE client[c].challenge
             r == client[c]
  <2>1. r \in ClientRecords /\ r.state \in States /\ r.challenge \in Nat
    BY DEF IInv, Types, ClientRecords
  <2>2. st \in States /\ LongAgo[st] \in Nat /\ n \in Nat
    BY <2>1, BecomesType, LongAgoType DEF IInv, Types, Packet
  <2>3. client' = [client EXCEPT ![c] = [r EXCEPT !.state = st, !.age = LongAgo[st],
                                                  !.challenge = n]]
    BY <1>2
  <2> HIDE DEF st, n, r
  <2>4. [r EXCEPT !.state = st, !.age = LongAgo[st], !.challenge = n] \in ClientRecords
    BY <2>1, <2>2 DEF ClientRecords
  <2>5. client' \in [Clients -> ClientRecords] BY <2>3, <2>4 DEF IInv, Types
  <2> QED BY <1>2, <2>5, OthersKeep DEF IInv, Types
<1> QED BY <1>1, <1>2 DEF CL_ConnectionlessPacket

\* A client reads a message of its connection.
LEMMA CL_PacketEventHolds ==
  ASSUME IInv, NEW c \in Clients, NEW i \in Slots, CL_PacketEvent(c, i)
  PROVE  IInv'
<1>1. CASE CL_Disconnect(c) BY <1>1, CL_DisconnectHolds
<1>2. CASE /\ client' = [client EXCEPT ![c].age = 0]
           /\ UNCHANGED <<slot, challenges, game, net, connects, incidents, hasty>>
  <2>1. client' \in [Clients -> ClientRecords] BY <1>2, ClientIs, LongAgoType DEF IInv, Types
  <2> QED BY <1>2, <2>1, OthersKeep DEF IInv, Types
<1> QED BY <1>1, <1>2 DEF CL_PacketEvent

----------------------------------------------------------------------------
(* The server's steps.                                                     *)

\* A slot gets the port of its client, and perhaps was heard of.
LEMMA MovedIs ==
  ASSUME slot \in [Slots -> SlotRecords], NEW i \in Slots, NEW p \in Nat,
         \/ slot' = [slot EXCEPT ![i].port = p]
         \/ slot' = [[slot EXCEPT ![i].port = p] EXCEPT ![i].packetAge = 0]
  PROVE  /\ slot' \in [Slots -> SlotRecords]
         /\ slot'[i].port = p /\ slot'[i].state = slot[i].state
         /\ slot'[i].player = slot[i].player /\ slot'[i].qport = slot[i].qport
         /\ slot'[i].challenge = slot[i].challenge
         /\ slot'[i].connectAge = slot[i].connectAge
         /\ slot'[i].packetAge \in {0, slot[i].packetAge}
         /\ \A j \in Slots \ {i} : slot'[j] = slot[j]
<1>1. slot[i] \in SlotRecords OBVIOUS
<1>2. PICK n \in {0, slot[i].packetAge} :
        slot' = [slot EXCEPT ![i] = [slot[i] EXCEPT !.port = p, !.packetAge = n]]
  <2>1. CASE slot' = [slot EXCEPT ![i].port = p]
    <3>1. [slot[i] EXCEPT !.port = p] = [slot[i] EXCEPT !.port = p, !.packetAge = slot[i].packetAge]
      BY <1>1 DEF SlotRecords
    <3> QED BY <2>1, <3>1
  <2>2. CASE slot' = [[slot EXCEPT ![i].port = p] EXCEPT ![i].packetAge = 0]
    BY <2>2
  <2> QED BY <2>1, <2>2
<1> DEFINE s == [slot[i] EXCEPT !.port = p, !.packetAge = n]
<1>3. /\ s \in SlotRecords /\ s.port = p /\ s.state = slot[i].state
      /\ s.player = slot[i].player /\ s.qport = slot[i].qport
      /\ s.challenge = slot[i].challenge /\ s.connectAge = slot[i].connectAge
      /\ s.packetAge = n
  <2>1. n \in Nat BY <1>1 DEF SlotRecords
  <2> QED BY <1>1, <2>1 DEF SlotRecords
<1>4. slot' = [slot EXCEPT ![i] = s] BY <1>2
<1> HIDE DEF s
<1>5. slot'[i] = s /\ \A j \in Slots \ {i} : slot'[j] = slot[j] BY <1>4
<1>6. slot' \in [Slots -> SlotRecords] BY <1>3, <1>4
<1> QED BY <1>2, <1>3, <1>5, <1>6

\* The server reads a message of a connection.
LEMMA SV_PacketEventHolds ==
  ASSUME IInv, NEW c \in Clients, SV_PacketEvent(c)
  PROVE  IInv'
<1>1. client[c].port \in Nat /\ Heard(c) \subseteq Slots
  BY DEF IInv, Types, ClientRecords, Heard, Found
<1>2. UNCHANGED <<client, net, incidents>> BY DEF SV_PacketEvent
<1>3. CASE \E i \in Heard(c) : SV_DropClient(i, client[c].port)
  <2>1. ServerHolds' BY <1>1, <1>3, SV_DropClientHolds
  <2> QED BY <1>2, <2>1 DEF IInv, Types, ServerHolds
<1>4. ASSUME NEW i \in Heard(c), UNCHANGED <<challenges, game>>,
             \/ slot' = [slot EXCEPT ![i].port = client[c].port]
             \/ slot' = [[slot EXCEPT ![i].port = client[c].port] EXCEPT ![i].packetAge = 0]
      PROVE  IInv'
  <2>1. /\ slot' \in [Slots -> SlotRecords]
        /\ \A j \in Slots : slot'[j].state = slot[j].state /\ slot'[j].player = slot[j].player
    BY <1>1, <1>4, MovedIs DEF IInv, Types
  <2> QED BY <1>2, <1>4, <2>1 DEF IInv, Types, Admitted, NobodyTwice
<1> QED BY <1>3, <1>4 DEF SV_PacketEvent

\* The server answers a request for a challenge.
LEMMA SV_GetChallengeHolds ==
  ASSUME IInv, NEW m \in net, SV_GetChallenge(m), UNCHANGED <<client, incidents>>
  PROVE  IInv'
<1> DEFINE Number(k) == challenges[k].challenge
           oldest == First({k \in Entries : \A j \in Entries : Number(k) <= Number(j)})
           fresh == Max({Number(k) : k \in Entries}) + 1
<1>1. m.port \in Nat BY DEF IInv, Types, Packet
<1>2. fresh \in Nat BY FreshIsGreater DEF IInv, Types
<1>3. ASSUME NEW n \in Nat, Send(ToClient("challengeResponse", m.port, n))
      PROVE  \A p \in net' : Packet(p)
  <2>1. Packet(ToClient("challengeResponse", m.port, n)) BY <1>1 DEF Packet, ToClient
  <2> QED BY <1>3, <2>1, SendKeeps DEF IInv, Types
<1>4. CASE Pending(m) # {}
  <2>1. First(Pending(m)) \in Entries
    <3>1. Pending(m) \in SUBSET Nat BY ConstantsTyped DEF Pending
    <3> QED BY <1>4, <3>1, FirstIn DEF Pending
  <2>2. Number(First(Pending(m))) \in Nat BY <2>1 DEF IInv, Types, EntryRecords
  <2>3. /\ Send(ToClient("challengeResponse", m.port, Number(First(Pending(m)))))
        /\ UNCHANGED <<challenges, slot, game>>
    BY <1>4 DEF SV_GetChallenge
  <2>4. \A p \in net' : Packet(p) BY <1>3, <2>2, <2>3
  <2> QED BY <2>3, <2>4, OthersKeep DEF IInv, Types
<1>5. CASE Pending(m) = {}
  <2>1. /\ Send(ToClient("challengeResponse", m.port, fresh))
        /\ challenges' = [challenges EXCEPT ![oldest] =
              [port |-> m.port, challenge |-> fresh, connected |-> FALSE]]
        /\ UNCHANGED <<slot, game>>
    BY <1>5 DEF SV_GetChallenge
  <2> HIDE DEF fresh, oldest
  <2>2. [port |-> m.port, challenge |-> fresh, connected |-> FALSE] \in EntryRecords
    BY <1>1, <1>2 DEF EntryRecords
  <2>3. challenges' \in [Entries -> EntryRecords] BY <2>1, <2>2 DEF IInv, Types
  <2>4. \A p \in net' : Packet(p) BY <1>2, <1>3, <2>1
  <2> QED BY <2>1, <2>3, <2>4, OthersKeep DEF IInv, Types
<1> QED BY <1>4, <1>5

\* The server answers a request for its information.
LEMMA SVC_InfoHolds ==
  ASSUME IInv, NEW m \in net, SVC_Info(m), UNCHANGED <<client, incidents>>
  PROVE  IInv'
<1>1. Packet(ToClient("infoResponse", m.port, NoChallenge))
  BY DEF IInv, Types, Packet, ToClient, NoChallenge
<1>2. \A p \in net' : Packet(p) BY <1>1, SendKeeps DEF IInv, Types, SVC_Info
<1> QED BY <1>2, OthersKeep DEF IInv, Types, SVC_Info

\* The slot for a newcomer is a slot.
LEMMA PlaceInSlots ==
  ASSUME NEW m, NEW i \in Place(m)
  PROVE  i \in Slots
<1> DEFINE reused == {j \in Same(m) : slot[j].state # "free"}
           free == {j \in Slots : slot[j].state = "free"}
<1>1. reused \in SUBSET Slots /\ free \in SUBSET Slots BY DEF Same
<1>2. CASE reused # {}
  <2>1. i = First(reused) BY <1>2 DEF Place
  <2> QED BY <1>1, <1>2, <2>1, FirstIn, ConstantsTyped
<1>3. CASE reused = {}
  <2>1. free # {} /\ i = First(free) BY <1>3 DEF Place
  <2> QED BY <1>1, <2>1, FirstIn, ConstantsTyped
<1> QED BY <1>2, <1>3

\* The game lets nobody in whom it has: neither in another slot nor in the one
\* that was just wiped.
LEMMA SV_DirectConnectHolds ==
  ASSUME IInv, NEW m \in net, SV_DirectConnect(m), UNCHANGED <<client, incidents>>
  PROVE  IInv'
<1>1. m.port \in Nat /\ m.challenge \in Nat /\ m.qport \in Clients \X Nat
  BY DEF IInv, Types, Packet, SV_DirectConnect
<1>2. Player(m) \in Clients /\ m.qport \in (Clients \cup {None}) \X Nat BY <1>1 DEF Player
<1>3. ASSUME NEW kind \in {"print", "connectResponse"}, Send(ToClient(kind, m.port, NoChallenge))
      PROVE  \A p \in net' : Packet(p)
  <2>1. Packet(ToClient(kind, m.port, NoChallenge))
    BY <1>1 DEF Packet, ToClient, NoChallenge
  <2> QED BY <1>3, <2>1, SendKeeps DEF IInv, Types
<1>4. ASSUME Valid(m) # {},
             challenges' = [challenges EXCEPT ![First(Valid(m))].connected = TRUE]
      PROVE  challenges' \in [Entries -> EntryRecords]
  <2>1. \A k \in Entries : [challenges[k] EXCEPT !.connected = TRUE] \in EntryRecords
    BY DEF IInv, Types, EntryRecords
  <2> QED BY <1>4, <2>1 DEF IInv, Types
<1>5. CASE /\ Valid(m) = {}
           /\ Send(ToClient("print", m.port, NoChallenge))
           /\ UNCHANGED <<slot, challenges, game>>
  BY <1>3, <1>5, OthersKeep DEF IInv, Types
<1>6. CASE /\ Valid(m) # {}
           /\ challenges' = [challenges EXCEPT ![First(Valid(m))].connected = TRUE]
           /\ UNCHANGED <<slot, game, net>>
  BY <1>4, <1>6, OthersKeep DEF IInv, Types
<1>7. ASSUME Valid(m) # {}, NEW i \in Place(m), Denied(m),
             challenges' = [challenges EXCEPT ![First(Valid(m))].connected = TRUE],
             slot' = [slot EXCEPT ![i] = Refused(m)],
             Send(ToClient("print", m.port, NoChallenge)), UNCHANGED game
      PROVE  IInv'
  <2>1. i \in Slots BY <1>7, PlaceInSlots
  <2>2. Refused(m) \in SlotRecords /\ Refused(m).state = "free"
    BY <1>1, <1>2, ConstantsTyped DEF Refused, Slot, SlotRecords
  <2>3. /\ slot' \in [Slots -> SlotRecords] /\ slot'[i].state = "free"
        /\ \A j \in Slots \ {i} : slot'[j] = slot[j]
    BY <1>7, <2>1, <2>2 DEF IInv, Types
  <2>4. Admitted' /\ NobodyTwice'
    BY <1>7, <2>3 DEF IInv, Admitted, NobodyTwice
  <2> QED BY <1>3, <1>4, <1>7, <2>3, <2>4 DEF IInv, Types
<1>8. ASSUME Valid(m) # {}, NEW i \in Place(m), ~Denied(m),
             challenges' = [challenges EXCEPT ![First(Valid(m))].connected = TRUE],
             slot' = [slot EXCEPT ![i] = Accepted(m, i)],
             Send(ToClient("connectResponse", m.port, NoChallenge)),
             game' = [game EXCEPT ![i] = Player(m)]
      PROVE  IInv'
  <2>1. i \in Slots BY <1>8, PlaceInSlots
  <2>2. Accepted(m, i) \in SlotRecords /\ Accepted(m, i).player = Player(m)
    BY <1>1, <1>2 DEF Accepted, Slot, SlotRecords
  <2>3. /\ slot' \in [Slots -> SlotRecords] /\ slot'[i].player = Player(m)
        /\ \A j \in Slots \ {i} : slot'[j] = slot[j]
    BY <1>8, <2>1, <2>2 DEF IInv, Types
  <2>4. /\ game' \in [Slots -> Clients \cup {None}] /\ game'[i] = Player(m)
        /\ \A j \in Slots \ {i} : game'[j] = game[j]
    BY <1>2, <1>8, <2>1 DEF IInv, Types
  <2>5. \A j \in Slots : game[j] # Player(m) BY <1>8 DEF Denied
  <2>6. Admitted'
    BY <1>2, <2>1, <2>3, <2>4 DEF IInv, Admitted
  <2>7. NobodyTwice'
    BY <2>1, <2>4, <2>5 DEF IInv, NobodyTwice
  <2> QED BY <1>3, <1>4, <1>8, <2>3, <2>4, <2>6, <2>7 DEF IInv, Types
<1> QED BY <1>5, <1>6, <1>7, <1>8 DEF SV_DirectConnect

\* Time goes on, and with it the timeouts of the server.
LEMMA SV_FrameHolds ==
  ASSUME IInv, SV_Frame
  PROVE  IInv'
<1>1. /\ slot' \in [Slots -> SlotRecords]
      /\ \A i \in TimedOut : slot'[i].state = "free"
      /\ \A i \in Slots : slot'[i].state = "connected" =>
            slot[i].state = "connected" /\ slot'[i].player = slot[i].player
  <2>1. ASSUME NEW i \in Slots
        PROVE  /\ slot'[i] \in SlotRecords
               /\ i \in TimedOut => slot'[i].state = "free"
               /\ slot'[i].state = "connected" =>
                    slot[i].state = "connected" /\ slot'[i].player = slot[i].player
    <3>1. slot[i] \in SlotRecords BY DEF IInv, Types
    <3>2. /\ Older(slot[i]) \in SlotRecords /\ Older(slot[i]).state = slot[i].state
          /\ Older(slot[i]).player = slot[i].player
      BY <3>1, SlotChanges
    <3>3. slot'[i] = IF i \in TimedOut \cup Rested
                     THEN [Older(slot[i]) EXCEPT !.state = "free"] ELSE Older(slot[i])
      BY DEF SV_Frame, SV_CheckTimeouts
    <3>4. /\ [Older(slot[i]) EXCEPT !.state = "free"] \in SlotRecords
          /\ [Older(slot[i]) EXCEPT !.state = "free"].state = "free"
      BY <3>2, SlotChanges
    <3> QED BY <3>2, <3>3, <3>4
  <2>2. slot' = [i \in Slots |-> slot'[i]] BY DEF SV_Frame, SV_CheckTimeouts
  <2> QED BY <2>1, <2>2 DEF TimedOut
<1>2. /\ challenges' \in [Entries -> EntryRecords]
      /\ game' \in [Slots -> Clients \cup {None}]
      /\ Admitted' /\ NobodyTwice'
  <2>1. TimedOut \in SUBSET Slots BY DEF TimedOut
  <2>2. /\ challenges' = Unconnected({slot[i].port : i \in TimedOut})
        /\ game' \in [Slots -> Clients \cup {None}]
        /\ \A i \in Slots : game'[i] = IF i \in TimedOut THEN None ELSE game[i]
    BY DEF IInv, Types, SV_Frame, SV_CheckTimeouts
  <2> QED BY <1>1, <2>1, <2>2, DroppedKeeps
<1>3. client' \in [Clients -> ClientRecords]
  <2>1. ASSUME NEW c \in Clients PROVE client'[c] \in ClientRecords
    <3> DEFINE a == Capped(client[c].age + 1, LongAgo[client[c].state])
    <3>1. /\ client[c] \in ClientRecords /\ client[c].age \in Nat
          /\ client[c].state \in States
      BY DEF IInv, Types, ClientRecords
    <3>2. client[c].age + 1 \in Nat /\ LongAgo[client[c].state] \in Nat
      BY <3>1, LongAgoType
    <3>3. a \in Nat BY <3>2, CappedType
    <3>4. client'[c] = [client[c] EXCEPT !.age = a] BY DEF SV_Frame
    <3> HIDE DEF a
    <3> QED BY <3>1, <3>3, <3>4 DEF ClientRecords
  <2>2. client' = [c \in Clients |-> client'[c]] BY DEF SV_Frame
  <2> QED BY <2>1, <2>2
<1>4. \A m \in net' : Packet(m)
  <2>1. ASSUME NEW m \in net' PROVE Packet(m)
    <3>1. PICK n \in net : m = [n EXCEPT !.age = @ + 1] BY DEF SV_Frame
    <3>2. m.port = n.port /\ m.challenge = n.challenge /\ m.kind = n.kind /\ m.qport = n.qport
      BY <3>1
    <3> QED BY <3>2 DEF IInv, Types, Packet
  <2> QED BY <2>1
<1> QED BY <1>1, <1>2, <1>3, <1>4 DEF IInv, Types, SV_Frame

----------------------------------------------------------------------------
(* The theorems.                                                           *)

\* The invariant holds at first.
LEMMA InitHolds ==
  ASSUME Init
  PROVE  IInv
<1>1. slot \in [Slots -> SlotRecords] /\ \A i \in Slots : slot[i].state = "free"
  <2>1. /\ Slot("free", None, NoPort, QPort(None, 0), NoChallenge, sv_reconnectlimit,
                sv_timeout + 1) \in SlotRecords
        /\ Slot("free", None, NoPort, QPort(None, 0), NoChallenge, sv_reconnectlimit,
                sv_timeout + 1).state = "free"
    BY ConstantsTyped, SlotIs DEF QPort, NoPort, NoChallenge
  <2> QED BY <2>1 DEF Init
<1>2. challenges \in [Entries -> EntryRecords]
  BY DEF Init, EntryRecords, NoPort, NoChallenge
<1>3. client \in [Clients -> ClientRecords]
  <2>1. ASSUME NEW c \in Clients
        PROVE  [state |-> "disconnected", port |-> First(PortsOf[c]), qport |-> QPort(c, 0),
                challenge |-> NoChallenge, age |-> LongAgo.disconnected] \in ClientRecords
    <3>1. First(PortsOf[c]) \in Nat BY ConstantsTyped, FirstIn
    <3>2. LongAgo.disconnected \in Nat BY LongAgoType
    <3> QED BY <3>1, <3>2, LongAgoType DEF ClientRecords, QPort, NoChallenge
  <2> QED BY <2>1 DEF Init
<1> QED BY <1>1, <1>2, <1>3 DEF Init, IInv, Types, Admitted, NobodyTwice

\* Every step keeps it.
LEMMA NextHolds ==
  ASSUME IInv, [Next]_vars
  PROVE  IInv'
<1>1. CASE UNCHANGED vars
  BY <1>1 DEF vars, IInv, Types, Admitted, NobodyTwice
<1>2. ASSUME NEW c \in Clients,
             \/ CL_Connect_f(c) \/ CL_Disconnect_f(c) \/ CL_CheckForResend(c)
             \/ CL_CheckTimeout(c) \/ Crash(c) \/ Translate(c) \/ SV_PacketEvent(c)
      PROVE  IInv'
  BY <1>2, CL_Connect_fHolds, CL_DisconnectHolds, CL_CheckForResendHolds, CrashHolds,
     TranslateHolds, SV_PacketEventHolds
  DEF CL_Disconnect_f, CL_CheckTimeout
<1>3. ASSUME NEW c \in Clients, NEW m \in net, CL_ConnectionlessPacket(c, m)
      PROVE  IInv'
  BY <1>3, CL_ConnectionlessPacketHolds
<1>4. ASSUME NEW c \in Clients, NEW i \in Slots, CL_PacketEvent(c, i)
      PROVE  IInv'
  BY <1>4, CL_PacketEventHolds
<1>5. ASSUME NEW m \in net, SV_ConnectionlessPacket(m)
      PROVE  IInv'
  BY <1>5, SV_GetChallengeHolds, SVC_InfoHolds, SV_DirectConnectHolds
  DEF SV_ConnectionlessPacket
<1>6. CASE SV_Frame BY <1>6, SV_FrameHolds
<1> QED BY <1>1, <1>2, <1>3, <1>4, <1>5, <1>6 DEF Next

\* The invariant of every behaviour.
THEOREM Invariant == Spec => []IInv
<1>1. Init => IInv BY InitHolds
<1>2. IInv /\ [Next]_vars => IInv' BY NextHolds
<1> QED BY <1>1, <1>2, PTL DEF Spec

\* A player has one slot at most, and the game has the player in that slot and no
\* other: SV_DirectConnect, SV_DropClient and the game's ClientConnect.
THEOREM OnePlayerOneSlot == Spec => []OneSlotPerPlayer
<1>1. IInv => OneSlotPerPlayer
  BY ConstantsTyped DEF IInv, Admitted, NobodyTwice, OneSlotPerPlayer
<1> QED BY <1>1, Invariant, PTL

----------------------------------------------------------------------------
(* Why both ends have the same key.                                        *)

RequestKinds == {"getchallenge", "getinfo", "connect"}
AnswerKinds == {"challengeResponse", "infoResponse", "connectResponse", "print"}
RequestRecords == [kind : RequestKinds, port : Nat, qport : Clients \X Nat, challenge : Nat,
                   age : 0 .. MaxAge]
AnswerRecords == [kind : AnswerKinds, port : Nat, challenge : Nat, age : 0 .. MaxAge]

\* What is under way from a player and to it, and the slots that are its own.
Requested(c) == {m \in net : m.kind \in RequestKinds /\ Player(m) = c}
Answers(c) == {m \in net : m.kind \in AnswerKinds /\ m.port \in PortsOf[c]}
Connects(c) == {m \in net : m.kind = "connect" /\ Player(m) = c}
Responses(c) == {m \in net : m.kind = "connectResponse" /\ m.port \in PortsOf[c]}
Mine(c) == {i \in Slots : slot[i].state # "free" /\ slot[i].player = c}
Near(c, q, p) == {i \in Mine(c) : slot[i].qport = q \/ slot[i].port = p}
AtMostOne(I) == \A i, j \in I : i = j

\* Ports and qports tell whose a slot or a packet is.
OwnQPorts(c) == {c} \X (0 .. incidents)
SlotOwned(i) == /\ slot[i].player \in Clients /\ slot[i].port \in PortsOf[slot[i].player]
                /\ slot[i].qport \in OwnQPorts(slot[i].player)
PacketOwned(m) ==
  /\ m \in RequestRecords \cup AnswerRecords
  /\ m.kind \in RequestKinds => m.port \in PortsOf[Player(m)] /\ m.qport \in OwnQPorts(Player(m))
Owned ==
  /\ \A c \in Clients : client[c].port \in PortsOf[c] /\ client[c].qport \in OwnQPorts(c)
  /\ \A i \in Slots : slot[i].port # NoPort => SlotOwned(i)
  /\ \A i \in Slots : slot[i].state # "free" => slot[i].port # NoPort
  /\ \A m \in net : PacketOwned(m)

\* No challenge is given out twice.
Issued(n) == \E k \in Entries : n <= challenges[k].challenge
Numbered ==
  /\ \A k \in Entries : challenges[k].port # NoPort => challenges[k].challenge # NoChallenge
  /\ \A k, l \in Entries : challenges[k].challenge = challenges[l].challenge =>
       k = l \/ challenges[k].challenge = NoChallenge
  /\ \A m \in net : Issued(m.challenge)
  /\ \A c \in Clients : Issued(client[c].challenge)

\* What is under way is older than the end of the last try, and what answers it not
\* much younger.
Waited(c) == client[c].state = "disconnected" =>
  /\ \A m \in Requested(c) : client[c].age <= m.age
  /\ \A m \in Answers(c) : client[c].age <= m.age + MaxAge

\* All connects under way are of one try, of the one that is going on if there is one.
OneTry(c) ==
  /\ client[c].state \in {"connecting", "challenging_info"} =>
       Connects(c) = {} /\ Responses(c) = {}
  /\ client[c].state \in {"challenging_request", "connected"} =>
       \A m \in Connects(c) : m.qport = client[c].qport /\ m.challenge = client[c].challenge
  /\ \A m, l \in Connects(c) : m.qport = l.qport /\ m.challenge = l.challenge

\* Slots of one player differ in port and qport, and a port and a qport that come
\* together, in the player or in a connect that will be let in, are of one slot at most.
\* A player whose port is that of a slot of an earlier process has not moved since.
Apart(c) ==
  /\ \A i, j \in Mine(c) : slot[i].qport = slot[j].qport \/ slot[i].port = slot[j].port => i = j
  /\ AtMostOne(Near(c, client[c].qport, client[c].port))
  /\ \A m \in Connects(c) : Valid(m) # {} => AtMostOne(Near(c, m.qport, m.port))
  /\ \A i \in Mine(c) : slot[i].port = client[c].port /\ slot[i].qport # client[c].qport =>
       \A m \in Connects(c) : m.qport = client[c].qport => m.port = client[c].port
  /\ \A m \in Connects(c) : m.qport # client[c].qport =>
       \A i \in Mine(c) : slot[i].qport # client[c].qport

\* A player who was let in, and may know it, has the key of its slot.
LetIn(c) == \/ client[c].state = "connected"
            \/ client[c].state = "challenging_request" /\ Responses(c) # {}
Keyed(c) == LetIn(c) => \A i \in Mine(c) :
  /\ slot[i].qport = client[c].qport => slot[i].challenge = client[c].challenge
  /\ slot[i].port = client[c].port => slot[i].qport = client[c].qport

\* And its connects are hardly older than its slot.
Recent(c) == \A i \in Mine(c) : slot[i].qport = client[c].qport =>
  /\ client[c].state = "challenging_request" => \A m \in Responses(c) : slot[i].connectAge <= m.age
  /\ client[c].state = "connected" => \A m \in Connects(c) : slot[i].connectAge <= m.age + MaxAge

\* What holds of a player who is not hasty.
Settled(c) == Waited(c) /\ OneTry(c) /\ Apart(c) /\ Keyed(c) /\ Recent(c)
Agreed == Owned /\ Numbered /\ \A c \in Clients \ hasty : Settled(c)

----------------------------------------------------------------------------
(* Helpers.                                                                *)

\* The first of some indexes is the least.
LEMMA FirstLeast ==
  ASSUME NEW I \in SUBSET Nat, NEW n \in I
  PROVE  First(I) \in I /\ First(I) <= n
<1>1. PICK k \in I : \A i \in I : k <= i BY LeastExists
<1> QED BY <1>1 DEF First, Min

\* Ports are numbers, and of one player each.
LEMMA PortsApart ==
  /\ NoPort = 0 /\ NoChallenge = 0 /\ MaxAge \in Nat /\ 2 * MaxAge < sv_reconnectlimit
  /\ \A c \in Clients : NoPort \notin PortsOf[c] /\ PortsOf[c] \subseteq Nat
  /\ \A c, d \in Clients : \A p \in PortsOf[c] : p \in PortsOf[d] => c = d
<1>1. /\ \A c \in Clients : PortsOf[c] \subseteq Nat \ {0}
      /\ \A c, d \in Clients : c # d => PortsOf[c] \cap PortsOf[d] = {}
      /\ MaxAge \in Nat /\ 2 * MaxAge < sv_reconnectlimit
  BY ConnectionAssumption
<1> QED BY <1>1 DEF NoPort, NoChallenge

\* A packet under way is one that was, or the one that is sent.
LEMMA SendAdds ==
  ASSUME NEW m, Send(m)
  PROVE  net' \subseteq net \cup {m}
BY DEF Send

\* What is known of a packet's fields.
LEMMA PacketFields ==
  ASSUME Owned, NEW m \in net
  PROVE  /\ m.age \in 0 .. MaxAge /\ m.challenge \in Nat /\ m.port \in Nat
         /\ m.kind \in RequestKinds \cup AnswerKinds
         /\ m.kind \in RequestKinds => /\ Player(m) \in Clients /\ m.port \in PortsOf[Player(m)]
                                       /\ m.qport \in OwnQPorts(Player(m))
<1>1. PacketOwned(m) BY DEF Owned
<1>2. m \in RequestRecords \cup AnswerRecords BY <1>1 DEF PacketOwned
<1>3. m.kind \in RequestKinds => m \in RequestRecords
  BY <1>2 DEF RequestRecords, AnswerRecords, RequestKinds, AnswerKinds
<1>4. m \in RequestRecords => Player(m) \in Clients BY DEF RequestRecords, Player
<1>5. m.age \in 0 .. MaxAge /\ m.challenge \in Nat /\ m.port \in Nat
      /\ m.kind \in RequestKinds \cup AnswerKinds
  BY <1>2 DEF RequestRecords, AnswerRecords
<1> QED BY <1>1, <1>3, <1>4, <1>5 DEF PacketOwned

\* A slot that is taken is the player's whose port or qport it has.
LEMMA SlotIsMine ==
  ASSUME Owned, NEW c \in Clients, NEW i \in Slots, slot[i].state # "free",
         slot[i].port \in PortsOf[c] \/ slot[i].qport \in OwnQPorts(c)
  PROVE  i \in Mine(c)
<1>1. SlotOwned(i) BY DEF Owned
<1>2. slot[i].qport \in OwnQPorts(c) => slot[i].player = c BY <1>1 DEF SlotOwned, OwnQPorts
<1>3. slot[i].port \in PortsOf[c] => slot[i].player = c BY <1>1, PortsApart DEF SlotOwned
<1> QED BY <1>2, <1>3 DEF Mine

\* The slot that a player's packets are for.
LEMMA FoundMine ==
  ASSUME Owned, NEW c \in Clients
  PROVE  /\ Found(c) = {i \in Mine(c) : slot[i].qport = client[c].qport}
         /\ Found(c) # {} => First(Found(c)) \in Found(c)
<1>1. client[c].qport \in OwnQPorts(c) BY DEF Owned
<1>2. \A i \in Found(c) : i \in Mine(c) BY <1>1, SlotIsMine DEF Found
<1>3. Found(c) \in SUBSET Nat BY ConstantsTyped DEF Found
<1> QED BY <1>2, <1>3, FirstIn DEF Found, Mine

----------------------------------------------------------------------------
(* What a step may leave of a player's slots and packets.                  *)

SlotsKept(c) == \A i \in Mine(c)' :
  /\ i \in Mine(c) /\ slot'[i].port = slot[i].port /\ slot'[i].qport = slot[i].qport
  /\ slot'[i].challenge = slot[i].challenge
ConnectsKept(c) == \A m \in Connects(c)' : \E l \in Connects(c) :
  /\ m.port = l.port /\ m.qport = l.qport /\ m.challenge = l.challenge
  /\ Valid(m)' # {} => Valid(l) # {}
ClientKept(c) == /\ client'[c].state = client[c].state /\ client'[c].port = client[c].port
                 /\ client'[c].qport = client[c].qport
                 /\ client'[c].challenge = client[c].challenge

\* A player's slots stay apart when there are no more of them, and no more connects.
LEMMA ApartKept ==
  ASSUME NEW c \in Clients, Apart(c), SlotsKept(c), ConnectsKept(c),
         client'[c].port = client[c].port, client'[c].qport = client[c].qport
  PROVE  Apart(c)'
<1>1. \A i, j \in Mine(c)' :
        slot'[i].qport = slot'[j].qport \/ slot'[i].port = slot'[j].port => i = j
  BY DEF Apart, SlotsKept
<1>2. \A q, p : Near(c, q, p)' \subseteq Near(c, q, p) BY DEF Near, SlotsKept
<1>3. AtMostOne(Near(c, client[c].qport, client[c].port))'
  BY <1>2 DEF Apart, AtMostOne
<1>4. ASSUME NEW m \in Connects(c)', Valid(m)' # {} PROVE AtMostOne(Near(c, m.qport, m.port))'
  <2>1. PICK l \in Connects(c) : m.port = l.port /\ m.qport = l.qport /\ Valid(l) # {}
    BY <1>4 DEF ConnectsKept
  <2>2. AtMostOne(Near(c, m.qport, m.port)) BY <2>1 DEF Apart
  <2> QED BY <1>2, <2>2 DEF AtMostOne
<1>5. ASSUME NEW m \in Connects(c)', NEW i \in Mine(c)'
      PROVE  /\ slot'[i].port = client'[c].port /\ slot'[i].qport # client'[c].qport =>
                  (m.qport = client'[c].qport => m.port = client'[c].port)
             /\ m.qport # client'[c].qport => slot'[i].qport # client'[c].qport
  <2>1. PICK l \in Connects(c) : m.port = l.port /\ m.qport = l.qport BY DEF ConnectsKept
  <2>2. i \in Mine(c) /\ slot'[i].port = slot[i].port /\ slot'[i].qport = slot[i].qport
    BY DEF SlotsKept
  <2> QED BY <2>1, <2>2 DEF Apart
<1> QED BY <1>1, <1>3, <1>4, <1>5 DEF Apart

\* So does all that is known of a try, if the client is as before.
LEMMA TryKept ==
  ASSUME NEW c \in Clients, OneTry(c), Keyed(c), SlotsKept(c), ConnectsKept(c), ClientKept(c),
         Responses(c)' # {} => Responses(c) # {}
  PROVE  OneTry(c)' /\ Keyed(c)'
<1>1. OneTry(c)'
  <2>1. Connects(c) = {} => Connects(c)' = {} BY DEF ConnectsKept
  <2>2. Responses(c) = {} => Responses(c)' = {} OBVIOUS
  <2>3. ASSUME NEW m \in Connects(c)', NEW l \in Connects(c)'
        PROVE  m.qport = l.qport /\ m.challenge = l.challenge
    <3>1. PICK n \in Connects(c) : m.qport = n.qport /\ m.challenge = n.challenge
      BY DEF ConnectsKept
    <3>2. PICK k \in Connects(c) : l.qport = k.qport /\ l.challenge = k.challenge
      BY DEF ConnectsKept
    <3> QED BY <3>1, <3>2 DEF OneTry
  <2>4. ASSUME NEW m \in Connects(c)',
               client[c].state \in {"challenging_request", "connected"}
        PROVE  m.qport = client[c].qport /\ m.challenge = client[c].challenge
    <3>1. PICK n \in Connects(c) : m.qport = n.qport /\ m.challenge = n.challenge
      BY DEF ConnectsKept
    <3> QED BY <2>4, <3>1 DEF OneTry
  <2> QED BY <2>1, <2>2, <2>3, <2>4 DEF OneTry, ClientKept
<1>2. Keyed(c)'
  <2>1. LetIn(c)' => LetIn(c) BY DEF LetIn, ClientKept
  <2> QED BY <2>1 DEF Keyed, SlotsKept, ClientKept
<1> QED BY <1>1, <1>2

\* A player whose client, slots and packets a step leaves alone.
Untouched(c) ==
  /\ client'[c] = client[c]
  /\ \A i \in Mine(c)' : i \in Mine(c) /\ slot'[i] = slot[i]
  /\ Requested(c)' \subseteq Requested(c) /\ Answers(c)' \subseteq Answers(c)
  /\ \A m \in Connects(c) : Valid(m)' # {} => Valid(m) # {}

\* The packets of a try are of the packets.
LEMMA TryPackets ==
  ASSUME NEW c
  PROVE  /\ Connects(c) = {m \in Requested(c) : m.kind = "connect"}
         /\ Responses(c) = {m \in Answers(c) : m.kind = "connectResponse"}
BY DEF Requested, Answers, Connects, Responses, RequestKinds, AnswerKinds

\* What is known of a player whom a step leaves alone.
LEMMA UntouchedHolds ==
  ASSUME NEW c \in Clients, Settled(c), Untouched(c)
  PROVE  Settled(c)'
<1>1. Connects(c)' \subseteq Connects(c) /\ Responses(c)' \subseteq Responses(c)
  BY TryPackets DEF Untouched, Requested, Answers, Connects, Responses, RequestKinds, AnswerKinds
<1>2. SlotsKept(c) /\ ClientKept(c) BY DEF Untouched, SlotsKept, ClientKept
<1>3. ConnectsKept(c) BY <1>1 DEF ConnectsKept, Untouched
<1>4. Apart(c)' /\ OneTry(c)' /\ Keyed(c)'
  BY <1>1, <1>2, <1>3, ApartKept, TryKept DEF Settled, Untouched
<1>5. Waited(c)' BY DEF Settled, Waited, Untouched
<1>6. Recent(c)' BY <1>1 DEF Settled, Recent, Untouched
<1> QED BY <1>4, <1>5, <1>6 DEF Settled

----------------------------------------------------------------------------
(* The clients' steps keep it.                                             *)

\* What is of a player stays the player's when there were more incidents.
LEMMA OwnGrows ==
  ASSUME incidents \in Nat, incidents' \in Nat, incidents' >= incidents
  PROVE  /\ \A c : OwnQPorts(c) \subseteq OwnQPorts(c)'
         /\ \A m : PacketOwned(m) => PacketOwned(m)'
         /\ \A i : SlotOwned(i) /\ slot'[i] = slot[i] => SlotOwned(i)'
<1>1. \A c : OwnQPorts(c) \subseteq OwnQPorts(c)' BY DEF OwnQPorts
<1>2. \A m : PacketOwned(m) => PacketOwned(m)' BY <1>1 DEF PacketOwned
<1> QED BY <1>1, <1>2 DEF SlotOwned

\* A player's client changes, and may send something, which is no other player's
\* business.
LEMMA ClientActs ==
  ASSUME IInv, Agreed, NEW c \in Clients, \A d \in Clients \ {c} : client'[d] = client[d],
         UNCHANGED <<slot, challenges, hasty>>, incidents' \in Nat, incidents' >= incidents,
         \A m \in net' \ net : /\ PacketOwned(m)' /\ m.kind \in RequestKinds
                               /\ Player(m) = c /\ Issued(m.challenge),
         client'[c].port \in PortsOf[c], client'[c].qport \in OwnQPorts(c)',
         Issued(client'[c].challenge), c \notin hasty => Settled(c)'
  PROVE  Agreed'
<1>1. incidents \in Nat BY DEF IInv, Types
<1>3. Owned'
  <2>1. \A d \in Clients : client'[d].port \in PortsOf[d] /\ client'[d].qport \in OwnQPorts(d)'
    BY <1>1, OwnGrows DEF Agreed, Owned
  <2>2. \A i \in Slots : slot'[i].port # NoPort => SlotOwned(i)'
    BY <1>1, OwnGrows DEF Agreed, Owned
  <2>3. \A m \in net' : PacketOwned(m)' BY <1>1, OwnGrows DEF Agreed, Owned
  <2> QED BY <2>1, <2>2, <2>3 DEF Agreed, Owned
<1>4. Numbered'
  <2>1. \A n : Issued(n) => Issued(n)' BY DEF Issued
  <2> QED BY <2>1 DEF Agreed, Numbered
<1>5. ASSUME NEW d \in Clients \ {c}, d \notin hasty PROVE Settled(d)'
  <2>1. Untouched(d)
    <3>1. Requested(d)' \subseteq Requested(d) BY DEF Requested
    <3>2. Answers(d)' \subseteq Answers(d) BY DEF Answers, RequestKinds, AnswerKinds
    <3> QED BY <3>1, <3>2 DEF Untouched, Mine, Valid
  <2> QED BY <1>5, <2>1, UntouchedHolds DEF Agreed
<1> QED BY <1>3, <1>4, <1>5 DEF Agreed

\* No challenge is one that was issued.
LEMMA NoneIssued ==
  ASSUME IInv
  PROVE  Issued(NoChallenge)
<1>1. PICK k \in Entries : TRUE BY ConstantsTyped
<1>2. challenges[k].challenge \in Nat BY DEF IInv, Types, EntryRecords
<1> QED BY <1>2, PortsApart DEF Issued

\* A client sends again what it waits for an answer to.
LEMMA AgreedCheckForResend ==
  ASSUME IInv, Agreed, NEW c \in Clients, CL_CheckForResend(c)
  PROVE  Agreed'
<1> DEFINE s == [client[c] EXCEPT !.age = 0]
<1>0. PICK m : m = ToServer(Requests[client[c].state], c) OBVIOUS
<1>1. /\ client' = [client EXCEPT ![c] = s] /\ UNCHANGED <<slot, challenges, incidents, hasty>>
      /\ client[c].state \in {"connecting", "challenging_info", "challenging_request"}
      /\ net' \subseteq net \cup {m}
  BY <1>0, SendAdds DEF CL_CheckForResend, Requests
<1>2. client[c] \in ClientRecords /\ incidents \in Nat BY DEF IInv, Types
<1>3. /\ s.state = client[c].state /\ s.port = client[c].port /\ s.qport = client[c].qport
      /\ s.challenge = client[c].challenge
  BY <1>2 DEF ClientRecords
<1>4. /\ m.kind \in RequestKinds /\ m.port = client[c].port /\ m.qport = client[c].qport
      /\ m.challenge = client[c].challenge
      /\ m.kind = "connect" => client[c].state = "challenging_request"
  BY <1>0, <1>1 DEF ToServer, Requests, RequestKinds
<1>5. client[c].port \in PortsOf[c] /\ client[c].qport \in OwnQPorts(c) BY DEF Agreed, Owned
<1>6. Player(m) = c BY <1>4, <1>5 DEF OwnQPorts, Player
<1>7. m \in RequestRecords
  <2>1. Requests[client[c].state] \in RequestKinds BY <1>1 DEF Requests, RequestKinds
  <2> QED BY <1>0, <1>2, <2>1, PortsApart DEF ToServer, RequestRecords, ClientRecords
<1> HIDE DEF s
<1>8. client'[c] = s /\ \A d \in Clients \ {c} : client'[d] = client[d]
  BY <1>1 DEF IInv, Types
<1>9. PacketOwned(m)' /\ Issued(m.challenge)
  BY <1>1, <1>4, <1>5, <1>6, <1>7 DEF PacketOwned, OwnQPorts, Agreed, Numbered
<1>10. m.kind \notin AnswerKinds BY <1>4 DEF RequestKinds, AnswerKinds
<1>11. Responses(c)' \subseteq Responses(c)
  BY <1>1, <1>10 DEF Responses, AnswerKinds
<1>12. \A l \in Connects(c)' : l \in Connects(c) \/ (l = m /\ m.kind = "connect")
  BY <1>1 DEF Connects
<1>13. ASSUME c \notin hasty PROVE Settled(c)'
  <2> USE <1>13
  <2>1. Apart(c)'
    <3>1. /\ Mine(c)' = Mine(c) /\ \A q, p : Near(c, q, p)' = Near(c, q, p)
          /\ \A l : Valid(l)' = Valid(l)
      BY <1>1 DEF Mine, Near, Valid
    <3>2. /\ \A i, j \in Mine(c)' :
                slot'[i].qport = slot'[j].qport \/ slot'[i].port = slot'[j].port => i = j
          /\ AtMostOne(Near(c, client[c].qport, client[c].port))'
      BY <1>1, <1>3, <1>8, <3>1 DEF Agreed, Settled, Apart, AtMostOne
    <3>3. ASSUME NEW l \in Connects(c)', Valid(l)' # {}
          PROVE  AtMostOne(Near(c, l.qport, l.port))'
      BY <1>4, <1>12, <3>1, <3>3 DEF Agreed, Settled, Apart, AtMostOne
    <3>4. ASSUME NEW l \in Connects(c)', NEW i \in Mine(c)'
          PROVE  /\ slot'[i].port = client'[c].port /\ slot'[i].qport # client'[c].qport =>
                      (l.qport = client'[c].qport => l.port = client'[c].port)
                 /\ l.qport # client'[c].qport => slot'[i].qport # client'[c].qport
      BY <1>1, <1>3, <1>4, <1>8, <1>12, <3>1 DEF Agreed, Settled, Apart
    <3> QED BY <3>2, <3>3, <3>4 DEF Apart
  <2>2. OneTry(c)' BY <1>1, <1>3, <1>4, <1>8, <1>11, <1>12 DEF Agreed, Settled, OneTry
  <2>3. Keyed(c)'
    <3>1. Mine(c)' = Mine(c) BY <1>1 DEF Mine
    <3> QED BY <1>1, <1>3, <1>8, <1>11, <3>1 DEF Agreed, Settled, Keyed, LetIn
  <2>4. Recent(c)'
    <3>1. Mine(c)' = Mine(c) BY <1>1 DEF Mine
    <3> QED BY <1>1, <1>3, <1>8, <1>11, <3>1 DEF Agreed, Settled, Recent
  <2> QED BY <1>1, <1>3, <1>8, <2>1, <2>2, <2>3, <2>4 DEF Settled, Waited
<1>14. s.port \in PortsOf[c] /\ s.qport \in OwnQPorts(c)' /\ Issued(s.challenge)
  BY <1>1, <1>3, <1>5 DEF OwnQPorts, Agreed, Numbered
<1>15. \A l \in net' \ net : /\ PacketOwned(l)' /\ l.kind \in RequestKinds
                             /\ Player(l) = c /\ Issued(l.challenge)
  BY <1>1, <1>4, <1>6, <1>9
<1> QED BY <1>1, <1>2, <1>8, <1>13, <1>14, <1>15, ClientActs

\* A step of one player's, that leaves the others alone.
LEMMA OthersUntouched ==
  ASSUME Agreed, NEW c \in Clients, Owned', Numbered',
         hasty \subseteq hasty', c \notin hasty' => Settled(c)',
         \A d \in Clients \ {c} : Untouched(d)
  PROVE  Agreed'
BY UntouchedHolds DEF Agreed

\* Whether an entry may be used again or not, it has the challenge it had.
EntriesKept == \A k \in Entries : /\ challenges'[k].port = challenges[k].port
                                  /\ challenges'[k].challenge = challenges[k].challenge

\* Challenges that are as before are valid, and given out, as before.
LEMMA EntriesKeptHolds ==
  ASSUME EntriesKept
  PROVE  /\ \A m : Valid(m)' = Valid(m)
         /\ \A n : Issued(n)' = Issued(n)
         /\ Numbered /\ (\A m \in net' : Issued(m.challenge))
            /\ (\A c \in Clients : Issued(client'[c].challenge)) => Numbered'
<1>1. \A m : Valid(m)' = Valid(m) BY DEF Valid, EntriesKept
<1>2. \A n : Issued(n)' = Issued(n) BY DEF Issued, EntriesKept
<1>3. ASSUME \A m \in net' : Issued(m.challenge), \A c \in Clients : Issued(client'[c].challenge),
             Numbered
      PROVE  Numbered'
  BY <1>2, <1>3 DEF EntriesKept, Numbered
<1> QED BY <1>1, <1>2, <1>3

\* To drop a client changes no challenge.
LEMMA DroppedEntries ==
  ASSUME IInv, NEW ports, challenges' = Unconnected(ports)
  PROVE  EntriesKept
<1>1. ASSUME NEW k \in Entries, NEW b
      PROVE  /\ [challenges[k] EXCEPT !.connected = b].port = challenges[k].port
             /\ [challenges[k] EXCEPT !.connected = b].challenge = challenges[k].challenge
  BY DEF IInv, Types, EntryRecords
<1> QED BY <1>1 DEF Unconnected, EntriesKept

\* A slot that keeps its fields, but for its state and ages, keeps its owner.
LEMMA SlotOwnedKept ==
  ASSUME NEW i, SlotOwned(i), incidents' = incidents, slot'[i].player = slot[i].player,
         slot'[i].port = slot[i].port, slot'[i].qport = slot[i].qport
  PROVE  SlotOwned(i)'
BY DEF SlotOwned, OwnQPorts

\* A player's packet inside the connection gives its slot the port it came from, which
\* may be dropped then.
HeardOf(c, i) ==
  /\ client[c].state = "connected" /\ i \in Mine(c) /\ slot[i].qport = client[c].qport
  /\ slot'[i].state # "free" /\ slot'[i].player = slot[i].player
  /\ slot'[i].port = client[c].port /\ slot'[i].qport = slot[i].qport
  /\ slot'[i].challenge = slot[i].challenge /\ slot'[i].connectAge = slot[i].connectAge
  /\ \A j \in Slots \ {i} : slot'[j] = slot[j]
OnlyHeard(c) ==
  /\ EntriesKept /\ net' = net /\ incidents' = incidents
  /\ slot' = slot \/ \E i \in Mine(c) : HeardOf(c, i)

\* A slot that is dropped was heard of.
LEMMA DropHeard ==
  ASSUME IInv, Agreed, NEW c \in Clients, client[c].state = "connected", NEW i \in Heard(c),
         SV_DropClient(i, client[c].port)
  PROVE  EntriesKept /\ HeardOf(c, i)
<1>1. i \in Mine(c) /\ i \in Slots /\ slot[i].qport = client[c].qport
  BY FoundMine DEF Agreed, Heard, Mine
<1>2. slot \in [Slots -> SlotRecords] /\ client[c].port \in Nat
  BY DEF IInv, Types, ClientRecords
<1>3. /\ slot'[i].state = "zombie" /\ slot'[i].port = client[c].port
      /\ slot'[i].qport = slot[i].qport /\ slot'[i].challenge = slot[i].challenge
      /\ slot'[i].player = slot[i].player /\ slot'[i].connectAge = slot[i].connectAge
      /\ \A j \in Slots \ {i} : slot'[j] = slot[j]
  BY <1>1, <1>2, ZombieIs DEF SV_DropClient
<1>4. EntriesKept BY DroppedEntries DEF SV_DropClient
<1> QED BY <1>1, <1>3, <1>4 DEF HeardOf

\* Who leaves may take the slot with it that it is heard in, and no other.
LEMMA LeavesHeard ==
  ASSUME IInv, Agreed, NEW c \in Clients, Leaves(c), net' = net, incidents' = incidents
  PROVE  OnlyHeard(c)
<1>1. CASE UNCHANGED <<slot, challenges, game>> BY <1>1 DEF EntriesKept, OnlyHeard
<1>2. ASSUME client[c].state = "connected", NEW i \in Heard(c),
             SV_DropClient(i, client[c].port)
      PROVE  OnlyHeard(c)
  <2>1. EntriesKept /\ HeardOf(c, i) BY <1>2, DropHeard
  <2> QED BY <2>1 DEF OnlyHeard, HeardOf
<1> QED BY <1>1, <1>2 DEF Leaves

\* To hear of a player keeps the player's slots its own.
LEMMA HeardMine ==
  ASSUME NEW c \in Clients, OnlyHeard(c), NEW d \in Clients
  PROVE  /\ Mine(d)' = Mine(d)
         /\ d # c => \A j \in Mine(d) : slot'[j] = slot[j]
<1>1. CASE slot' = slot BY <1>1 DEF Mine
<1>2. ASSUME NEW i \in Mine(c), HeardOf(c, i)
      PROVE  /\ Mine(d)' = Mine(d)
             /\ d # c => \A j \in Mine(d) : slot'[j] = slot[j]
  <2>1. i \in Slots /\ slot[i].state # "free" /\ slot[i].player = c BY DEF Mine
  <2>2. /\ slot'[i].state # "free" /\ slot'[i].player = c
        /\ \A j \in Slots \ {i} : slot'[j] = slot[j]
    BY <1>2, <2>1 DEF HeardOf
  <2> QED BY <2>1, <2>2 DEF Mine
<1> QED BY <1>1, <1>2 DEF OnlyHeard

\* A player's client changes, and its slot may be heard of, which is no other player's
\* business.
LEMMA HeardActs ==
  ASSUME IInv, Agreed, NEW c \in Clients, OnlyHeard(c), hasty \subseteq hasty',
         \A d \in Clients \ {c} : client'[d] = client[d],
         client'[c].port = client[c].port, client'[c].qport = client[c].qport,
         Issued(client'[c].challenge), c \notin hasty' => Settled(c)'
  PROVE  Agreed'
<1>1. EntriesKept /\ net' = net /\ incidents' = incidents BY DEF OnlyHeard
<1>2. \A d \in Clients : client'[d].port = client[d].port /\ client'[d].qport = client[d].qport
  OBVIOUS
<1>3. Owned'
  <2>1. \A d \in Clients : client'[d].port \in PortsOf[d] /\ client'[d].qport \in OwnQPorts(d)'
    BY <1>1, <1>2 DEF Agreed, Owned, OwnQPorts
  <2>2. ASSUME NEW j \in Slots
        PROVE  /\ slot'[j].port # NoPort => SlotOwned(j)'
               /\ slot'[j].state # "free" => slot'[j].port # NoPort
    <3>1. CASE slot'[j] = slot[j] BY <1>1, <3>1, SlotOwnedKept DEF Agreed, Owned
    <3>2. CASE slot'[j] # slot[j]
      <4>1. HeardOf(c, j) /\ j \in Mine(c) BY <3>2 DEF OnlyHeard, HeardOf
      <4>2. SlotOwned(j) /\ slot[j].player = c BY <4>1 DEF Agreed, Owned, Mine
      <4>3. client[c].port \in PortsOf[c] /\ client[c].port # NoPort
        BY PortsApart DEF Agreed, Owned
      <4> QED BY <1>1, <4>1, <4>2, <4>3 DEF HeardOf, SlotOwned, OwnQPorts
    <3> QED BY <3>1, <3>2
  <2>3. \A m \in net' : PacketOwned(m)' BY <1>1 DEF Agreed, Owned, PacketOwned, OwnQPorts
  <2> QED BY <2>1, <2>2, <2>3 DEF Owned
<1>4. Numbered'
  <2>1. \A d \in Clients : Issued(client'[d].challenge) BY DEF Agreed, Numbered
  <2> QED BY <1>1, <2>1, EntriesKeptHolds DEF Agreed, Numbered
<1>5. \A d \in Clients \ {c} : Untouched(d)
  <2>1. \A d : Requested(d)' = Requested(d) /\ Answers(d)' = Answers(d)
    BY <1>1 DEF Requested, Answers
  <2> QED BY <1>1, <2>1, HeardMine, EntriesKeptHolds DEF Untouched
<1> QED BY <1>3, <1>4, <1>5, OthersUntouched

\* A player's slots stay apart when one of them is heard of: its port is the client's then,
\* which no other slot has.
LEMMA HeardApart ==
  ASSUME Agreed, NEW c \in Clients \ hasty, OnlyHeard(c),
         client'[c].port = client[c].port, client'[c].qport = client[c].qport
  PROVE  Apart(c)'
<1>1. /\ Connects(c)' = Connects(c) /\ Mine(c)' = Mine(c)
      /\ \A m : Valid(m)' = Valid(m)
  BY HeardMine, EntriesKeptHolds DEF OnlyHeard, Connects
<1>2. CASE slot' = slot
  <2>1. SlotsKept(c) /\ ConnectsKept(c) BY <1>1, <1>2 DEF SlotsKept, ConnectsKept
  <2> QED BY <2>1, ApartKept DEF Agreed, Settled
<1>3. ASSUME NEW i \in Mine(c), HeardOf(c, i) PROVE Apart(c)'
  <2>1. /\ slot[i].qport = client[c].qport /\ slot'[i].qport = slot[i].qport
        /\ slot'[i].port = client[c].port /\ client[c].state = "connected"
        /\ \A j \in Mine(c) \ {i} : slot'[j] = slot[j]
    BY <1>3 DEF HeardOf, Mine
  <2>2. \A m \in Connects(c) : m.qport = client[c].qport
    BY <2>1 DEF Agreed, Settled, OneTry
  <2>3. \A j \in Mine(c) :
          slot[j].port = client[c].port \/ slot[j].qport = client[c].qport => j = i
    BY <2>1 DEF Agreed, Settled, Apart, AtMostOne, Near
  <2>4. \A j \in Mine(c) :
          slot'[j].port = client[c].port \/ slot'[j].qport = client[c].qport => j = i
    BY <2>1, <2>3
  <2>5. ASSUME NEW j \in Mine(c), NEW k \in Mine(c),
               slot'[j].qport = slot'[k].qport \/ slot'[j].port = slot'[k].port
        PROVE  j = k
    BY <2>1, <2>3, <2>5 DEF Agreed, Settled, Apart
  <2>6. AtMostOne(Near(c, client[c].qport, client[c].port))'
    BY <1>1, <2>4 DEF AtMostOne, Near
  <2>7. ASSUME NEW m \in Connects(c), Valid(m) # {} PROVE AtMostOne(Near(c, m.qport, m.port))'
    <3>1. AtMostOne(Near(c, m.qport, m.port)) /\ m.qport = client[c].qport
      BY <2>2, <2>7 DEF Agreed, Settled, Apart
    <3>2. \A j \in Mine(c) : slot[j].port = m.port => j = i
      BY <2>1, <3>1 DEF AtMostOne, Near
    <3>3. \A j \in Near(c, m.qport, m.port)' : j = i
      <4> TAKE j \in Near(c, m.qport, m.port)'
      <4>1. j \in Mine(c) /\ (slot'[j].qport = m.qport \/ slot'[j].port = m.port)
        BY <1>1 DEF Near
      <4>2. j # i => slot'[j] = slot[j] BY <2>1, <4>1
      <4> QED BY <2>4, <3>1, <3>2, <4>1, <4>2
    <3> QED BY <3>3 DEF AtMostOne
  <2>8. \A j \in Mine(c) : slot'[j].port = client[c].port => slot'[j].qport = client[c].qport
    BY <2>1, <2>4
  <2> QED BY <1>1, <2>2, <2>5, <2>6, <2>7, <2>8 DEF Apart
<1> QED BY <1>2, <1>3 DEF OnlyHeard

\* A client that leaves: what is under way is of a try that is over.
LEMMA AgreedDisconnect ==
  ASSUME IInv, Agreed, NEW c \in Clients, CL_Disconnect(c)
  PROVE  Agreed'
<1>1. /\ client'[c].state = "disconnected" /\ client'[c].port = client[c].port
      /\ client'[c].qport = client[c].qport /\ client'[c].challenge = NoChallenge
      /\ client'[c].age = 0 /\ \A d \in Clients \ {c} : client'[d] = client[d]
  <2>1. client[c] \in ClientRecords /\ client \in [Clients -> ClientRecords] BY DEF IInv, Types
  <2> QED BY <2>1 DEF CL_Disconnect, ClientRecords
<1>2. net' = net /\ incidents' = incidents /\ hasty' = hasty BY DEF CL_Disconnect
<1>3. OnlyHeard(c) BY <1>2, LeavesHeard DEF CL_Disconnect
<1>4. ASSUME c \notin hasty PROVE Settled(c)'
  <2> USE <1>4
  <2>1. Apart(c)' BY <1>1, <1>3, HeardApart
  <2>2. Waited(c)'
    <3>1. \A m \in net : m.age \in 0 .. MaxAge BY PacketFields DEF Agreed
    <3> QED BY <1>1, <1>2, <3>1, PortsApart DEF Waited, Requested, Answers
  <2>3. OneTry(c)'
    <3>1. Connects(c)' = Connects(c) BY <1>2 DEF Connects
    <3> QED BY <1>1, <3>1 DEF OneTry, Agreed, Settled
  <2>4. Keyed(c)' /\ Recent(c)' BY <1>1 DEF Keyed, LetIn, Recent
  <2> QED BY <2>1, <2>2, <2>3, <2>4 DEF Settled
<1> QED BY <1>1, <1>2, <1>3, <1>4, NoneIssued, HeardActs

\* Who tries again once the last try is over starts anew: nothing is under way from that
\* player or to it.
LEMMA AgreedConnect_f ==
  ASSUME IInv, Agreed, NEW c \in Clients, CL_Connect_f(c)
  PROVE  Agreed'
<1>1. /\ client'[c].state = "connecting" /\ client'[c].port = client[c].port
      /\ client'[c].qport = client[c].qport /\ client'[c].challenge = NoChallenge
      /\ \A d \in Clients \ {c} : client'[d] = client[d]
  <2>1. client[c] \in ClientRecords /\ client \in [Clients -> ClientRecords] BY DEF IInv, Types
  <2> QED BY <2>1 DEF CL_Connect_f, ClientRecords
<1>2. /\ net' = net /\ incidents' = incidents /\ hasty \subseteq hasty'
      /\ c \notin hasty' => c \notin hasty /\ TryIsOver(c)
  BY DEF CL_Connect_f
<1>3. OnlyHeard(c) BY <1>2, LeavesHeard DEF CL_Connect_f
<1>4. ASSUME c \notin hasty' PROVE Settled(c)'
  <2>1. c \notin hasty /\ client[c].state = "disconnected" /\ client[c].age > 2 * MaxAge
    BY <1>2, <1>4 DEF TryIsOver
  <2>2. \A m \in net : m.age \in Nat /\ m.age <= MaxAge BY PacketFields, PortsApart DEF Agreed
  <2>3. client[c].age \in Nat BY DEF IInv, Types, ClientRecords
  <2>4. Requested(c) = {} /\ Answers(c) = {}
    <3>1. ASSUME NEW m \in Requested(c) PROVE FALSE
      BY <2>1, <2>2, <2>3, PortsApart DEF Agreed, Settled, Waited, Requested
    <3>2. ASSUME NEW m \in Answers(c) PROVE FALSE
      BY <2>1, <2>2, <2>3, PortsApart DEF Agreed, Settled, Waited, Answers
    <3> QED BY <3>1, <3>2
  <2>5. Connects(c) = {} /\ Responses(c) = {} BY <2>4, TryPackets
  <2>6. Connects(c)' = {} /\ Responses(c)' = {} BY <1>2, <2>5 DEF Connects, Responses
  <2>7. Apart(c)' BY <1>1, <1>3, <2>1, HeardApart
  <2> QED BY <1>1, <2>6, <2>7 DEF Settled, Waited, OneTry, Keyed, LetIn, Recent
<1> QED BY <1>1, <1>2, <1>3, <1>4, NoneIssued, HeardActs

\* A port that nobody has leads to no slot.
LEMMA AgreedTranslate ==
  ASSUME IInv, Agreed, NEW c \in Clients, Translate(c)
  PROVE  Agreed'
<1>1. PICK p \in Translated(c) : client' = [client EXCEPT ![c].port = p] BY DEF Translate
<1>2. UNCHANGED <<slot, challenges, net, hasty>> /\ incidents' = incidents + 1 BY DEF Translate
<1>3. p \in PortsOf[c] /\ \A i \in Slots : slot[i].state # "free" => slot[i].port # p
  BY <1>1 DEF Translated
<1>4. /\ client'[c].state = client[c].state /\ client'[c].port = p
      /\ client'[c].qport = client[c].qport /\ client'[c].challenge = client[c].challenge
      /\ client'[c].age = client[c].age /\ \A d \in Clients \ {c} : client'[d] = client[d]
  <2>1. client[c] \in ClientRecords /\ client \in [Clients -> ClientRecords] BY DEF IInv, Types
  <2> QED BY <1>1, <2>1 DEF ClientRecords
<1>5. incidents \in Nat BY DEF IInv, Types
<1>6. /\ Mine(c)' = Mine(c) /\ Connects(c)' = Connects(c) /\ Responses(c)' = Responses(c)
      /\ Requested(c)' = Requested(c) /\ Answers(c)' = Answers(c)
      /\ \A m : Valid(m)' = Valid(m)
      /\ \A q, r : Near(c, q, r)' = Near(c, q, r)
  BY <1>2 DEF Mine, Connects, Responses, Requested, Answers, Valid, Near
<1>7. \A i \in Mine(c) : slot[i].port # p BY <1>3 DEF Mine
<1>8. ASSUME c \notin hasty PROVE Settled(c)'
  <2> USE <1>8
  <2>1. Apart(c)'
    <3>1. AtMostOne(Near(c, client[c].qport, client[c].port))'
      BY <1>2, <1>4, <1>6, <1>7 DEF Agreed, Settled, Apart, AtMostOne, Near
    <3>2. ASSUME NEW m \in Connects(c)', Valid(m)' # {} PROVE AtMostOne(Near(c, m.qport, m.port))'
      BY <1>6, <3>2 DEF Agreed, Settled, Apart, AtMostOne
    <3>3. \A i, j \in Mine(c)' :
            slot'[i].qport = slot'[j].qport \/ slot'[i].port = slot'[j].port => i = j
      BY <1>2, <1>6 DEF Agreed, Settled, Apart
    <3>4. ASSUME NEW m \in Connects(c)', NEW i \in Mine(c)'
          PROVE  /\ slot'[i].port # client'[c].port
                 /\ m.qport # client'[c].qport => slot'[i].qport # client'[c].qport
      BY <1>2, <1>4, <1>6, <1>7 DEF Agreed, Settled, Apart
    <3> QED BY <3>1, <3>2, <3>3, <3>4 DEF Apart
  <2>2. Waited(c)' /\ OneTry(c)'
    BY <1>4, <1>6 DEF Agreed, Settled, Waited, OneTry
  <2>3. Keyed(c)' /\ Recent(c)'
    BY <1>2, <1>4, <1>6, <1>7 DEF Agreed, Settled, Keyed, LetIn, Recent
  <2> QED BY <2>1, <2>2, <2>3 DEF Settled
<1>9. client'[c].qport \in OwnQPorts(c)' /\ Issued(client'[c].challenge)
  BY <1>2, <1>4, <1>5 DEF Agreed, Owned, OwnQPorts, Numbered
<1> QED
  BY <1>2, <1>3, <1>4, <1>5, <1>8, <1>9, ClientActs DEF Settled

\* A process that starts has a qport that is on no slot and in no packet.
LEMMA AgreedCrash ==
  ASSUME IInv, Agreed, NEW c \in Clients, Crash(c)
  PROVE  Agreed'
<1>1. /\ UNCHANGED <<slot, challenges, net, hasty>> /\ incidents' = incidents + 1
      /\ client'[c].state = "disconnected" /\ client'[c].port \in PortsOf[c]
      /\ client'[c].qport = <<c, incidents + 1>> /\ client'[c].challenge = NoChallenge
      /\ client'[c].age = 0 /\ \A d \in Clients \ {c} : client'[d] = client[d]
  <2>1. client \in [Clients -> ClientRecords] /\ client[c].port \in PortsOf[c]
    BY DEF IInv, Types, Agreed, Owned
  <2> QED BY <2>1 DEF Crash, Translated, QPort
<1>2. incidents \in Nat BY DEF IInv, Types
<1>3. <<c, incidents + 1>> \in OwnQPorts(c)' /\ <<c, incidents + 1>> \notin OwnQPorts(c)
  BY <1>1, <1>2 DEF OwnQPorts
<1>4. /\ Mine(c)' = Mine(c) /\ Connects(c)' = Connects(c) /\ Responses(c)' = Responses(c)
      /\ Requested(c)' = Requested(c) /\ Answers(c)' = Answers(c)
      /\ \A m : Valid(m)' = Valid(m)
      /\ \A q, r : Near(c, q, r)' = Near(c, q, r)
  BY <1>1 DEF Mine, Connects, Responses, Requested, Answers, Valid, Near
<1>5. \A i \in Mine(c) : slot[i].qport # <<c, incidents + 1>>
  BY <1>3 DEF Agreed, Owned, SlotOwned, Mine
<1>6. \A m \in Connects(c) : m.qport # <<c, incidents + 1>>
  BY <1>3, PacketFields DEF Agreed, Connects, RequestKinds
<1>7. ASSUME c \notin hasty PROVE Settled(c)'
  <2> USE <1>7
  <2>1. Apart(c)'
    <3>1. AtMostOne(Near(c, client[c].qport, client[c].port))'
      BY <1>1, <1>4, <1>5 DEF Agreed, Settled, Apart, AtMostOne, Near
    <3>2. ASSUME NEW m \in Connects(c)', Valid(m)' # {} PROVE AtMostOne(Near(c, m.qport, m.port))'
      BY <1>4, <3>2 DEF Agreed, Settled, Apart, AtMostOne
    <3>3. \A i, j \in Mine(c)' :
            slot'[i].qport = slot'[j].qport \/ slot'[i].port = slot'[j].port => i = j
      BY <1>1, <1>4 DEF Agreed, Settled, Apart
    <3>4. \A m \in Connects(c)' : m.qport # client'[c].qport BY <1>1, <1>4, <1>6
    <3>5. \A i \in Mine(c)' : slot'[i].qport # client'[c].qport BY <1>1, <1>4, <1>5
    <3> QED BY <3>1, <3>2, <3>3, <3>4, <3>5 DEF Apart
  <2>2. Waited(c)'
    <3>1. \A m \in net : m.age \in 0 .. MaxAge BY PacketFields DEF Agreed
    <3> QED BY <1>1, <3>1, PortsApart DEF Waited, Requested, Answers
  <2>3. OneTry(c)' BY <1>1, <1>4 DEF Agreed, Settled, OneTry
  <2>4. Keyed(c)' /\ Recent(c)' BY <1>1 DEF Keyed, LetIn, Recent
  <2> QED BY <2>1, <2>2, <2>3, <2>4 DEF Settled
<1> QED
  BY <1>1, <1>2, <1>3, <1>7, NoneIssued, ClientActs DEF Settled

\* The answer a client waits for, in the state it waits for it.
LEMMA Awaited ==
  ASSUME NEW c \in Clients, client[c].state \in States, NEW kind,
         Becomes(c, kind) # client[c].state
  PROVE  \/ /\ kind = "challengeResponse" /\ client[c].state = "connecting"
            /\ Becomes(c, kind) = "challenging_info"
         \/ /\ kind = "infoResponse" /\ client[c].state = "challenging_info"
            /\ Becomes(c, kind) = "challenging_request"
         \/ /\ kind = "connectResponse" /\ Becomes(c, kind) = "connected"
            /\ client[c].state \in {"challenging_info", "challenging_request"}
BY DEF Becomes

\* A client goes on in its try: connected once an answer to a connect has come, which
\* was sent when the slot was given to it.
LEMMA AgreedConnectionlessPacket ==
  ASSUME IInv, Agreed, NEW c \in Clients, NEW m \in net, CL_ConnectionlessPacket(c, m)
  PROVE  Agreed'
<1>1. CASE CL_Disconnect(c) BY <1>1, AgreedDisconnect
<1>2. ASSUME ~CL_Disconnect(c) PROVE Agreed'
  <2> DEFINE st == Becomes(c, m.kind)
             n == IF m.kind = "challengeResponse" THEN m.challenge ELSE client[c].challenge
  <2>1. /\ m.port = client[c].port /\ st # client[c].state
        /\ UNCHANGED <<slot, challenges, net, incidents, hasty>>
        /\ client' = [client EXCEPT ![c].state = st, ![c].age = LongAgo[st],
                        ![c].challenge = IF m.kind = "challengeResponse"
                                         THEN m.challenge ELSE @]
    BY <1>2 DEF CL_ConnectionlessPacket
  <2>2. client[c] \in ClientRecords /\ client \in [Clients -> ClientRecords] /\ incidents \in Nat
    BY DEF IInv, Types
  <2>3. \/ /\ m.kind = "challengeResponse" /\ client[c].state = "connecting"
           /\ st = "challenging_info"
        \/ /\ m.kind = "infoResponse" /\ client[c].state = "challenging_info"
           /\ st = "challenging_request"
        \/ /\ m.kind = "connectResponse" /\ st = "connected"
           /\ client[c].state \in {"challenging_info", "challenging_request"}
    BY <2>1, <2>2, Awaited, LongAgoType DEF ClientRecords
  <2> HIDE DEF st
  <2>4. /\ client'[c].state = st /\ client'[c].port = client[c].port
        /\ client'[c].qport = client[c].qport /\ client'[c].challenge = n
        /\ \A d \in Clients \ {c} : client'[d] = client[d]
    BY <2>1, <2>2 DEF ClientRecords
  <2>5. client[c].port \in PortsOf[c] /\ client[c].qport \in OwnQPorts(c) /\ Issued(n)
    BY DEF Agreed, Owned, Numbered
  <2> HIDE DEF n
  <2>6. n = client[c].challenge \/ m.kind = "challengeResponse" BY DEF n
  <2>7. m \in Answers(c) BY <2>1, <2>3, <2>5 DEF Answers, AnswerKinds
  <2>8. m.kind = "connectResponse" => m \in Responses(c) BY <2>7 DEF Answers, Responses
  <2>9. /\ Mine(c)' = Mine(c) /\ Connects(c)' = Connects(c) /\ Responses(c)' = Responses(c)
        /\ \A l : Valid(l)' = Valid(l)
    BY <2>1 DEF Mine, Connects, Responses, Valid
  <2>10. ASSUME c \notin hasty PROVE Settled(c)'
    <3> USE <2>10
    <3>1. m.kind = "connectResponse" => client[c].state = "challenging_request"
      BY <2>3, <2>8 DEF Agreed, Settled, OneTry
    <3>2. Apart(c)'
      <4>1. SlotsKept(c) /\ ConnectsKept(c) BY <2>1, <2>9 DEF SlotsKept, ConnectsKept
      <4> QED BY <2>4, <4>1, ApartKept DEF Agreed, Settled
    <3>3. Waited(c)' BY <2>3, <2>4 DEF Waited
    <3>4. OneTry(c)' BY <2>3, <2>4, <2>6, <3>1, <2>9 DEF Agreed, Settled, OneTry
    <3>5. Keyed(c)'
      <4>1. LetIn(c)' => LetIn(c) /\ m.kind = "connectResponse"
        BY <2>3, <2>4, <2>8, <3>1, <2>9 DEF LetIn, Agreed, Settled, OneTry
      <4> QED BY <2>1, <2>4, <2>6, <2>9, <4>1 DEF Agreed, Settled, Keyed
    <3>6. Recent(c)'
      <4>1. CASE st = "challenging_request"
        BY <2>3, <2>4, <2>9, <4>1 DEF Agreed, Settled, OneTry, Recent
      <4>2. CASE st = "connected"
        <5>1. /\ \A l \in net : l.age \in 0 .. MaxAge
              /\ \A i \in Mine(c) : slot[i].connectAge \in Nat
          BY PacketFields DEF Agreed, Mine, IInv, Types, SlotRecords
        <5>2. \A i \in Mine(c) : slot[i].qport = client[c].qport => slot[i].connectAge <= m.age
          BY <2>3, <2>8, <3>1, <4>2 DEF Agreed, Settled, Recent
        <5>3. \A i \in Mine(c), l \in Connects(c) :
                slot[i].qport = client[c].qport => slot[i].connectAge <= l.age + MaxAge
          BY <5>1, <5>2, PortsApart DEF Connects
        <5> QED BY <2>1, <2>4, <2>9, <4>2, <5>3 DEF Recent
      <4>3. CASE st = "challenging_info" BY <2>4, <4>3 DEF Recent
      <4> QED BY <2>3, <4>1, <4>2, <4>3
    <3> QED BY <3>2, <3>3, <3>4, <3>5, <3>6 DEF Settled
  <2>11. client'[c].qport \in OwnQPorts(c)' BY <2>1, <2>4, <2>5 DEF OwnQPorts
  <2> QED
    BY <2>1, <2>2, <2>4, <2>5, <2>10, <2>11, ClientActs DEF Settled
<1> QED BY <1>1, <1>2

\* A packet of the connection tells the client that the server is there, or to leave.
LEMMA AgreedPacketEvent ==
  ASSUME IInv, Agreed, NEW c \in Clients, NEW i \in Slots, CL_PacketEvent(c, i)
  PROVE  Agreed'
<1>1. CASE CL_Disconnect(c) BY <1>1, AgreedDisconnect
<1>2. ASSUME ~CL_Disconnect(c) PROVE Agreed'
  <2>1. /\ client[c].state = "connected" /\ client' = [client EXCEPT ![c].age = 0]
        /\ UNCHANGED <<slot, challenges, net, incidents, hasty>>
    BY <1>2 DEF CL_PacketEvent
  <2>2. client[c] \in ClientRecords /\ client \in [Clients -> ClientRecords] /\ incidents \in Nat
    BY DEF IInv, Types
  <2>3. ClientKept(c) /\ \A d \in Clients \ {c} : client'[d] = client[d]
    BY <2>1, <2>2 DEF ClientRecords, ClientKept
  <2>4. /\ Mine(c)' = Mine(c) /\ Connects(c)' = Connects(c) /\ Responses(c)' = Responses(c)
        /\ \A l : Valid(l)' = Valid(l)
    BY <2>1 DEF Mine, Connects, Responses, Valid
  <2>5. SlotsKept(c) /\ ConnectsKept(c) BY <2>1, <2>4 DEF SlotsKept, ConnectsKept
  <2>6. ASSUME c \notin hasty PROVE Settled(c)'
    <3> USE <2>6
    <3>1. Apart(c)' /\ OneTry(c)' /\ Keyed(c)'
      BY <2>3, <2>4, <2>5, ApartKept, TryKept DEF Agreed, Settled, ClientKept
    <3>2. Waited(c)' /\ Recent(c)'
      BY <2>1, <2>3, <2>4 DEF Waited, Recent, Agreed, Settled, ClientKept
    <3> QED BY <3>1, <3>2 DEF Settled
  <2>7. /\ client'[c].port \in PortsOf[c] /\ client'[c].qport \in OwnQPorts(c)'
        /\ Issued(client'[c].challenge)
    BY <2>1, <2>3 DEF Agreed, Owned, Numbered, OwnQPorts, ClientKept
  <2> QED BY <2>1, <2>2, <2>3, <2>6, <2>7, ClientActs DEF Settled
<1> QED BY <1>1, <1>2

----------------------------------------------------------------------------
(* So do the server's.                                                     *)

\* A packet of the connection finds the slot of its player, and may bring a port, or, when
\* the keys differ, the end of the connection.
LEMMA AgreedServerPacket ==
  ASSUME IInv, Agreed, NEW c \in Clients, SV_PacketEvent(c)
  PROVE  Agreed'
<1>1. /\ client[c].state = "connected" /\ UNCHANGED <<client, net, incidents, hasty>>
  BY DEF SV_PacketEvent
<1>2. OnlyHeard(c)
  <2>1. ASSUME NEW i \in Heard(c), UNCHANGED challenges,
               \/ slot' = [slot EXCEPT ![i].port = client[c].port]
               \/ slot' = [[slot EXCEPT ![i].port = client[c].port] EXCEPT ![i].packetAge = 0]
        PROVE  OnlyHeard(c)
    <3>1. i \in Mine(c) /\ i \in Slots /\ slot[i].qport = client[c].qport
      BY FoundMine DEF Agreed, Heard, Mine
    <3>2. slot \in [Slots -> SlotRecords] /\ client[c].port \in Nat
      BY DEF IInv, Types, ClientRecords
    <3>3. /\ slot'[i].port = client[c].port /\ slot'[i].state = slot[i].state
          /\ slot'[i].player = slot[i].player /\ slot'[i].qport = slot[i].qport
          /\ slot'[i].challenge = slot[i].challenge
          /\ slot'[i].connectAge = slot[i].connectAge
          /\ \A j \in Slots \ {i} : slot'[j] = slot[j]
      BY <2>1, <3>1, <3>2, MovedIs
    <3>4. HeardOf(c, i) BY <1>1, <3>1, <3>3 DEF HeardOf, Mine
    <3> QED BY <1>1, <2>1, <3>1, <3>4 DEF OnlyHeard, EntriesKept
  <2>2. ASSUME NEW i \in Heard(c), SV_DropClient(i, client[c].port) PROVE OnlyHeard(c)
    <3>1. EntriesKept /\ HeardOf(c, i) BY <1>1, <2>2, DropHeard
    <3> QED BY <1>1, <3>1 DEF OnlyHeard, HeardOf
  <2> QED BY <2>1, <2>2 DEF SV_PacketEvent
<1>3. ASSUME c \notin hasty PROVE Settled(c)'
  <2> USE <1>3
  <2>1. Apart(c)' BY <1>1, <1>2, HeardApart
  <2>2. /\ Mine(c)' = Mine(c) /\ Connects(c)' = Connects(c) /\ Responses(c)' = Responses(c)
        /\ Requested(c)' = Requested(c) /\ Answers(c)' = Answers(c)
    BY <1>1, <1>2, HeardMine DEF Connects, Responses, Requested, Answers
  <2>3. Waited(c)' /\ OneTry(c)' BY <1>1, <2>2 DEF Agreed, Settled, Waited, OneTry
  <2>4. ASSUME NEW j \in Mine(c)
        PROVE  /\ slot'[j].qport = slot[j].qport /\ slot'[j].challenge = slot[j].challenge
               /\ slot'[j].connectAge = slot[j].connectAge
               /\ slot'[j].port \in {slot[j].port, client[c].port}
               /\ slot'[j].port # slot[j].port => slot[j].qport = client[c].qport
    BY <1>2 DEF OnlyHeard, HeardOf, Mine
  <2>5. Keyed(c)'
    <3>1. \A j \in Mine(c) :
            /\ slot[j].qport = client[c].qport => slot[j].challenge = client[c].challenge
            /\ slot[j].port = client[c].port => slot[j].qport = client[c].qport
      BY <1>1 DEF Agreed, Settled, Keyed, LetIn
    <3>2. ASSUME NEW j \in Mine(c)'
          PROVE  /\ slot'[j].qport = client'[c].qport => slot'[j].challenge = client'[c].challenge
                 /\ slot'[j].port = client'[c].port => slot'[j].qport = client'[c].qport
      BY <1>1, <2>2, <2>4, <3>1
    <3> QED BY <3>2 DEF Keyed
  <2>6. Recent(c)'
    <3>1. Recent(c) BY DEF Agreed, Settled
    <3> QED BY <1>1, <2>2, <2>4, <3>1 DEF Recent
  <2> QED BY <2>1, <2>3, <2>5, <2>6 DEF Settled
<1> QED BY <1>1, <1>2, <1>3, HeardActs DEF Agreed, Numbered

\* The server answers a player, whose slot it may have freed for it.
LEMMA ServerAnswers ==
  ASSUME IInv, Agreed, NEW m \in net, m.kind \in RequestKinds,
         UNCHANGED <<client, incidents, hasty>>, NEW a \in AnswerRecords,
         a.kind # "connectResponse", a.port = m.port, a.age = 0,
         net' \subseteq net \cup {a}, Numbered',
         \A i \in Slots : slot'[i] = slot[i] \/
           (slot'[i].state = "free" /\ slot'[i].port # NoPort /\ SlotOwned(i)'),
         \A l \in net : l.kind = "connect" /\ Valid(l)' # {} => Valid(l) # {}
  PROVE  Agreed'
<1> DEFINE c == Player(m)
<1>1. c \in Clients /\ m.port \in PortsOf[c] /\ m \in Requested(c)
  BY PacketFields DEF Agreed, Requested
<1>2. a.kind \in AnswerKinds /\ a.kind \notin RequestKinds /\ a.kind # "connect"
  BY DEF AnswerRecords, AnswerKinds, RequestKinds
<1> HIDE DEF c
<1>3. Owned'
  <2>1. ASSUME NEW i \in Slots
        PROVE  /\ slot'[i].port # NoPort => SlotOwned(i)'
               /\ slot'[i].state # "free" => slot'[i].port # NoPort
    <3>1. slot'[i] = slot[i] => (slot'[i].port # NoPort => SlotOwned(i)')
      BY SlotOwnedKept DEF Agreed, Owned
    <3> QED BY <3>1 DEF Agreed, Owned
  <2>2. \A l \in net : PacketOwned(l)' BY DEF Agreed, Owned, PacketOwned, OwnQPorts
  <2>3. PacketOwned(a)' BY <1>2 DEF PacketOwned
  <2>4. \A d \in Clients : client'[d].port \in PortsOf[d] /\ client'[d].qport \in OwnQPorts(d)'
    BY DEF Agreed, Owned, OwnQPorts
  <2> QED BY <2>1, <2>2, <2>3, <2>4 DEF Owned
<1>4. ASSUME NEW d \in Clients
      PROVE  /\ \A i \in Mine(d)' : i \in Mine(d) /\ slot'[i] = slot[i]
             /\ Requested(d)' \subseteq Requested(d) /\ Connects(d)' \subseteq Connects(d)
             /\ Responses(d)' \subseteq Responses(d)
             /\ d # c => Answers(d)' \subseteq Answers(d)
             /\ Answers(d)' \subseteq Answers(d) \cup {a}
             /\ \A l \in Connects(d) : Valid(l)' # {} => Valid(l) # {}
  <2>1. \A i \in Mine(d)' : i \in Mine(d) /\ slot'[i] = slot[i] BY DEF Mine
  <2>2. Requested(d)' \subseteq Requested(d) BY <1>2 DEF Requested
  <2>3. Connects(d)' \subseteq Connects(d) BY <1>2 DEF Connects
  <2>4. Responses(d)' \subseteq Responses(d) BY <1>2 DEF Responses
  <2>5. Answers(d)' \subseteq Answers(d) \cup {a} BY DEF Answers
  <2>6. d # c => a.port \notin PortsOf[d] BY <1>1, PortsApart
  <2>7. d # c => Answers(d)' \subseteq Answers(d) BY <2>5, <2>6 DEF Answers
  <2> QED BY <2>1, <2>2, <2>3, <2>4, <2>5, <2>7 DEF Connects
<1>5. \A d \in Clients \ {c} : Untouched(d) BY <1>4 DEF Untouched
<1>6. ASSUME c \notin hasty PROVE Settled(c)'
  <2> USE <1>6
  <2>1. Apart(c)' /\ OneTry(c)' /\ Keyed(c)'
    <3>1. SlotsKept(c) /\ ClientKept(c) /\ ConnectsKept(c)
      BY <1>1, <1>4 DEF SlotsKept, ClientKept, ConnectsKept
    <3>2. Responses(c)' # {} => Responses(c) # {} BY <1>1, <1>4
    <3> QED BY <1>1, <3>1, <3>2, ApartKept, TryKept DEF Agreed, Settled
  <2>2. Recent(c)' BY <1>1, <1>4 DEF Agreed, Settled, Recent
  <2>3. Waited(c)'
    <3>1. m.age \in 0 .. MaxAge BY PacketFields DEF Agreed
    <3>2. client[c].age \in Nat BY <1>1 DEF IInv, Types, ClientRecords
    <3>3. client[c].state = "disconnected" => client[c].age <= a.age + MaxAge
      BY <1>1, <3>1, <3>2, PortsApart DEF Agreed, Settled, Waited
    <3> QED BY <1>1, <1>4, <3>3 DEF Agreed, Settled, Waited
  <2> QED BY <2>1, <2>2, <2>3 DEF Settled
<1> QED BY <1>1, <1>3, <1>5, <1>6, OthersUntouched DEF Settled

\* What is answered is an answer.
LEMMA AnswerIs ==
  ASSUME NEW kind \in AnswerKinds, NEW port \in Nat, NEW n \in Nat
  PROVE  /\ ToClient(kind, port, n) \in AnswerRecords
         /\ ToClient(kind, port, n).kind = kind /\ ToClient(kind, port, n).port = port
         /\ ToClient(kind, port, n).age = 0 /\ ToClient(kind, port, n).challenge = n
BY PortsApart DEF ToClient, AnswerRecords

\* The server gives out a challenge again, or one that is new, which makes no challenge
\* valid that was not.
LEMMA AgreedGetChallenge ==
  ASSUME IInv, Agreed, NEW m \in net, SV_GetChallenge(m), UNCHANGED <<client, incidents, hasty>>
  PROVE  Agreed'
<1>1. m.kind = "getchallenge" /\ UNCHANGED slot /\ m.port \in Nat
      /\ challenges \in [Entries -> EntryRecords]
  BY PacketFields DEF SV_GetChallenge, Agreed, IInv, Types
<1>2. \A k \in Entries : challenges[k].challenge \in Nat BY <1>1 DEF EntryRecords
<1>3. ASSUME NEW n \in Nat, Send(ToClient("challengeResponse", m.port, n)), Numbered',
             \A l \in net : l.kind = "connect" /\ Valid(l)' # {} => Valid(l) # {}
      PROVE  Agreed'
  <2>1. PICK a : a = ToClient("challengeResponse", m.port, n) OBVIOUS
  <2>2. a \in AnswerRecords /\ a.kind # "connectResponse" /\ a.port = m.port /\ a.age = 0
    BY <1>1, <2>1, AnswerIs DEF AnswerKinds
  <2>3. net' \subseteq net \cup {a} BY <1>3, <2>1, SendAdds
  <2> QED BY <1>1, <1>3, <2>2, <2>3, ServerAnswers DEF RequestKinds
<1>4. CASE Pending(m) # {}
  <2>1. PICK n : n = challenges[First(Pending(m))].challenge OBVIOUS
  <2>2. First(Pending(m)) \in Entries
    <3>1. Pending(m) \in SUBSET Nat /\ Pending(m) \subseteq Entries
      BY ConstantsTyped DEF Pending
    <3> QED BY <1>4, <3>1, FirstIn
  <2>3. Send(ToClient("challengeResponse", m.port, n)) /\ UNCHANGED challenges
    BY <1>4, <2>1 DEF SV_GetChallenge
  <2>4. n \in Nat /\ Issued(n) BY <1>2, <2>1, <2>2 DEF Issued
  <2>5. ToClient("challengeResponse", m.port, n).challenge = n BY DEF ToClient
  <2>6. EntriesKept BY <2>3 DEF EntriesKept
  <2>7. \A l \in net' : Issued(l.challenge) BY <2>3, <2>4, <2>5, SendAdds DEF Agreed, Numbered
  <2>8. Numbered' BY <2>6, <2>7, EntriesKeptHolds DEF Agreed, Numbered
  <2> QED BY <1>3, <2>3, <2>4, <2>6, <2>8, EntriesKeptHolds
<1>5. CASE Pending(m) = {}
  <2>1. PICK n : n = Max({challenges[k].challenge : k \in Entries}) + 1 OBVIOUS
  <2>2. PICK o : o = First({k \in Entries : \A j \in Entries :
                              challenges[k].challenge <= challenges[j].challenge})
    OBVIOUS
  <2>3. /\ Send(ToClient("challengeResponse", m.port, n))
        /\ challenges' = [challenges EXCEPT ![o] =
              [port |-> m.port, challenge |-> n, connected |-> FALSE]]
    BY <1>5, <2>1, <2>2 DEF SV_GetChallenge
  <2>4. n \in Nat /\ \A k \in Entries : challenges[k].challenge < n
    BY <1>1, <2>1, FreshIsGreater
  <2>5. o \in Entries
    <3> DEFINE O == {k \in Entries : \A j \in Entries :
                       challenges[k].challenge <= challenges[j].challenge}
    <3>1. PICK x \in {challenges[k].challenge : k \in Entries} :
            \A i \in {challenges[k].challenge : k \in Entries} : x <= i
      <4>1. {challenges[k].challenge : k \in Entries} \in SUBSET Nat
            /\ {challenges[k].challenge : k \in Entries} # {}
        BY <1>2, ConstantsTyped
      <4> HIDE <1>2
      <4> QED BY <4>1, LeastExists
    <3>2. O # {} BY <3>1
    <3>3. O \in SUBSET Nat /\ O \subseteq Entries BY ConstantsTyped
    <3>4. o = First(O) BY <2>2
    <3> HIDE DEF O
    <3> QED BY <3>2, <3>3, <3>4, FirstIn
  <2>6. /\ challenges'[o].port = m.port /\ challenges'[o].challenge = n
        /\ \A k \in Entries \ {o} : challenges'[k] = challenges[k]
    BY <1>1, <2>3, <2>5
  <2>7. ASSUME NEW x \in Nat, Issued(x) PROVE Issued(x)' /\ x < n
    <3>1. PICK k \in Entries : x <= challenges[k].challenge BY <2>7 DEF Issued
    <3>2. x < n BY <1>2, <2>4, <3>1
    <3>3. k # o => x <= challenges'[k].challenge BY <2>6, <3>1
    <3>4. x <= challenges'[o].challenge BY <2>4, <2>6, <3>2
    <3> QED BY <2>5, <3>2, <3>4 DEF Issued
  <2>8. ToClient("challengeResponse", m.port, n).challenge = n BY DEF ToClient
  <2>9. Issued(n)' BY <2>4, <2>5, <2>6 DEF Issued
  <2>10. Numbered'
    <3>1. n # NoChallenge
      <4>1. PICK k \in Entries : TRUE BY ConstantsTyped
      <4> QED BY <1>2, <2>4, <4>1, PortsApart
    <3>2. \A k \in Entries : challenges'[k].port # NoPort => challenges'[k].challenge # NoChallenge
      BY <2>6, <3>1 DEF Agreed, Numbered
    <3>3. ASSUME NEW k \in Entries, NEW j \in Entries,
                 challenges'[k].challenge = challenges'[j].challenge
          PROVE  k = j \/ challenges'[k].challenge = NoChallenge
      <4>1. \A x \in Entries : challenges[x].challenge # n BY <1>2, <2>4
      <4> QED BY <2>6, <3>3, <4>1 DEF Agreed, Numbered
    <3>4. \A l \in net' : Issued(l.challenge)'
      <4>1. \A l \in net : l.challenge \in Nat BY PacketFields DEF Agreed
      <4> QED BY <2>3, <2>7, <2>8, <2>9, <4>1, SendAdds DEF Agreed, Numbered
    <3>5. (\A d \in Clients : Issued(client[d].challenge))'
      <4>1. ASSUME NEW d \in Clients
            PROVE  \E k \in Entries : client[d].challenge <= challenges'[k].challenge
        <5>1. PICK x : x = client[d].challenge OBVIOUS
        <5>2. x \in Nat /\ Issued(x)
          BY <5>1 DEF IInv, Types, ClientRecords, Agreed, Numbered
        <5> QED BY <2>7, <5>1, <5>2 DEF Issued
      <4> QED BY <4>1 DEF Issued
    <3> QED BY <3>2, <3>3, <3>4, <3>5 DEF Numbered
  <2>11. ASSUME NEW l \in net, l.kind = "connect", Valid(l)' # {} PROVE Valid(l) # {}
    <3>1. PICK k \in Entries : /\ challenges'[k].port = l.port
                              /\ challenges'[k].challenge = l.challenge
      BY <2>11 DEF Valid
    <3>2. l.challenge < n /\ l.challenge \in Nat
      BY <2>7, PacketFields DEF Agreed, Numbered
    <3>3. k # o BY <2>4, <2>6, <3>1, <3>2
    <3> QED BY <2>6, <3>1, <3>3 DEF Valid
  <2> QED BY <1>3, <2>3, <2>4, <2>10, <2>11
<1> QED BY <1>4, <1>5

\* The server tells of itself.
LEMMA AgreedInfo ==
  ASSUME IInv, Agreed, NEW m \in net, SVC_Info(m), UNCHANGED <<client, incidents, hasty>>
  PROVE  Agreed'
<1>1. m.kind = "getinfo" /\ UNCHANGED <<slot, challenges>> /\ m.port \in Nat
  BY PacketFields DEF SVC_Info, Agreed
<1>2. PICK a : a = ToClient("infoResponse", m.port, NoChallenge) OBVIOUS
<1>3. a \in AnswerRecords /\ a.kind # "connectResponse" /\ a.port = m.port /\ a.age = 0
      /\ a.challenge = NoChallenge
  BY <1>1, <1>2, AnswerIs, PortsApart DEF AnswerKinds
<1>4. net' \subseteq net \cup {a} BY <1>2, SendAdds DEF SVC_Info
<1>5. EntriesKept BY <1>1 DEF EntriesKept
<1>6. Numbered' BY <1>3, <1>4, <1>5, NoneIssued, EntriesKeptHolds DEF Agreed, Numbered
<1> QED BY <1>1, <1>3, <1>4, <1>5, <1>6, EntriesKeptHolds, ServerAnswers DEF RequestKinds

\* The place of a player who may connect is the only slot of the player's that has the
\* qport or the port, or one that is free.
LEMMA PlaceNear ==
  ASSUME IInv, Agreed, NEW m \in net, m.kind = "connect", Valid(m) # {}, NEW i \in Place(m)
  PROVE  /\ i \in Slots /\ (slot[i].state # "free" => i \in Mine(Player(m)))
         /\ Player(m) \notin hasty => \A j \in Near(Player(m), m.qport, m.port) : j = i
<1> DEFINE c == Player(m)
           reused == {j \in Same(m) : slot[j].state # "free"}
           free == {j \in Slots : slot[j].state = "free"}
<1>1. c \in Clients /\ m.port \in PortsOf[c] /\ m.qport \in OwnQPorts(c) /\ m \in Connects(c)
  BY PacketFields DEF Agreed, RequestKinds, Connects
<1>2. reused \in SUBSET Slots /\ free \in SUBSET Slots BY DEF Same
<1> HIDE DEF c
<1>3. reused = Near(c, m.qport, m.port)
  <2>1. ASSUME NEW j \in reused PROVE j \in Near(c, m.qport, m.port)
    <3>1. /\ j \in Slots /\ slot[j].state # "free"
          /\ slot[j].qport = m.qport \/ slot[j].port = m.port
      BY DEF Same
    <3>2. j \in Mine(c) BY <1>1, <3>1, SlotIsMine DEF Agreed
    <3> QED BY <3>1, <3>2 DEF Near
  <2>2. ASSUME NEW j \in Near(c, m.qport, m.port) PROVE j \in reused
    BY DEF Near, Mine, Same, Agreed, Owned
  <2> QED BY <2>1, <2>2
<1>4. CASE reused # {}
  <2>1. i = First(reused) BY <1>4 DEF Place
  <2>2. i \in reused BY <1>2, <1>4, <2>1, FirstIn, ConstantsTyped
  <2>3. c \notin hasty => AtMostOne(Near(c, m.qport, m.port))
    BY <1>1 DEF Agreed, Settled, Apart
  <2> QED BY <1>2, <1>3, <2>2, <2>3 DEF AtMostOne, Near, c
<1>5. CASE reused = {}
  <2>1. free # {} /\ i = First(free) BY <1>5 DEF Place
  <2>2. i \in free BY <1>2, <2>1, FirstIn, ConstantsTyped
  <2> QED BY <1>3, <1>5, <2>2 DEF c
<1> QED BY <1>4, <1>5

\* Two connects of a player that are let in come from the same port.
LEMMA OneValid ==
  ASSUME Agreed, NEW c \in Clients \ hasty, NEW m \in Connects(c), NEW l \in Connects(c),
         Valid(m) # {}, Valid(l) # {}
  PROVE  l.qport = m.qport /\ l.port = m.port
<1>1. l.qport = m.qport /\ l.challenge = m.challenge BY DEF Agreed, Settled, OneTry
<1>2. PICK k \in Entries : challenges[k].port = m.port /\ challenges[k].challenge = m.challenge
  BY DEF Valid
<1>3. PICK j \in Entries : challenges[j].port = l.port /\ challenges[j].challenge = l.challenge
  BY DEF Valid
<1>4. m.port # NoPort
  BY PacketFields, PortsApart DEF Agreed, Connects, RequestKinds
<1>5. challenges[k].challenge # NoChallenge BY <1>2, <1>4 DEF Agreed, Numbered
<1>6. k = j BY <1>1, <1>2, <1>3, <1>5 DEF Agreed, Numbered
<1> QED BY <1>1, <1>2, <1>3, <1>6

\* A player who is let in: its slot has what the connect has, and no other has any of it.
LEMMA AgreedAccepted ==
  ASSUME IInv, Agreed, NEW m \in net, m.kind = "connect", Valid(m) # {}, NEW i \in Place(m),
         slot' = [slot EXCEPT ![i] = Accepted(m, i)], EntriesKept,
         Send(ToClient("connectResponse", m.port, NoChallenge)),
         UNCHANGED <<client, incidents, hasty>>
  PROVE  Agreed'
<1> DEFINE c == Player(m)
<1>1. /\ c \in Clients /\ m.port \in PortsOf[c] /\ m.qport \in OwnQPorts(c)
      /\ m \in Connects(c) /\ m \in Requested(c) /\ m.port \in Nat
  BY PacketFields DEF Agreed, RequestKinds, Connects, Requested
<1>2. /\ i \in Slots /\ (slot[i].state # "free" => i \in Mine(c))
      /\ c \notin hasty => \A j \in Near(c, m.qport, m.port) : j = i
  BY PlaceNear
<1>3. /\ slot'[i].state = "connected" /\ slot'[i].player = c /\ slot'[i].port = m.port
      /\ slot'[i].qport = m.qport /\ slot'[i].challenge = m.challenge
      /\ slot'[i].connectAge = 0 /\ \A j \in Slots \ {i} : slot'[j] = slot[j]
  <2>1. i \in Slots /\ slot \in [Slots -> SlotRecords] BY <1>2 DEF IInv, Types
  <2>2. slot'[i] = Accepted(m, i) /\ \A j \in Slots \ {i} : slot'[j] = slot[j] BY <2>1
  <2> QED BY <2>2 DEF Accepted, Slot
<1> HIDE DEF c
<1>4. PICK a : a = ToClient("connectResponse", m.port, NoChallenge) OBVIOUS
<1>5. /\ a \in AnswerRecords /\ a.port = m.port /\ a.age = 0 /\ a.challenge = NoChallenge
      /\ a.kind = "connectResponse" /\ net' \subseteq net \cup {a}
  BY <1>1, <1>4, AnswerIs, SendAdds, PortsApart DEF AnswerKinds
<1>6. /\ \A d \in Clients : /\ Requested(d)' \subseteq Requested(d)
                            /\ Connects(d)' \subseteq Connects(d)
      /\ \A d \in Clients : Answers(d)' \subseteq Answers(d) \cup {a}
      /\ \A d \in Clients : Responses(d)' \subseteq Responses(d) \cup {a}
      /\ \A l : Valid(l)' = Valid(l)
  BY <1>5, EntriesKeptHolds DEF Requested, Connects, Answers, Responses, RequestKinds
<1>7. Owned'
  <2>1. SlotOwned(i)' BY <1>1, <1>3 DEF SlotOwned, OwnQPorts
  <2>2. m.port # NoPort BY <1>1, PortsApart
  <2>3. ASSUME NEW j \in Slots
        PROVE  /\ slot'[j].port # NoPort => SlotOwned(j)'
               /\ slot'[j].state # "free" => slot'[j].port # NoPort
    <3>1. CASE j = i BY <1>3, <2>1, <2>2, <3>1
    <3>2. CASE j # i
      <4>1. slot'[j] = slot[j] BY <1>3, <3>2
      <4> QED BY <4>1, SlotOwnedKept DEF Agreed, Owned
    <3> QED BY <3>1, <3>2
  <2>4. \A l \in net : PacketOwned(l)' BY DEF Agreed, Owned, PacketOwned, OwnQPorts
  <2>5. PacketOwned(a)' BY <1>5 DEF PacketOwned, RequestKinds
  <2>6. \A d \in Clients : client'[d].port \in PortsOf[d] /\ client'[d].qport \in OwnQPorts(d)'
    BY DEF Agreed, Owned, OwnQPorts
  <2> QED BY <1>5, <2>3, <2>4, <2>5, <2>6 DEF Owned
<1>8. Numbered' BY <1>5, NoneIssued, EntriesKeptHolds DEF Agreed, Numbered
<1>9. ASSUME NEW d \in Clients \ {c} PROVE Untouched(d)
  <2>1. \A j \in Mine(d)' : j \in Mine(d) /\ slot'[j] = slot[j] BY <1>3 DEF Mine
  <2>2. a.port \notin PortsOf[d] BY <1>1, <1>5, PortsApart
  <2>3. Answers(d)' \subseteq Answers(d) BY <1>6, <2>2 DEF Answers
  <2> QED BY <1>6, <2>1, <2>3 DEF Untouched
<1>10. ASSUME c \notin hasty PROVE Settled(c)'
  <2> USE <1>10
  <2>1. \A j \in Mine(c)' \ {i} : /\ j \in Mine(c) /\ j \in Slots /\ slot'[j] = slot[j]
                                  /\ slot[j].qport # m.qport /\ slot[j].port # m.port
    BY <1>2, <1>3 DEF Mine, Near
  <2>2. /\ client[c].state \in {"challenging_request", "connected"} =>
             m.qport = client[c].qport /\ m.challenge = client[c].challenge
        /\ \A l \in Connects(c) : l.qport = m.qport
        /\ client[c].state \notin {"connecting", "challenging_info"}
    BY <1>1 DEF Agreed, Settled, OneTry
  <2>3. ASSUME NEW j \in Mine(c)' \ {i}
        PROVE  /\ m.qport = client[c].qport => slot[j].port # client[c].port
               /\ m.qport # client[c].qport => slot[j].qport # client[c].qport
    BY <1>1, <2>1 DEF Agreed, Settled, Apart
  <2>4. Apart(c)'
    <3>1. ASSUME NEW j \in Mine(c)', NEW k \in Mine(c)',
                 slot'[j].qport = slot'[k].qport \/ slot'[j].port = slot'[k].port
          PROVE  j = k
      BY <1>1, <1>3, <2>1, <3>1 DEF Agreed, Settled, Apart
    <3>2. AtMostOne(Near(c, client[c].qport, client[c].port))'
      <4>1. ASSUME NEW j \in Mine(c)', NEW k \in Mine(c)',
                   slot'[j].qport = client[c].qport \/ slot'[j].port = client[c].port,
                   slot'[k].qport = client[c].qport \/ slot'[k].port = client[c].port
            PROVE  j = k
        <5>1. CASE j # i /\ k # i
          <6>1. j \in Near(c, client[c].qport, client[c].port)
                /\ k \in Near(c, client[c].qport, client[c].port)
            BY <2>1, <4>1, <5>1 DEF Near
          <6> QED BY <1>1, <6>1 DEF Agreed, Settled, Apart, AtMostOne
        <5>2. CASE j = i /\ k # i BY <1>3, <2>1, <2>3, <4>1, <5>2
        <5>3. CASE j # i /\ k = i BY <1>3, <2>1, <2>3, <4>1, <5>3
        <5> QED BY <5>1, <5>2, <5>3
      <4> QED BY <4>1 DEF AtMostOne, Near
    <3>3. ASSUME NEW l \in Connects(c)', Valid(l)' # {} PROVE AtMostOne(Near(c, l.qport, l.port))'
      <4>1. l.qport = m.qport /\ l.port = m.port BY <1>1, <1>6, <3>3, OneValid
      <4>2. \A j \in Mine(c)' : slot'[j].qport = m.qport \/ slot'[j].port = m.port => j = i
        BY <2>1
      <4> QED BY <4>1, <4>2 DEF AtMostOne, Near
    <3>4. ASSUME NEW l \in Connects(c)', NEW j \in Mine(c)'
          PROVE  /\ slot'[j].port = client'[c].port /\ slot'[j].qport # client'[c].qport =>
                      (l.qport = client'[c].qport => l.port = client'[c].port)
                 /\ l.qport # client'[c].qport => slot'[j].qport # client'[c].qport
      <4>1. l \in Connects(c) /\ l.qport = m.qport /\ client'[c] = client[c]
        BY <1>1, <1>6, <2>2
      <4>2. CASE j = i BY <1>3, <4>1, <4>2
      <4>3. CASE j # i
        <5>1. j \in Mine(c) /\ slot'[j] = slot[j] BY <2>1, <4>3
        <5> QED BY <1>1, <4>1, <5>1 DEF Agreed, Settled, Apart
      <4> QED BY <4>2, <4>3
    <3> QED BY <3>1, <3>2, <3>3, <3>4 DEF Apart
  <2>5. OneTry(c)' BY <1>1, <1>6, <2>2 DEF Agreed, Settled, OneTry
  <2>6. Keyed(c)'
    <3>1. ASSUME LetIn(c)', NEW j \in Mine(c)'
          PROVE  /\ slot'[j].qport = client'[c].qport => slot'[j].challenge = client'[c].challenge
                 /\ slot'[j].port = client'[c].port => slot'[j].qport = client'[c].qport
      <4>1. m.qport = client[c].qport /\ m.challenge = client[c].challenge
        BY <2>2, <3>1 DEF LetIn
      <4>2. CASE j = i BY <1>3, <4>1, <4>2
      <4>3. CASE j # i BY <2>1, <2>3, <4>1, <4>3
      <4> QED BY <4>2, <4>3
    <3> QED BY <3>1 DEF Keyed
  <2>7. Recent(c)'
    <3>1. \A l \in net' : l.age \in Nat BY <1>5, PacketFields, PortsApart DEF Agreed
    <3>2. ASSUME NEW j \in Mine(c)', slot'[j].qport = client'[c].qport,
                 client'[c].state \in {"challenging_request", "connected"}
          PROVE  slot'[j].connectAge = 0
      BY <1>3, <2>1, <2>2, <3>2
    <3>3. \A l \in Responses(c)' : l.age \in Nat BY <3>1 DEF Responses
    <3>4. \A l \in Connects(c)' : l.age + MaxAge \in Nat BY <3>1, PortsApart DEF Connects
    <3>5. \A x \in Nat : 0 <= x OBVIOUS
    <3> QED BY <3>2, <3>3, <3>4, <3>5 DEF Recent
  <2>8. Waited(c)'
    <3>1. m.age \in 0 .. MaxAge BY PacketFields DEF Agreed
    <3>2. client[c].age \in Nat BY <1>1 DEF IInv, Types, ClientRecords
    <3>3. client[c].state = "disconnected" => client[c].age <= a.age + MaxAge
      BY <1>1, <1>5, <3>1, <3>2, PortsApart DEF Agreed, Settled, Waited
    <3> QED BY <1>1, <1>6, <3>3 DEF Agreed, Settled, Waited
  <2> QED BY <2>4, <2>5, <2>6, <2>7, <2>8 DEF Settled
<1> QED BY <1>1, <1>7, <1>8, <1>9, <1>10, OthersUntouched DEF Settled

\* A "connect" whose challenge is not known, that finds no place or that is denied is
\* answered, if at all; the others let the player in.
LEMMA AgreedDirectConnect ==
  ASSUME IInv, Agreed, NEW m \in net, SV_DirectConnect(m), UNCHANGED <<client, incidents, hasty>>
  PROVE  Agreed'
<1>1. m.kind = "connect" BY DEF SV_DirectConnect
<1>2. m.port \in Nat /\ m.port # NoPort /\ Player(m) \in Clients
      /\ m.port \in PortsOf[Player(m)] /\ m.qport \in OwnQPorts(Player(m))
  BY <1>1, PacketFields, PortsApart DEF Agreed, RequestKinds
<1>3. PICK a : a = ToClient("print", m.port, NoChallenge) OBVIOUS
<1>4. /\ a \in AnswerRecords /\ a.kind # "connectResponse" /\ a.port = m.port /\ a.age = 0
      /\ a.challenge = NoChallenge
  BY <1>2, <1>3, AnswerIs, PortsApart DEF AnswerKinds
<1>5. ASSUME challenges' = [challenges EXCEPT ![First(Valid(m))].connected = TRUE]
      PROVE  EntriesKept
  <2>1. challenges \in [Entries -> EntryRecords] BY DEF IInv, Types
  <2>2. \A k \in Entries : /\ [challenges[k] EXCEPT !.connected = TRUE].port = challenges[k].port
                           /\ [challenges[k] EXCEPT !.connected = TRUE].challenge
                                = challenges[k].challenge
    BY <2>1 DEF EntryRecords
  <2> QED BY <1>5, <2>1, <2>2 DEF EntriesKept
<1>6. ASSUME EntriesKept, net' \subseteq net \cup {a},
             \A i \in Slots : slot'[i] = slot[i] \/
               (slot'[i].state = "free" /\ slot'[i].port # NoPort /\ SlotOwned(i)')
      PROVE  Agreed'
  <2>1. Numbered' BY <1>4, <1>6, NoneIssued, EntriesKeptHolds DEF Agreed, Numbered
  <2> QED BY <1>1, <1>4, <1>6, <2>1, EntriesKeptHolds, ServerAnswers DEF RequestKinds
<1>7. CASE /\ Valid(m) = {}
           /\ Send(ToClient("print", m.port, NoChallenge))
           /\ UNCHANGED <<slot, challenges, game>>
  <2>1. EntriesKept BY <1>7 DEF EntriesKept
  <2> QED BY <1>3, <1>6, <1>7, <2>1, SendAdds
<1>8. CASE /\ Valid(m) # {}
           /\ challenges' = [challenges EXCEPT ![First(Valid(m))].connected = TRUE]
           /\ UNCHANGED <<slot, game, net>>
  BY <1>5, <1>6, <1>8
<1>9. ASSUME Valid(m) # {}, NEW i \in Place(m),
             challenges' = [challenges EXCEPT ![First(Valid(m))].connected = TRUE],
             slot' = [slot EXCEPT ![i] = Refused(m)],
             Send(ToClient("print", m.port, NoChallenge))
      PROVE  Agreed'
  <2>1. i \in Slots /\ slot \in [Slots -> SlotRecords] BY PlaceInSlots DEF IInv, Types
  <2>2. slot'[i] = Refused(m) /\ \A j \in Slots \ {i} : slot'[j] = slot[j] BY <1>9, <2>1
  <2>3. /\ slot'[i].state = "free" /\ slot'[i].port = m.port /\ slot'[i].qport = m.qport
        /\ slot'[i].player = Player(m)
    BY <2>2 DEF Refused, Slot
  <2>4. SlotOwned(i)' BY <1>2, <2>3 DEF SlotOwned, OwnQPorts
  <2> QED BY <1>2, <1>3, <1>5, <1>6, <1>9, <2>2, <2>3, <2>4, SendAdds
<1>10. ASSUME Valid(m) # {}, NEW i \in Place(m),
              challenges' = [challenges EXCEPT ![First(Valid(m))].connected = TRUE],
              slot' = [slot EXCEPT ![i] = Accepted(m, i)],
              Send(ToClient("connectResponse", m.port, NoChallenge))
       PROVE  Agreed'
  BY <1>1, <1>5, <1>10, AgreedAccepted
<1> QED BY <1>7, <1>8, <1>9, <1>10 DEF SV_DirectConnect

\* What a second changes of a slot, a packet and a client: nothing but ages, and these
\* by one at most.
LEMMA OlderSlot ==
  ASSUME NEW s \in SlotRecords, NEW r, r = Older(s) \/ r = [Older(s) EXCEPT !.state = "free"]
  PROVE  /\ r.player = s.player /\ r.port = s.port /\ r.qport = s.qport
         /\ r.challenge = s.challenge /\ r.state \in {s.state, "free"}
         /\ r.connectAge \in Nat /\ r.connectAge <= s.connectAge + 1 /\ s.connectAge \in Nat
<1> DEFINE a == Capped(s.connectAge + 1, sv_reconnectlimit)
           b == Capped(s.packetAge + 1, sv_timeout + 1)
<1>1. s.connectAge \in Nat BY DEF SlotRecords
<1>2. a \in Nat /\ a <= s.connectAge + 1 BY <1>1, ConstantsTyped DEF Capped
<1>3. Older(s) = [s EXCEPT !.connectAge = a, !.packetAge = b] BY DEF Older
<1> HIDE DEF a, b
<1>4. /\ Older(s).player = s.player /\ Older(s).port = s.port /\ Older(s).qport = s.qport
      /\ Older(s).challenge = s.challenge /\ Older(s).state = s.state /\ Older(s).connectAge = a
      /\ Older(s) = [state |-> s.state, player |-> s.player, port |-> s.port,
                     qport |-> s.qport, challenge |-> s.challenge, connectAge |-> a,
                     packetAge |-> b]
  BY <1>3 DEF SlotRecords
<1>5. CASE r = Older(s) BY <1>1, <1>2, <1>4, <1>5
<1>6. CASE r = [Older(s) EXCEPT !.state = "free"]
  <2>1. /\ r.player = s.player /\ r.port = s.port /\ r.qport = s.qport
        /\ r.challenge = s.challenge /\ r.state = "free" /\ r.connectAge = a
    BY <1>4, <1>6
  <2> QED BY <1>1, <1>2, <2>1
<1> QED BY <1>5, <1>6

\* A packet that is older is the packet it was.
LEMMA OlderPacket ==
  ASSUME NEW n, PacketOwned(n), n.age < MaxAge, NEW m, m = [n EXCEPT !.age = @ + 1]
  PROVE  /\ PacketOwned(m) /\ m.kind = n.kind /\ m.port = n.port /\ m.challenge = n.challenge
         /\ n.kind \in RequestKinds => m.qport = n.qport
         /\ n.age \in Nat /\ m.age = n.age + 1
<1>1. n \in RequestRecords \cup AnswerRecords BY DEF PacketOwned
<1>2. MaxAge \in Nat BY PortsApart
<1>3. CASE n \in RequestRecords
  <2>1. /\ m \in RequestRecords /\ m.kind = n.kind /\ m.port = n.port
        /\ m.challenge = n.challenge /\ m.qport = n.qport /\ m.age = n.age + 1 /\ n.age \in Nat
    BY <1>2, <1>3 DEF RequestRecords
  <2> QED BY <2>1 DEF PacketOwned, Player
<1>4. CASE n \in AnswerRecords
  <2>1. /\ m \in AnswerRecords /\ m.kind = n.kind /\ m.port = n.port
        /\ m.challenge = n.challenge /\ m.age = n.age + 1 /\ n.age \in Nat
    BY <1>2, <1>4 DEF AnswerRecords
  <2>2. n.kind \notin RequestKinds BY <1>4 DEF AnswerRecords, AnswerKinds, RequestKinds
  <2> QED BY <2>1, <2>2 DEF PacketOwned
<1> QED BY <1>1, <1>3, <1>4

\* Time goes on for both: what is old stays older than what is younger.
LEMMA AgreedFrame ==
  ASSUME IInv, Agreed, SV_Frame
  PROVE  Agreed'
<1>1. incidents' = incidents /\ hasty' = hasty /\ EntriesKept
  BY DroppedEntries DEF SV_Frame, SV_CheckTimeouts
<1>2. ASSUME NEW i \in Slots
      PROVE  /\ slot'[i].player = slot[i].player /\ slot'[i].port = slot[i].port
             /\ slot'[i].qport = slot[i].qport /\ slot'[i].challenge = slot[i].challenge
             /\ slot'[i].state \in {slot[i].state, "free"}
             /\ slot'[i].connectAge \in Nat /\ slot[i].connectAge \in Nat
             /\ slot'[i].connectAge <= slot[i].connectAge + 1
  <2>1. slot[i] \in SlotRecords BY DEF IInv, Types
  <2>2. slot'[i] = Older(slot[i]) \/ slot'[i] = [Older(slot[i]) EXCEPT !.state = "free"]
    BY DEF SV_Frame, SV_CheckTimeouts
  <2> QED BY <2>1, <2>2, OlderSlot
<1>3. ASSUME NEW c \in Clients
      PROVE  /\ client'[c].age \in Nat /\ client[c].age \in Nat
             /\ client'[c].age <= client[c].age + 1 /\ ClientKept(c)
  <2>1. client[c] \in ClientRecords BY DEF IInv, Types
  <2>2. LongAgo[client[c].state] \in Nat BY <2>1, LongAgoType DEF ClientRecords
  <2>3. client'[c] = [client[c] EXCEPT !.age = Capped(@ + 1, LongAgo[client[c].state])]
    BY DEF SV_Frame
  <2>4. /\ Capped(client[c].age + 1, LongAgo[client[c].state]) \in Nat
        /\ Capped(client[c].age + 1, LongAgo[client[c].state]) <= client[c].age + 1
        /\ client[c].age \in Nat
    BY <2>1, <2>2 DEF ClientRecords, Capped
  <2> QED BY <2>1, <2>3, <2>4 DEF ClientRecords, ClientKept
<1>4. ASSUME NEW m \in net'
      PROVE  \E n \in net : /\ PacketOwned(m) /\ m.kind = n.kind /\ m.port = n.port
                            /\ m.challenge = n.challenge
                            /\ n.kind \in RequestKinds => m.qport = n.qport
                            /\ n.age \in Nat /\ m.age = n.age + 1
  <2>1. PICK n \in net : n.age < MaxAge /\ m = [n EXCEPT !.age = @ + 1] BY DEF SV_Frame
  <2>2. PacketOwned(n) BY DEF Agreed, Owned
  <2> QED BY <2>1, <2>2, OlderPacket
<1>5. Owned'
  <2>1. ASSUME NEW i \in Slots
        PROVE  /\ slot'[i].port # NoPort => SlotOwned(i)'
               /\ slot'[i].state # "free" => slot'[i].port # NoPort
    <3>1. /\ slot'[i].player = slot[i].player /\ slot'[i].port = slot[i].port
          /\ slot'[i].qport = slot[i].qport /\ slot'[i].state \in {slot[i].state, "free"}
      BY <1>2
    <3> QED BY <1>1, <3>1, SlotOwnedKept DEF Agreed, Owned
  <2>2. \A m \in net' : PacketOwned(m)' BY <1>1, <1>4 DEF PacketOwned, OwnQPorts
  <2>3. \A d \in Clients : client'[d].port \in PortsOf[d] /\ client'[d].qport \in OwnQPorts(d)'
    BY <1>1, <1>3 DEF Agreed, Owned, OwnQPorts, ClientKept
  <2> QED BY <2>1, <2>2, <2>3 DEF Owned
<1>6. Numbered'
  <2>1. \A m \in net' : Issued(m.challenge) BY <1>4 DEF Agreed, Numbered
  <2>2. \A d \in Clients : Issued(client'[d].challenge)
    BY <1>3 DEF Agreed, Numbered, ClientKept
  <2> QED BY <1>1, <2>1, <2>2, EntriesKeptHolds DEF Agreed
<1>7. ASSUME NEW c \in Clients \ hasty PROVE Settled(c)'
  <2>1. SlotsKept(c) BY <1>2 DEF SlotsKept, Mine
  <2>2. ASSUME NEW m \in Requested(c)'
        PROVE  \E n \in Requested(c) : /\ m.kind = n.kind /\ m.port = n.port
                                       /\ m.challenge = n.challenge /\ m.qport = n.qport
                                       /\ n.age \in Nat /\ m.age = n.age + 1
    BY <1>4 DEF Requested, Player
  <2>3. ASSUME NEW m \in Answers(c)'
        PROVE  \E n \in Answers(c) : m.kind = n.kind /\ n.age \in Nat /\ m.age = n.age + 1
    BY <1>4 DEF Answers
  <2>4. ASSUME NEW m \in Connects(c)'
        PROVE  \E n \in Connects(c) : /\ m.port = n.port /\ m.challenge = n.challenge
                                      /\ m.qport = n.qport
                                      /\ n.age \in Nat /\ m.age = n.age + 1
    BY <1>4 DEF Connects, Player, RequestKinds
  <2>5. ASSUME NEW m \in Responses(c)'
        PROVE  \E n \in Responses(c) : n.age \in Nat /\ m.age = n.age + 1
    BY <1>4 DEF Responses
  <2>6. ConnectsKept(c)
    <3>1. \A m, l : m.port = l.port /\ m.challenge = l.challenge => Valid(m) = Valid(l)
      BY DEF Valid
    <3>2. \A m : Valid(m)' = Valid(m) BY <1>1, EntriesKeptHolds
    <3> QED BY <2>4, <3>1, <3>2 DEF ConnectsKept
  <2>7. Apart(c)' /\ OneTry(c)' /\ Keyed(c)'
    <3>1. Responses(c)' # {} => Responses(c) # {} BY <2>5
    <3> QED BY <1>3, <2>1, <2>6, <3>1, ApartKept, TryKept DEF Agreed, Settled, ClientKept
  <2>8. Waited(c)'
    <3>1. ASSUME client'[c].state = "disconnected", NEW m \in Requested(c)'
          PROVE  client'[c].age <= m.age
      <4>1. PICK n \in Requested(c) : n.age \in Nat /\ m.age = n.age + 1 BY <2>2
      <4>2. client[c].age <= n.age
        BY <1>3, <3>1 DEF Agreed, Settled, Waited, ClientKept
      <4> QED BY <1>3, <4>1, <4>2
    <3>2. ASSUME client'[c].state = "disconnected", NEW m \in Answers(c)'
          PROVE  client'[c].age <= m.age + MaxAge
      <4>1. PICK n \in Answers(c) : n.age \in Nat /\ m.age = n.age + 1 BY <2>3
      <4>2. client[c].age <= n.age + MaxAge
        BY <1>3, <3>2 DEF Agreed, Settled, Waited, ClientKept
      <4> QED BY <1>3, <4>1, <4>2, PortsApart
    <3> QED BY <3>1, <3>2 DEF Waited
  <2>9. Recent(c)'
    <3>1. ASSUME NEW i \in Mine(c)', slot'[i].qport = client'[c].qport
          PROVE  /\ i \in Mine(c) /\ slot[i].qport = client[c].qport
                 /\ slot'[i].connectAge \in Nat /\ slot[i].connectAge \in Nat
                 /\ slot'[i].connectAge <= slot[i].connectAge + 1
      <4>1. i \in Mine(c) /\ i \in Slots BY <2>1 DEF SlotsKept, Mine
      <4> QED BY <1>2, <1>3, <3>1, <4>1 DEF ClientKept
    <3>2. ASSUME NEW i \in Mine(c)', slot'[i].qport = client'[c].qport,
                 client'[c].state = "challenging_request", NEW m \in Responses(c)'
          PROVE  slot'[i].connectAge <= m.age
      <4>1. PICK n \in Responses(c) : n.age \in Nat /\ m.age = n.age + 1 BY <2>5
      <4>2. slot[i].connectAge <= n.age
        BY <1>3, <3>1, <3>2 DEF Agreed, Settled, Recent, ClientKept
      <4> QED BY <3>1, <3>2, <4>1, <4>2
    <3>3. ASSUME NEW i \in Mine(c)', slot'[i].qport = client'[c].qport,
                 client'[c].state = "connected", NEW m \in Connects(c)'
          PROVE  slot'[i].connectAge <= m.age + MaxAge
      <4>1. PICK n \in Connects(c) : n.age \in Nat /\ m.age = n.age + 1 BY <2>4
      <4>2. slot[i].connectAge <= n.age + MaxAge
        BY <1>3, <3>1, <3>3 DEF Agreed, Settled, Recent, ClientKept
      <4> QED BY <3>1, <3>3, <4>1, <4>2, PortsApart
    <3> QED BY <3>2, <3>3 DEF Recent
  <2> QED BY <2>7, <2>8, <2>9 DEF Settled
<1> QED BY <1>1, <1>5, <1>6, <1>7 DEF Agreed

\* At first nobody has a slot and nothing is under way.
LEMMA AgreedInit ==
  ASSUME Init
  PROVE  Agreed
<1>1. /\ net = {} /\ incidents = 0
      /\ \A i \in Slots : slot[i].state = "free" /\ slot[i].port = NoPort
      /\ \A k \in Entries : challenges[k].port = NoPort /\ challenges[k].challenge = NoChallenge
      /\ \A c \in Clients : /\ client[c].port = First(PortsOf[c])
                            /\ client[c].qport = <<c, 0>> /\ client[c].challenge = NoChallenge
                            /\ client[c].state = "disconnected"
  BY DEF Init, Slot, QPort
<1>2. \A c \in Clients : Mine(c) = {} /\ Requested(c) = {} /\ Answers(c) = {} /\ Connects(c) = {}
  BY <1>1 DEF Mine, Requested, Answers, Connects
<1>3. \A c \in Clients : First(PortsOf[c]) \in PortsOf[c] BY ConstantsTyped, FirstIn
<1>4. Owned
  <2>1. \A c \in Clients : client[c].qport \in OwnQPorts(c)
    <3> TAKE c \in Clients
    <3>1. 0 \in 0 .. incidents BY <1>1
    <3>2. <<c, 0>> \in OwnQPorts(c) BY <3>1 DEF OwnQPorts
    <3>3. client[c].qport = <<c, 0>> BY <1>1
    <3> QED BY <3>2, <3>3
  <2> QED BY <1>1, <1>3, <2>1 DEF Owned
<1>5. IInv BY InitHolds
<1>6. Numbered BY <1>1, <1>5, NoneIssued DEF Numbered
<1>7. ASSUME NEW c \in Clients PROVE Settled(c)
  BY <1>1, <1>2 DEF Settled, Waited, OneTry, Apart, AtMostOne, Near, Keyed, LetIn, Recent
<1> QED BY <1>4, <1>6, <1>7 DEF Agreed

\* Every step keeps it.
LEMMA AgreedNext ==
  ASSUME IInv, Agreed, [Next]_vars
  PROVE  Agreed'
<1>1. CASE UNCHANGED vars
  BY <1>1 DEF vars, Agreed, Owned, OwnQPorts, SlotOwned, PacketOwned, Numbered, Issued, Settled,
     Waited, OneTry, Apart, AtMostOne, Near, Mine, Keyed, LetIn, Recent, Requested, Answers,
     Connects, Responses, Valid
<1>2. ASSUME NEW c \in Clients,
             \/ CL_Connect_f(c) \/ CL_Disconnect_f(c) \/ CL_CheckForResend(c)
             \/ CL_CheckTimeout(c) \/ Crash(c) \/ Translate(c) \/ SV_PacketEvent(c)
      PROVE  Agreed'
  BY <1>2, AgreedConnect_f, AgreedDisconnect, AgreedCheckForResend, AgreedCrash,
     AgreedTranslate, AgreedServerPacket
  DEF CL_Disconnect_f, CL_CheckTimeout
<1>3. ASSUME NEW c \in Clients, NEW m \in net, CL_ConnectionlessPacket(c, m)
      PROVE  Agreed'
  BY <1>3, AgreedConnectionlessPacket
<1>4. ASSUME NEW c \in Clients, NEW i \in Slots, CL_PacketEvent(c, i)
      PROVE  Agreed'
  BY <1>4, AgreedPacketEvent
<1>5. ASSUME NEW m \in net, SV_ConnectionlessPacket(m)
      PROVE  Agreed'
  BY <1>5, AgreedGetChallenge, AgreedInfo, AgreedDirectConnect DEF SV_ConnectionlessPacket
<1>6. CASE SV_Frame BY <1>6, AgreedFrame
<1> QED BY <1>1, <1>2, <1>3, <1>4, <1>5, <1>6 DEF Next

\* The second invariant of every behaviour.
THEOREM AgreedInvariant == Spec => [](IInv /\ Agreed)
<1>1. Init => IInv /\ Agreed BY InitHolds, AgreedInit
<1>2. IInv /\ Agreed /\ [Next]_vars => (IInv /\ Agreed)' BY NextHolds, AgreedNext
<1> QED BY <1>1, <1>2, PTL DEF Spec

\* Both ends of a connection encode with the same challenge, whatever was sent twice, late
\* or never, as long as the player's user never tried again before the last try was over:
\* SV_DirectConnect, CL_ConnectionlessPacket and sv_reconnectlimit.
THEOREM ChallengesAgree == Spec => []KeysAgree
<1>1. ASSUME IInv, Agreed, NEW c \in Clients \ hasty PROVE Agree(c)
  <2> SUFFICES ASSUME client[c].state = "connected"
               PROVE  /\ \A i \in Heard(c) : slot[i].challenge = client[c].challenge
                      /\ \A i \in Slots : slot[i].state # "free" /\ slot[i].port = client[c].port
                                            => slot[i].challenge = client[c].challenge
    BY DEF Agree
  <2>1. \A i \in Mine(c) :
          /\ slot[i].qport = client[c].qport => slot[i].challenge = client[c].challenge
          /\ slot[i].port = client[c].port => slot[i].qport = client[c].qport
    BY <1>1 DEF Agreed, Settled, Keyed, LetIn
  <2>2. \A i \in Heard(c) : slot[i].challenge = client[c].challenge
    BY <1>1, <2>1, FoundMine DEF Agreed, Heard
  <2>3. client[c].port \in PortsOf[c] BY <1>1 DEF Agreed, Owned
  <2>4. \A i \in Slots : slot[i].state # "free" /\ slot[i].port = client[c].port => i \in Mine(c)
    BY <1>1, <2>3, SlotIsMine DEF Agreed
  <2> QED BY <2>1, <2>2, <2>4
<1>2. IInv /\ Agreed => KeysAgree BY <1>1 DEF KeysAgree
<1> QED BY <1>2, AgreedInvariant, PTL

----------------------------------------------------------------------------
(* Why who stays is not thrown out.                                        *)

\* The slot of a client that stays: it is the only one with the client's qport.
LEMMA ServedStays ==
  ASSUME Agreed, Agreed', NEW c \in Clients, c \notin hasty', NEW i \in Served(c),
         slot'[i].state = "connected", slot'[i].qport = slot[i].qport,
         slot'[i].challenge = slot[i].challenge, client'[c].qport = client[c].qport,
         client'[c].challenge = client[c].challenge
  PROVE  i \in Served(c)'
<1>1. /\ i \in Slots /\ slot[i].qport = client[c].qport
      /\ slot[i].challenge = client[c].challenge
  BY FoundMine DEF Agreed, Served, Heard, Mine
<1>2. i \in Found(c)' BY <1>1 DEF Found
<1>3. \A j \in Found(c)' : j = i
  <2>1. ASSUME NEW j \in Found(c)' PROVE j \in Mine(c)'
    <3>1. j \in Slots /\ slot'[j].state # "free" /\ slot'[j].qport \in OwnQPorts(c)'
      BY DEF Found, Agreed, Owned
    <3>2. SlotOwned(j)' BY <3>1 DEF Agreed, Owned
    <3>3. slot'[j].player = c BY <3>1, <3>2 DEF SlotOwned, OwnQPorts
    <3> QED BY <3>1, <3>3 DEF Mine
  <2>2. ASSUME NEW j \in Found(c)' PROVE j = i
    <3>1. j \in Mine(c)' /\ i \in Mine(c)' /\ slot'[j].qport = slot'[i].qport
      BY <1>2, <2>1 DEF Found
    <3> QED BY <3>1 DEF Agreed, Settled, Apart
  <2> QED BY <2>2
<1>4. i \in Heard(c)'
  <2>1. Found(c)' \in SUBSET Nat BY ConstantsTyped DEF Found
  <2>2. First(Found(c)') = i BY <1>2, <1>3, <2>1, FirstIn
  <2> QED BY <1>2, <2>2 DEF Heard
<1> QED BY <1>1, <1>4 DEF Served

\* To hear of another player leaves a player's slot alone.
LEMMA HeardElsewhere ==
  ASSUME IInv, Agreed, NEW c \in Clients, NEW i \in Served(c), NEW d \in Clients \ {c},
         OnlyHeard(d)
  PROVE  slot'[i] = slot[i]
<1>1. i \in Mine(c) BY FoundMine DEF Agreed, Served, Heard
<1> QED BY <1>1, HeardMine

\* A player who leaves, or leaves to try again, does not stay, and leaves no slot but its
\* own.
LEMMA OthersLeave ==
  ASSUME IInv, Agreed, NEW d \in Clients, CL_Disconnect(d) \/ CL_Connect_f(d), NEW c \in Clients,
         NEW i \in Served(c), client'[c].state = "connected"
  PROVE  slot'[i] = slot[i] /\ client'[c] = client[c]
<1>1. /\ client \in [Clients -> ClientRecords]
      /\ client'[d].state \in {"disconnected", "connecting"}
      /\ d # c => client'[c] = client[c]
  BY DEF CL_Disconnect, CL_Connect_f, IInv, Types, ClientRecords
<1>2. d # c BY <1>1
<1>3. Leaves(d) /\ net' = net /\ incidents' = incidents BY DEF CL_Disconnect, CL_Connect_f
<1>4. OnlyHeard(d) BY <1>3, LeavesHeard
<1> QED BY <1>1, <1>2, <1>4, HeardElsewhere

\* The quick reject: whoever takes a slot of a player that stays has left an earlier one.
LEMMA ConnectLeaves ==
  ASSUME IInv, Agreed, NEW m \in net, SV_DirectConnect(m), NEW c \in Clients \ hasty,
         NEW i \in Served(c), client[c].state = "connected", ~LeftEarlier(c, i)
  PROVE  slot'[i] = slot[i]
<1>1. m.kind = "connect" /\ ~TooSoon(m) BY DEF SV_DirectConnect
<1>2. i \in Mine(c) /\ i \in Slots /\ slot[i].qport = client[c].qport
      /\ slot[i].state # "free"
  BY FoundMine DEF Agreed, Served, Heard, Mine
<1>3. ASSUME slot'[i] # slot[i] PROVE Valid(m) # {} /\ i \in Place(m)
  <2>1. slot \in [Slots -> SlotRecords] BY DEF IInv, Types
  <2>2. Valid(m) # {} /\ \E j \in Place(m) : \E r : slot' = [slot EXCEPT ![j] = r]
    BY <1>3 DEF SV_DirectConnect
  <2> QED BY <1>2, <1>3, <2>1, <2>2
<1>4. ASSUME Valid(m) # {}, i \in Place(m) PROVE TooSoon(m)
  <2>1. i \in Mine(Player(m)) BY <1>1, <1>2, <1>4, PlaceNear
  <2>2. Player(m) = c /\ m \in Connects(c)
    BY <1>1, <1>2, <2>1 DEF Mine, Connects
  <2>3. \A j \in Near(c, m.qport, m.port) : j = i BY <1>1, <1>4, <2>2, PlaceNear
  <2>4. m.qport = client[c].qport BY <2>2 DEF Agreed, Settled, OneTry
  <2>5. m.port \in PortsOf[c] /\ m.qport \in OwnQPorts(c) /\ m.age \in 0 .. MaxAge
    BY <1>1, <2>2, PacketFields DEF Agreed, RequestKinds
  <2>6. slot[i].connectAge < sv_reconnectlimit
    <3>1. slot[i].connectAge <= m.age + MaxAge
      BY <1>2, <2>2 DEF Agreed, Settled, Recent
    <3>2. slot[i].connectAge \in Nat BY <1>2 DEF IInv, Types, SlotRecords
    <3> QED BY <2>5, <3>1, <3>2, PortsApart, ConstantsTyped
  <2>7. i \in Same(m) BY <1>2, <2>4 DEF Same, Agreed, Owned
  <2>8. Same(m) \in SUBSET Nat BY ConstantsTyped DEF Same
  <2>9. First(Same(m)) \in Same(m) /\ First(Same(m)) <= i BY <2>7, <2>8, FirstLeast
  <2>10. First(Same(m)) = i
    <3>1. PICK j : j = First(Same(m)) OBVIOUS
    <3>2. j \in Slots /\ j \in Nat /\ i \in Nat /\ j <= i /\ slot[j].port # NoPort
          /\ (slot[j].qport = m.qport \/ slot[j].port = m.port)
      BY <1>2, <2>8, <2>9, <3>1, ConstantsTyped DEF Same
    <3>3. slot[j].player = c
      <4>1. SlotOwned(j) BY <3>2 DEF Agreed, Owned
      <4> QED BY <2>5, <3>2, <4>1, PortsApart DEF SlotOwned, OwnQPorts
    <3>4. CASE slot[j].state = "free"
      <4>1. j # i BY <1>2, <3>4
      <4> QED BY <3>2, <3>3, <3>4, <4>1 DEF LeftEarlier
    <3>5. CASE slot[j].state # "free"
      <4>1. j \in Near(c, m.qport, m.port) BY <3>2, <3>3, <3>5 DEF Near, Mine
      <4> QED BY <2>3, <3>1, <4>1
    <3> QED BY <3>4, <3>5
  <2> QED BY <2>6, <2>7, <2>10 DEF TooSoon
<1> QED BY <1>1, <1>3, <1>4

\* What a step leaves of the slot of a client that stays.
LEMMA SlotStays ==
  ASSUME IInv, Agreed, Next, NEW c \in Clients \ hasty, NEW i \in Served(c),
         client'[c].state = "connected", client'[c].qport = client[c].qport,
         slot[i].packetAge < sv_timeout, ~LeftEarlier(c, i)
  PROVE  /\ slot'[i].state = "connected" /\ slot'[i].qport = slot[i].qport
         /\ slot'[i].challenge = slot[i].challenge
         /\ client'[c].challenge = client[c].challenge
<1>1. /\ i \in Mine(c) /\ i \in Slots /\ slot[i].state = "connected"
      /\ slot[i].qport = client[c].qport
  BY FoundMine DEF Agreed, Served, Heard, Mine
<1>2. /\ slot \in [Slots -> SlotRecords] /\ slot[i] \in SlotRecords
      /\ client \in [Clients -> ClientRecords] /\ client[c] \in ClientRecords
  BY <1>1 DEF IInv, Types
<1>3. ASSUME NEW d \in Clients, CL_Disconnect(d) \/ CL_Connect_f(d)
      PROVE  slot'[i] = slot[i] /\ client'[c] = client[c]
  BY <1>3, OthersLeave
<1>4. ASSUME NEW d \in Clients,
             CL_CheckForResend(d) \/ Crash(d) \/ Translate(d)
      PROVE  slot'[i] = slot[i] /\ client'[c].challenge = client[c].challenge
  <2>1. slot' = slot
    BY <1>4 DEF CL_CheckForResend, Crash, Translate
  <2>2. CASE d # c
    <3>1. client'[c] = client[c]
      BY <1>2, <1>4, <2>2 DEF CL_CheckForResend, Crash, Translate
    <3> QED BY <2>1, <3>1
  <2>3. CASE d = c
    <3>1. CASE Crash(d)
      <4>1. client'[c].state = "disconnected" BY <1>2, <2>3, <3>1 DEF Crash
      <4> QED BY <4>1
    <3>2. CASE CL_CheckForResend(d)
      BY <1>2, <2>1, <2>3, <3>2 DEF CL_CheckForResend, ClientRecords
    <3>3. CASE Translate(d) BY <1>2, <2>1, <2>3, <3>3 DEF Translate, ClientRecords
    <3> QED BY <1>4, <3>1, <3>2, <3>3
  <2> QED BY <2>2, <2>3
<1>5. ASSUME NEW d \in Clients, SV_PacketEvent(d)
      PROVE  /\ slot'[i].state = slot[i].state /\ slot'[i].qport = slot[i].qport
             /\ slot'[i].challenge = slot[i].challenge /\ client' = client
  <2>1. /\ client' = client /\ net' = net /\ incidents' = incidents
        /\ client[d].state = "connected" /\ client[d].port \in Nat
    BY <1>2, <1>5 DEF SV_PacketEvent, IInv, Types, ClientRecords
  <2>2. ASSUME NEW j \in Heard(d),
               \/ slot' = [slot EXCEPT ![j].port = client[d].port]
               \/ slot' = [[slot EXCEPT ![j].port = client[d].port] EXCEPT ![j].packetAge = 0]
        PROVE  /\ slot'[i].state = slot[i].state /\ slot'[i].qport = slot[i].qport
               /\ slot'[i].challenge = slot[i].challenge
    <3>1. j \in Slots BY DEF Heard, Found
    <3>2. /\ slot'[j].state = slot[j].state /\ slot'[j].qport = slot[j].qport
          /\ slot'[j].challenge = slot[j].challenge
          /\ \A k \in Slots \ {j} : slot'[k] = slot[k]
      BY <1>2, <2>1, <2>2, <3>1, MovedIs
    <3> QED BY <1>1, <3>2
  <2>3. ASSUME NEW j \in Heard(d), ~Legible(d, j), SV_DropClient(j, client[d].port)
        PROVE  slot'[i] = slot[i]
    <3>1. CASE d # c
      <4>1. EntriesKept /\ HeardOf(d, j) BY <2>1, <2>3, DropHeard
      <4>2. OnlyHeard(d) BY <2>1, <4>1 DEF OnlyHeard, HeardOf
      <4> QED BY <3>1, <4>2, HeardElsewhere
    <3>2. CASE d = c
      <4>1. i = j /\ slot[i].challenge = client[c].challenge
        BY <2>3, <3>2 DEF Served, Heard
      <4> QED BY <2>3, <3>2, <4>1 DEF Legible
    <3> QED BY <3>1, <3>2
  <2> QED BY <1>5, <2>1, <2>2, <2>3 DEF SV_PacketEvent
<1>6. ASSUME NEW d \in Clients, NEW m \in net, CL_ConnectionlessPacket(d, m), ~CL_Disconnect(d)
      PROVE  slot'[i] = slot[i] /\ client'[c].challenge = client[c].challenge
  <2>1. /\ slot' = slot /\ Becomes(d, m.kind) # client[d].state
        /\ client' = [client EXCEPT ![d].state = Becomes(d, m.kind),
                        ![d].age = LongAgo[Becomes(d, m.kind)],
                        ![d].challenge = IF m.kind = "challengeResponse" THEN m.challenge ELSE @]
    BY <1>6 DEF CL_ConnectionlessPacket
  <2>2. CASE d # c BY <1>2, <2>1, <2>2
  <2>3. CASE d = c
    <3>1. client'[c].state = Becomes(c, m.kind)
          /\ (m.kind # "challengeResponse" => client'[c].challenge = client[c].challenge)
      BY <1>2, <2>1, <2>3 DEF ClientRecords
    <3>2. m.kind # "challengeResponse"
      BY <1>2, <2>1, <2>3, <3>1, Awaited DEF ClientRecords
    <3> QED BY <2>1, <3>1, <3>2
  <2> QED BY <2>2, <2>3
<1>7. ASSUME NEW d \in Clients, NEW j \in Slots, CL_PacketEvent(d, j), ~CL_Disconnect(d)
      PROVE  slot'[i] = slot[i] /\ client'[c].challenge = client[c].challenge
  <2>1. slot' = slot /\ client' = [client EXCEPT ![d].age = 0] BY <1>7 DEF CL_PacketEvent
  <2>2. CASE d # c BY <1>2, <2>1, <2>2
  <2>3. CASE d = c BY <1>2, <2>1, <2>3 DEF ClientRecords
  <2> QED BY <2>2, <2>3
<1>8. ASSUME NEW m \in net, SV_ConnectionlessPacket(m)
      PROVE  slot'[i] = slot[i] /\ client' = client
  <2>1. client' = client BY <1>8 DEF SV_ConnectionlessPacket
  <2>2. CASE SV_DirectConnect(m) BY <2>1, <2>2, ConnectLeaves
  <2>3. CASE SV_GetChallenge(m) \/ SVC_Info(m) BY <2>1, <2>3 DEF SV_GetChallenge, SVC_Info
  <2> QED BY <1>8, <2>2, <2>3 DEF SV_ConnectionlessPacket
<1>9. ASSUME SV_Frame
      PROVE  /\ slot'[i].state = slot[i].state /\ slot'[i].qport = slot[i].qport
             /\ slot'[i].challenge = slot[i].challenge
             /\ client'[c].challenge = client[c].challenge
  <2>1. i \notin TimedOut \cup Rested
    <3>1. slot[i].packetAge \in Nat /\ sv_timeout \in Nat
      BY <1>2, ConstantsTyped DEF SlotRecords
    <3> QED BY <1>1, <3>1 DEF TimedOut, Rested
  <2>2. slot'[i] = Older(slot[i]) BY <1>1, <1>9, <2>1 DEF SV_Frame, SV_CheckTimeouts
  <2>3. client'[c].challenge = client[c].challenge BY <1>2, <1>9 DEF SV_Frame, ClientRecords
  <2>4. Older(slot[i]).state = slot[i].state BY <1>2, SlotChanges
  <2>5. slot'[i].qport = slot[i].qport /\ slot'[i].challenge = slot[i].challenge
    BY <1>2, <2>2, OlderSlot
  <2> QED BY <2>2, <2>3, <2>4, <2>5
<1>10. CASE \E d \in Clients : \/ CL_Connect_f(d) \/ CL_Disconnect_f(d)
                               \/ CL_CheckForResend(d) \/ CL_CheckTimeout(d)
                               \/ Crash(d) \/ Translate(d) \/ SV_PacketEvent(d)
  <2>1. PICK d \in Clients : \/ CL_Connect_f(d) \/ CL_Disconnect_f(d)
                             \/ CL_CheckForResend(d) \/ CL_CheckTimeout(d)
                             \/ Crash(d) \/ Translate(d) \/ SV_PacketEvent(d)
    BY <1>10
  <2>2. CASE CL_Connect_f(d) \/ CL_Disconnect_f(d) \/ CL_CheckTimeout(d)
    <3>1. CL_Disconnect(d) \/ CL_Connect_f(d)
      BY <2>2 DEF CL_Disconnect_f, CL_CheckTimeout
    <3> QED BY <1>1, <1>3, <3>1
  <2>3. CASE SV_PacketEvent(d) BY <1>1, <1>5, <2>3
  <2>4. CASE CL_CheckForResend(d) \/ Crash(d) \/ Translate(d)
    BY <1>1, <1>4, <2>4
  <2> QED BY <2>1, <2>2, <2>3, <2>4
<1>11. CASE \E d \in Clients, m \in net : CL_ConnectionlessPacket(d, m)
  BY <1>1, <1>3, <1>6, <1>11
<1>12. CASE \E d \in Clients, j \in Slots : CL_PacketEvent(d, j)
  BY <1>1, <1>3, <1>7, <1>12
<1>13. CASE \E m \in net : SV_ConnectionlessPacket(m) BY <1>1, <1>8, <1>13
<1>14. CASE SV_Frame BY <1>1, <1>9, <1>14
<1> QED BY <1>10, <1>11, <1>12, <1>13, <1>14 DEF Next

\* Only who tries to connect becomes hasty.
LEMMA StaysPatient ==
  ASSUME IInv, Next, NEW c \in Clients \ hasty, client'[c].state = "connected"
  PROVE  c \notin hasty'
<1>1. ASSUME NEW d \in Clients, CL_Connect_f(d) PROVE c \notin hasty'
  <2>1. hasty' \subseteq hasty \cup {d} BY <1>1 DEF CL_Connect_f
  <2>2. client'[d].state = "connecting"
    BY <1>1 DEF CL_Connect_f, IInv, Types, ClientRecords
  <2> QED BY <2>1, <2>2
<1>2. CASE ~\E d \in Clients : CL_Connect_f(d)
  <2>1. hasty' = hasty
    BY <1>2 DEF Next, CL_Disconnect_f, CL_Disconnect, CL_CheckForResend, CL_CheckTimeout, Crash,
       Translate, SV_PacketEvent, CL_ConnectionlessPacket, CL_PacketEvent,
       SV_ConnectionlessPacket, SV_Frame
  <2> QED BY <2>1
<1> QED BY <1>1, <1>2

\* A client that stays keeps its slot until the server has not heard of it for sv_timeout,
\* whatever packets come again, unless it has left an earlier slot that is free, or its
\* user has tried again before the last try was over.
THEOREM StayingKeepsSlot == Spec => NotThrownOut
<1>1. IInv /\ Agreed /\ [Next]_vars =>
        [\A c \in Clients \ hasty : \A i \in Served(c) :
           client'[c].state = "connected" /\ client'[c].qport = client[c].qport =>
             i \in Served(c)' \/ slot[i].packetAge >= sv_timeout \/ LeftEarlier(c, i)]_vars
  <2> SUFFICES ASSUME IInv, Agreed, Next, NEW c \in Clients \ hasty, NEW i \in Served(c),
                      client'[c].state = "connected", client'[c].qport = client[c].qport,
                      ~(slot[i].packetAge >= sv_timeout), ~LeftEarlier(c, i)
               PROVE  i \in Served(c)'
    OBVIOUS
  <2>1. Agreed' BY AgreedNext
  <2>2. slot[i].packetAge < sv_timeout
    <3>1. i \in Slots BY FoundMine DEF Agreed, Served, Heard, Mine
    <3>2. slot[i].packetAge \in Nat /\ sv_timeout \in Nat
      BY <3>1, ConstantsTyped DEF IInv, Types, SlotRecords
    <3> QED BY <3>2
  <2>3. c \notin hasty' BY StaysPatient
  <2> QED BY <2>1, <2>2, <2>3, SlotStays, ServedStays
<1> QED BY <1>1, AgreedInvariant, PTL DEF NotThrownOut, Spec
=============================================================================
