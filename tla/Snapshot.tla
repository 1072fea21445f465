------------------------------ MODULE Snapshot ------------------------------
(***************************************************************************)
(* The snapshots of the world that a client in the game gets, each         *)
(* compressed against an older one that the client said it has.            *)
(*                                                                         *)
(* The server keeps of the last PACKET_BACKUP messages to a client which   *)
(* entities they had; the entities themselves are in a ring that all       *)
(* clients share.  The client keeps the same of the messages it got, with  *)
(* a ring of its own.  A snapshot is a function from the numbers of the    *)
(* entities in it to their states; an entity that did not change is not    *)
(* sent, so that it is right only if both sides delta from the same.       *)
(*                                                                         *)
(* Messages may be lost, the others arrive once and in order (Netchan).    *)
(* The player state and what belongs to the snapshot as a whole is not     *)
(* modelled: it is kept with the frame and not in a ring.                  *)
(***************************************************************************)
EXTENDS Integers, Sequences, FiniteSets, FiniteSetsExt

CONSTANTS PACKET_BACKUP,
          DELTA_MARGIN,        \* 3: no delta from a frame that is almost overwritten
          MAX_PARSE_ENTITIES,  \* the client's ring
          PARSE_MARGIN,        \* 128: no delta if fewer slots are free
          NumSnapshotEntities, \* svs.numSnapshotEntities, the server's ring
          MaxEntities,         \* bound: entities in a snapshot
          Values,              \* states of an entity
          Worlds,              \* bound: what a snapshot may hold
          Others,              \* bound: entities in other clients' snapshots between two
          MaxMessages          \* bound: messages to the client

Removed == "removed"

ASSUME SnapshotAssumption ==
  /\ DELTA_MARGIN \in Nat /\ PACKET_BACKUP \in Nat /\ PACKET_BACKUP > DELTA_MARGIN
  /\ PARSE_MARGIN \in Nat \ {0}
  /\ MAX_PARSE_ENTITIES \in Nat /\ MAX_PARSE_ENTITIES >= PARSE_MARGIN
  /\ MaxEntities \in Nat \ {0} /\ MaxMessages \in Nat
  /\ Worlds \subseteq UNION {[S -> Values] : S \in SUBSET (1 .. MaxEntities)}
  /\ Removed \notin Values
  /\ Others \subseteq Nat
  /\ NumSnapshotEntities \in Nat /\ NumSnapshotEntities >= MaxEntities

VARIABLES
  server,    \* client_t: frames and the ring of entities
  client,    \* clientActive_t: snapshots and the ring of entities
  toClient,  \* the message under way, if any
  toServer   \* the usercmd packet under way, if any

vars == <<server, client, toClient, toServer>>

Numbers == 1 .. MaxEntities
NoEntity == [number |-> MaxEntities + 1, state |-> Removed]

\* Entities in the order of their numbers, and a snapshot as such a sequence.
InOrder(entities) ==
  [i \in 1 .. Cardinality(entities) |->
     CHOOSE e \in entities : Cardinality({f \in entities : f.number < e.number}) = i - 1]

Sorted(world) == InOrder({[number |-> n, state |-> world[n]] : n \in DOMAIN world})

Init ==
  /\ server = [outgoingSequence |-> 1, deltaMessage |-> -1, parseEntitiesNum |-> 0,
               frames |-> [k \in 0 .. PACKET_BACKUP - 1 |-> [first |-> 0, num |-> 0]],
               next |-> 0,
               ring |-> [k \in 0 .. NumSnapshotEntities - 1 |-> NoEntity]]
  /\ client = [message |-> 0, snap |-> 0,
               snapshots |-> [k \in 0 .. PACKET_BACKUP - 1 |->
                  [valid |-> FALSE, message |-> 0, first |-> 0, num |-> 0, built |-> <<>>]],
               next |-> 0,
               ring |-> [k \in 0 .. MAX_PARSE_ENTITIES - 1 |-> NoEntity],
               refused |-> FALSE]       \* history: a delta was not valid
  /\ toClient = <<>>
  /\ toServer = <<>>

----------------------------------------------------------------------------
(* The server.                                                             *)

\* Entities are put into the ring from position next on.
Put(ring, next, entities) ==
  [k \in DOMAIN ring |->
     LET I == {i \in 1 .. Len(entities) : (next + i - 1) % NumSnapshotEntities = k}
     IN  IF I = {} THEN ring[k] ELSE entities[Max(I)]]

\* Mutant: the ring's position is not advanced.
MutSV_BuildClientSnapshot(world, others) ==
  LET e == Sorted(world)
  IN  [server EXCEPT
         !.frames[server.outgoingSequence % PACKET_BACKUP] = [first |-> server.next, num |-> Len(e)],
         !.ring = Put(server.ring, server.next, e)]

\* SV_BuildClientSnapshot, after the snapshots of other clients.
SV_BuildClientSnapshot(world, others) ==
  LET next == server.next + others
      ring == Put(server.ring, server.next, [i \in 1 .. others |-> NoEntity])
      e    == Sorted(world)
  IN  [server EXCEPT
         !.frames[server.outgoingSequence % PACKET_BACKUP] = [first |-> next, num |-> Len(e)],
         !.ring = Put(ring, next, e),
         !.next = next + Len(e)]

Full(s) == [s EXCEPT !.deltaMessage = -1, !.parseEntitiesNum = 0]

\* Mutant: the ring may have overwritten the frame's entities.
MutBase(s) ==
  IF \/ s.deltaMessage <= 0
     \/ s.outgoingSequence - s.deltaMessage >= PACKET_BACKUP - DELTA_MARGIN
  THEN 0 ELSE s.deltaMessage

\* The number of the message to delta from, or 0.
Base(s) ==
  IF \/ s.deltaMessage <= 0
     \/ s.outgoingSequence - s.deltaMessage >= PACKET_BACKUP - DELTA_MARGIN
     \/ s.frames[s.deltaMessage % PACKET_BACKUP].first <= s.next - NumSnapshotEntities
  THEN 0 ELSE s.deltaMessage

\* The entities of frame f in the ring.
InRing(f, ring, size) == [i \in 1 .. f.num |-> ring[(f.first + i - 1) % size]]

\* SV_EmitPacketEntities: what is new, changed or gone.
SV_EmitPacketEntities(old, new) ==
  LET Has(s, n) == \E i \in 1 .. Len(s) : s[i].number = n
      Changed == {i \in 1 .. Len(new) : \A j \in 1 .. Len(old) : old[j] # new[i]}
      Gone    == {n \in Numbers : Has(old, n) /\ ~Has(new, n)}
  IN  InOrder({new[i] : i \in Changed} \cup {[number |-> n, state |-> Removed] : n \in Gone})

\* SV_SendClientSnapshot with SV_WriteSnapshotToClient.
SV_SendClientSnapshot(world, others) ==
  LET built == SV_BuildClientSnapshot(world, others)
      s     == IF built.parseEntitiesNum > MAX_PARSE_ENTITIES - PARSE_MARGIN
               THEN Full(built) ELSE built
      base  == Base(s)
      old   == IF base = 0 THEN <<>>
               ELSE InRing(s.frames[base % PACKET_BACKUP], s.ring, NumSnapshotEntities)
  IN  /\ server.outgoingSequence <= MaxMessages
      /\ server' = [s EXCEPT !.outgoingSequence = @ + 1,
                             !.parseEntitiesNum = @ + Cardinality(DOMAIN world)]
      /\ toClient' = <<[sequence |-> s.outgoingSequence, snapshot |-> TRUE, base |-> base,
                        entities |-> SV_EmitPacketEntities(old, Sorted(world)),
                        built |-> world]>>
      /\ UNCHANGED <<client, toServer>>

\* A message without a snapshot, such as a block of a download.
SV_SendMessageToClient ==
  /\ server.outgoingSequence <= MaxMessages
  /\ server' = [server EXCEPT !.outgoingSequence = @ + 1]
  /\ toClient' = <<[sequence |-> server.outgoingSequence, snapshot |-> FALSE]>>
  /\ UNCHANGED <<client, toServer>>

\* The entities of the frames of messages from .. to - 1.
Counted(frames, from, to) ==
  LET num[i \in Nat] == IF i = 0 THEN 0
                        ELSE num[i - 1] + frames[(from + i - 1) % PACKET_BACKUP].num
  IN  num[to - from]

\* Mutant: the entities of the acknowledged message itself are not counted.
MutSV_UserMove ==
  /\ toServer # <<>>
  /\ LET p == toServer[1]
     IN  server' = IF ~p.delta THEN Full(server)
                   ELSE [server EXCEPT
                           !.deltaMessage = p.acknowledge,
                           !.parseEntitiesNum =
                              Counted(server.frames, p.acknowledge + 1, server.outgoingSequence)]
  /\ toServer' = <<>>
  /\ UNCHANGED <<client, toClient>>

\* SV_UserMove: the client says what it has.  parseEntitiesNum is what it will
\* have put into its ring from that message on.
SV_UserMove ==
  /\ toServer # <<>>
  /\ LET p == toServer[1]
     IN  server' = IF ~p.delta THEN Full(server)
                   ELSE [server EXCEPT
                           !.deltaMessage = p.acknowledge,
                           !.parseEntitiesNum =
                              Counted(server.frames, p.acknowledge, server.outgoingSequence)]
  /\ toServer' = <<>>
  /\ UNCHANGED <<client, toClient>>

----------------------------------------------------------------------------
(* The client.                                                             *)

\* The numbers that are next in the old frame and in the message.
EndNumber == MaxEntities + 2

OldEntity(ring, old, j) == ring[(old.first + j) % MAX_PARSE_ENTITIES]
OldNumber(ring, old, j) == IF j >= old.num THEN EndNumber ELSE OldEntity(ring, old, j).number
NewNumber(entities, i)  == IF i > Len(entities) THEN EndNumber ELSE entities[i].number

\* An entity is put at the end of the new frame, which one that is gone leaves
\* as long as it was.
CL_DeltaEntity(s, next, e) ==
  [s EXCEPT !.ring[(next + s.num) % MAX_PARSE_ENTITIES] = e,
            !.num = IF e.state = Removed THEN @ ELSE @ + 1]

NextOld(s, old) == [s EXCEPT !.j = @ + 1, !.oldNumber = OldNumber(s.ring, old, s.j + 1)]

ParseEntity(s, next, old, entities) ==
  LET new       == NewNumber(entities, s.i)
      FromOld   == CL_DeltaEntity(s, next, OldEntity(s.ring, old, s.j))
      FromDelta == [CL_DeltaEntity(s, next, entities[s.i]) EXCEPT !.i = @ + 1]
  IN  CASE s.oldNumber < new -> NextOld(FromOld, old)
        [] s.oldNumber > new -> FromDelta
        [] s.oldNumber = new -> IF new = EndNumber THEN s ELSE NextOld(FromDelta, old)

\* CL_ParsePacketEntities: the entities of the old frame and those of the
\* message, in the order of their numbers, are put into the ring, while those
\* of the old frame are still read from it.
CL_ParsePacketEntities(ring, next, old, entities) ==
  LET after[k \in Nat] == IF k = 0 THEN [ring |-> ring, num |-> 0, i |-> 1, j |-> 0,
                                         oldNumber |-> OldNumber(ring, old, 0)]
                          ELSE ParseEntity(after[k - 1], next, old, entities)
  IN  after[old.num + Len(entities)]

\* The frame that the message says it was made from, and whether it is that and
\* not too old.
OldFrame(m) == IF m.base = 0 THEN [first |-> 0, num |-> 0] ELSE client.snapshots[m.base % PACKET_BACKUP]

ValidDelta(m) ==
  m.base # 0 => LET old == OldFrame(m)
                IN  /\ old.valid /\ old.message = m.base
                    /\ client.next - old.first <= MAX_PARSE_ENTITIES - PARSE_MARGIN

\* The messages that did not come since the last snapshot, whose slots it clears.
Lost(m) == {n \in client.snap + 1 .. m.sequence - 1 : m.sequence - n < PACKET_BACKUP}

\* CL_ParseSnapshot: the entities are parsed anyway, the snapshot kept if valid.
CL_ParseSnapshot(m) ==
  LET p      == CL_ParsePacketEntities(client.ring, client.next, OldFrame(m), m.entities)
      parsed == [client EXCEPT !.message = m.sequence, !.ring = p.ring, !.next = @ + p.num,
                               !.refused = @ \/ ~ValidDelta(m)]
      new    == [valid |-> TRUE, message |-> m.sequence, first |-> client.next, num |-> p.num,
                 built |-> m.built]
  IN  IF ~ValidDelta(m) THEN parsed
      ELSE [parsed EXCEPT
              !.snap = m.sequence,
              !.snapshots = [k \in DOMAIN @ |->
                 IF k = m.sequence % PACKET_BACKUP THEN new
                 ELSE IF \E n \in Lost(m) : n % PACKET_BACKUP = k THEN [@[k] EXCEPT !.valid = FALSE]
                 ELSE @[k]]]

CL_ParseServerMessage ==
  /\ toClient # <<>>
  /\ LET m == toClient[1]
     IN  client' = IF m.snapshot THEN CL_ParseSnapshot(m)
                   ELSE [client EXCEPT !.message = m.sequence]
  /\ toClient' = <<>>
  /\ UNCHANGED <<server, toServer>>

\* CL_WritePacket: a delta is asked for if the last message was a snapshot.
CL_WritePacket ==
  /\ client.message > 0
  /\ toServer' = <<[acknowledge |-> client.message,
                    delta |-> client.snap > 0 /\ client.message = client.snap]>>
  /\ UNCHANGED <<server, client, toClient>>

Next == \/ \E world \in Worlds, others \in Others : SV_SendClientSnapshot(world, others)
        \/ SV_SendMessageToClient
        \/ SV_UserMove
        \/ CL_ParseServerMessage
        \/ CL_WritePacket

Spec == Init /\ [][Next]_vars

----------------------------------------------------------------------------
(* Properties.                                                             *)

\* The entities of a snapshot that the client has, as a function again.
Entities(snapshot) ==
  LET e == InRing(snapshot, client.ring, MAX_PARSE_ENTITIES)
  IN  [n \in {e[i].number : i \in 1 .. Len(e)} |->
         e[Max({i \in 1 .. Len(e) : e[i].number = n})].state]

Exact(snapshot) ==
  /\ snapshot.num = Cardinality(DOMAIN snapshot.built)
  /\ Entities(snapshot) = snapshot.built

\* Every variable keeps its type; both sides count their entities in step.
TypeOK ==
  /\ server.outgoingSequence \in 1 .. MaxMessages + 1
  /\ server.deltaMessage \in -1 .. server.outgoingSequence - 1
  /\ \A k \in DOMAIN server.frames : server.frames[k].first + server.frames[k].num <= server.next
  /\ client.message \in 0 .. server.outgoingSequence - 1
  /\ client.snap \in 0 .. client.message
  /\ \A k \in DOMAIN client.snapshots :
       client.snapshots[k].first + client.snapshots[k].num <= client.next
  /\ Len(toClient) <= 1 /\ Len(toServer) <= 1

\* CL_ParseSnapshot's "Delta from invalid frame (not supposed to happen!)",
\* "Delta frame too old" and "Delta parseEntitiesNum too old" never happen:
\* the server, that knows no more than the last acknowledgement, chooses a
\* frame the client still has, its entities not overwritten.
DeltasValid == ~client.refused

\* CL_GetSnapshot finds a snapshot by its number and does not look whose it is.
CL_GetSnapshot(n) ==
  LET s == client.snapshots[n % PACKET_BACKUP]
  IN  /\ client.snap - n < PACKET_BACKUP
      /\ s.valid
      /\ client.next - s.first < MAX_PARSE_ENTITIES

\* If no snapshot has more entities than PARSE_MARGIN (128; SV_BuildClientSnapshot
\* takes up to 2048), the last snapshot parsed is the one the server built,
\* however late the acknowledgements and whichever messages were lost, and what
\* the client game is given as number n is what the server built as message n,
\* its entities not overwritten.
SnapshotsExact ==
  MaxEntities <= PARSE_MARGIN =>
    /\ client.snap > 0 => Exact(client.snapshots[client.snap % PACKET_BACKUP])
    /\ \A n \in 1 .. client.snap :
         CL_GetSnapshot(n) => /\ client.snapshots[n % PACKET_BACKUP].message = n
                              /\ Exact(client.snapshots[n % PACKET_BACKUP])
=============================================================================
