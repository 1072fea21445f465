------------------------------ MODULE Netchan ------------------------------
(***************************************************************************)
(* The server-to-client half of a network channel: qcommon/net_chan.c with *)
(* the per-client message queue of server/sv_net_chan.c in front of it.    *)
(*                                                                         *)
(* A message longer than a fragment goes out one fragment per server       *)
(* frame, all fragments under one sequence number, which advances only     *)
(* with the last of them.  Messages made meanwhile wait in the queue and   *)
(* are encoded, with a key taken from outgoingSequence, when they leave    *)
(* it.  The network may lose, repeat, delay and reorder packets: net holds *)
(* every packet ever sent and any of them may arrive at any time, again or *)
(* never.                                                                  *)
(*                                                                         *)
(* The client-to-server half is the same code with an empty queue: the     *)
(* client sends all fragments of a message before it makes the next one.   *)
(***************************************************************************)
EXTENDS Integers, Sequences

CONSTANTS FRAGMENT_SIZE,      \* payload bytes of a full fragment
          MAX_MSGLEN,         \* longest message
          MAX_NETCHAN_QUEUE,  \* the cap SV_Netchan_Transmit tests
          MaxMessages         \* bound: messages the server makes in a run

ASSUME NetchanAssumption ==
  /\ FRAGMENT_SIZE \in Nat \ {0}
  /\ MAX_MSGLEN \in Nat \ {0}
  /\ MAX_NETCHAN_QUEUE \in Nat
  /\ MaxMessages \in Nat

VARIABLES
  outgoingSequence, unsentFragments, unsentFragmentStart, unsentBuffer,
  queue,              \* client_t netchan_start_queue
  zombie,             \* client_t state = CS_ZOMBIE, after SV_DropClient
  net,                \* every packet sent so far
  incomingSequence, fragmentSequence, fragmentBuffer,
  made,               \* history: number of messages made
  wire,               \* history: messages given to Netchan_Transmit
  delivered           \* history: decoded messages the client was given

sendVars == <<outgoingSequence, unsentFragments, unsentFragmentStart, unsentBuffer>>
recvVars == <<incomingSequence, fragmentSequence, fragmentBuffer, delivered>>
vars == <<sendVars, queue, zombie, net, recvVars, made, wire>>

----------------------------------------------------------------------------
(* Messages and byte arrays.  A byte names its message, its place in it    *)
(* and the key it is encoded with; the key is 0 in clear text.  Encoding   *)
(* is an exclusive or with a key stream, so decoding with the key it was   *)
(* encoded with, and no other, gives the clear text back.                  *)

Message == [id : 1 .. MaxMessages, len : 1 .. MAX_MSGLEN]
Byte    == [id : 1 .. MaxMessages, pos : Nat, key : Int]

Encoded(m, key) == [i \in 1 .. m.len |-> [id |-> m.id, pos |-> i, key |-> key]]
Clear(m)        == Encoded(m, 0)
ClearAll(ms)    == [i \in 1 .. Len(ms) |-> Clear(ms[i])]
Decoded(b, key) == [i \in 1 .. Len(b) |->
                      [id |-> b[i].id, pos |-> b[i].pos, key |-> b[i].key - key]]

\* The bytes behind the first start ones of b that fit in one fragment.
FragmentLength(b, start) ==
  IF start + FRAGMENT_SIZE > Len(b) THEN Len(b) - start ELSE FRAGMENT_SIZE
Fragment(b, start) == SubSeq(b, start + 1, start + FragmentLength(b, start))

Packet == [seq : Nat, fragmented : BOOLEAN, start : Nat, data : Seq(Byte)]

----------------------------------------------------------------------------
\* Mutant: the channel is only cleared, outgoingSequence is not set to 1.
MutInit == /\ outgoingSequence = 0
           /\ unsentFragments = FALSE
           /\ unsentFragmentStart = 0
           /\ unsentBuffer = <<>>
           /\ queue = <<>>
           /\ zombie = FALSE
           /\ net = {}
           /\ incomingSequence = 0
           /\ fragmentSequence = 0
           /\ fragmentBuffer = <<>>
           /\ made = 0
           /\ wire = <<>>
           /\ delivered = <<>>

Init == /\ outgoingSequence = 1
        /\ unsentFragments = FALSE
        /\ unsentFragmentStart = 0
        /\ unsentBuffer = <<>>
        /\ queue = <<>>
        /\ zombie = FALSE
        /\ net = {}
        /\ incomingSequence = 0
        /\ fragmentSequence = 0
        /\ fragmentBuffer = <<>>
        /\ made = 0
        /\ wire = <<>>
        /\ delivered = <<>>

----------------------------------------------------------------------------
(* Sending.                                                                *)

\* Mutant: a message of exactly n fragments is never closed.
MutSendFragment(body, start) ==
  LET n    == FragmentLength(body, start)
      last == start + n = Len(body) /\ n \in 1 .. FRAGMENT_SIZE - 1
  IN  /\ net' = net \cup {[seq |-> outgoingSequence, fragmented |-> TRUE,
                           start |-> start, data |-> Fragment(body, start)]}
      /\ unsentFragmentStart' = start + n
      /\ unsentFragments' = ~last
      /\ outgoingSequence' = IF last THEN outgoingSequence + 1 ELSE outgoingSequence

\* Netchan_TransmitNextFragment for the message body at place start.  A
\* message of exactly n fragments is closed by one more, empty, fragment.
SendFragment(body, start) ==
  LET n    == FragmentLength(body, start)
      last == start + n = Len(body) /\ n # FRAGMENT_SIZE
  IN  /\ net' = net \cup {[seq |-> outgoingSequence, fragmented |-> TRUE,
                           start |-> start, data |-> Fragment(body, start)]}
      /\ unsentFragmentStart' = start + n
      /\ unsentFragments' = ~last
      /\ outgoingSequence' = IF last THEN outgoingSequence + 1 ELSE outgoingSequence

\* Netchan_Transmit of an encoded message: whole, or its first fragment.
Netchan_Transmit(body) ==
  IF Len(body) >= FRAGMENT_SIZE
  THEN /\ unsentBuffer' = body
       /\ SendFragment(body, 0)
  ELSE /\ net' = net \cup {[seq |-> outgoingSequence, fragmented |-> FALSE,
                            start |-> 0, data |-> body]}
       /\ unsentFragmentStart' = 0
       /\ outgoingSequence' = outgoingSequence + 1
       /\ UNCHANGED <<unsentFragments, unsentBuffer>>

\* SV_Netchan_Encode, then Netchan_Transmit, of a message leaving the server.
EncodeAndTransmit(m) ==
  /\ wire' = Append(wire, m)
  /\ Netchan_Transmit(Encoded(m, outgoingSequence))

\* Mutant: only the queue is looked at, not the message under way.
MutBusy == queue # <<>>

Busy == unsentFragments \/ queue # <<>>

\* SV_Netchan_Transmit gives the message to the netchan when nothing is
\* under way, queues it otherwise, and drops the client (SV_DropClient, which
\* clears the queue) when it counts more than MAX_NETCHAN_QUEUE queued.
SV_Netchan_Transmit(m) ==
  IF ~Busy
  THEN EncodeAndTransmit(m) /\ UNCHANGED <<queue, zombie>>
  ELSE IF Len(queue) > MAX_NETCHAN_QUEUE
  THEN /\ zombie' = TRUE
       /\ queue' = <<>>
       /\ UNCHANGED <<sendVars, net, wire>>
  ELSE /\ queue' = Append(queue, m)
       /\ UNCHANGED <<sendVars, net, wire, zombie>>

\* The server makes a message for the client.  Gamestates and downloads are
\* sent whenever they are due; a dropped client still gets snapshots, and
\* SV_SendClientMessages makes those only when nothing is under way.
MakeMessage(len) ==
  /\ made < MaxMessages
  /\ zombie => ~Busy
  /\ made' = made + 1
  /\ SV_Netchan_Transmit([id |-> made + 1, len |-> len])
  /\ UNCHANGED recvVars

\* SV_Netchan_TransmitNextFragment, from SV_SendQueuedMessages in every
\* frame: the next fragment, or else the first message of the queue.
NextFragment ==
  /\ unsentFragments
  /\ SendFragment(unsentBuffer, unsentFragmentStart)
  /\ UNCHANGED <<unsentBuffer, queue, zombie, recvVars, made, wire>>

NextInQueue ==
  /\ ~unsentFragments
  /\ queue # <<>>
  /\ EncodeAndTransmit(Head(queue))
  /\ queue' = Tail(queue)
  /\ UNCHANGED <<zombie, recvVars, made>>

\* Mutant: the queue is kept.
MutSV_DropClient ==
  /\ ~zombie
  /\ zombie' = TRUE
  /\ UNCHANGED <<sendVars, queue, net, recvVars, made, wire>>

\* SV_DropClient for any other reason: the queue goes, a message whose
\* fragments are under way is still completed.
SV_DropClient ==
  /\ ~zombie
  /\ zombie' = TRUE
  /\ queue' = <<>>
  /\ UNCHANGED <<sendVars, net, recvVars, made, wire>>

----------------------------------------------------------------------------
(* Receiving: Netchan_Process, then CL_Netchan_Decode with the sequence    *)
(* number of the message.  Packets that are not newer than                 *)
(* incomingSequence are discarded, which changes nothing.                  *)

Accept(seq, body) ==
  /\ incomingSequence' = seq
  /\ delivered' = Append(delivered, Decoded(body, seq))

\* Mutant: an old packet is only discarded when it repeats the newest one.
MutProcessWhole(p) ==
  /\ p.seq # incomingSequence
  /\ ~p.fragmented
  /\ Accept(p.seq, p.data)
  /\ UNCHANGED <<fragmentSequence, fragmentBuffer>>

ProcessWhole(p) ==
  /\ p.seq > incomingSequence
  /\ ~p.fragmented
  /\ Accept(p.seq, p.data)
  /\ UNCHANGED <<fragmentSequence, fragmentBuffer>>

\* What is already there of the message p belongs to.
Assembled(p) == IF p.seq = fragmentSequence THEN fragmentBuffer ELSE <<>>

Continues(p) == /\ p.start = Len(Assembled(p))
                /\ p.start + Len(p.data) <= MAX_MSGLEN

\* A fragment that does not continue what is there is thrown away, but the
\* buffer has already been turned over to its message.
ProcessStrayFragment(p) ==
  /\ p.seq > incomingSequence
  /\ p.fragmented
  /\ ~Continues(p)
  /\ fragmentSequence' = p.seq
  /\ fragmentBuffer' = Assembled(p)
  /\ UNCHANGED <<incomingSequence, delivered>>

ProcessFragment(p) ==
  /\ p.seq > incomingSequence
  /\ p.fragmented
  /\ Continues(p)
  /\ fragmentSequence' = p.seq
  /\ IF Len(p.data) = FRAGMENT_SIZE
     THEN /\ fragmentBuffer' = Assembled(p) \o p.data
          /\ UNCHANGED <<incomingSequence, delivered>>
     ELSE /\ fragmentBuffer' = <<>>
          /\ Accept(p.seq, Assembled(p) \o p.data)

Netchan_Process(p) ==
  /\ \/ ProcessWhole(p)
     \/ ProcessStrayFragment(p)
     \/ ProcessFragment(p)
  /\ UNCHANGED <<sendVars, queue, zombie, net, made, wire>>

Next == \/ \E len \in 1 .. MAX_MSGLEN : MakeMessage(len)
        \/ NextFragment
        \/ NextInQueue
        \/ SV_DropClient
        \/ \E p \in net : Netchan_Process(p)

Spec == Init /\ [][Next]_vars

\* SV_SendQueuedMessages calls SV_Netchan_TransmitNextFragment for every
\* client that is due, in every frame; nothing is assumed of the network.
FairSpec == Spec /\ WF_vars(NextFragment) /\ WF_vars(NextInQueue)

----------------------------------------------------------------------------
(* Properties.                                                             *)

\* Types of the variables.
TypeOK ==
  /\ outgoingSequence \in Nat \ {0}
  /\ unsentFragments \in BOOLEAN
  /\ unsentFragmentStart \in Nat
  /\ unsentBuffer \in Seq(Byte)
  /\ queue \in Seq(Message)
  /\ zombie \in BOOLEAN
  /\ net \subseteq Packet
  /\ incomingSequence \in Nat
  /\ fragmentSequence \in Nat
  /\ fragmentBuffer \in Seq(Byte)
  /\ made \in 0 .. MaxMessages
  /\ wire \in Seq(Message)
  /\ delivered \in Seq(Seq(Byte))

\* The messages the client is given are, in the order it is given them and
\* each at most once, messages the server put on the wire, in clear text and
\* whole.  The abstract channel says so; its state is read off this one's:
\* message number i on the wire has sequence number i.
Channel == INSTANCE MessageChannel WITH
             Content   <- {Clear(m) : m \in Message},
             waiting   <- ClearAll(queue),
             sent      <- ClearAll(wire),
             last      <- incomingSequence,
             delivered <- delivered
Implements == Channel!Spec

\* b is the part of message m behind its first start bytes, under key.
Part(m, key, start, b) ==
  /\ start + Len(b) <= m.len
  /\ \A i \in 1 .. Len(b) : b[i] = [id |-> m.id, pos |-> start + i, key |-> key]

\* No two packets of a sequence number contradict each other: they carry the
\* same message, encoded with the key of that sequence number, from the place
\* they say, and only the end of the message in a fragment that is not full.
\* A message sent while fragments are under way would break this.
PacketsAgree ==
  \A p \in net :
    /\ p.seq \in 1 .. Len(wire)
    /\ Part(wire[p.seq], p.seq, p.start, p.data)
    /\ p.fragmented <=> wire[p.seq].len >= FRAGMENT_SIZE
    /\ \/ p.fragmented /\ Len(p.data) = FRAGMENT_SIZE
       \/ p.start + Len(p.data) = wire[p.seq].len
    /\ p.fragmented \/ p.start = 0

\* What the client has put together so far of a fragmented message is the
\* beginning of one message, never pieces of two.
BufferIsPrefix ==
  Len(fragmentBuffer) > 0 =>
    /\ fragmentSequence \in 1 .. Len(wire)
    /\ Part(wire[fragmentSequence], fragmentSequence, 0, fragmentBuffer)

\* The sequence number belongs to the newest message on the wire until its
\* last fragment has gone, and what is left to send is that message, encoded
\* with that number.
SenderInOrder ==
  /\ Len(wire) = IF unsentFragments THEN outgoingSequence ELSE outgoingSequence - 1
  /\ incomingSequence <= Len(wire)
  /\ unsentFragments =>
       /\ unsentBuffer = Encoded(wire[outgoingSequence], outgoingSequence)
       /\ wire[outgoingSequence].len >= FRAGMENT_SIZE
       /\ unsentFragmentStart \in 0 .. Len(unsentBuffer)

\* Sender, packets and receiver tell one story of a fragmented message: were a
\* message sent while another's fragments are under way, or the buffer kept
\* over from one to the next, one of the three would differ.
FragmentsExact == PacketsAgree /\ BufferIsPrefix /\ SenderInOrder

\* The queue of a client that is served takes one entry more than the cap, not
\* the "32 entries" of the comment at MAX_NETCHAN_QUEUE.  A dropped client never
\* has anything queued: only the message under way is completed, and the
\* snapshots that tell it why it was dropped follow at once.
QueueBounded == Len(queue) <= IF zombie THEN 0 ELSE MAX_NETCHAN_QUEUE + 1

\* Whatever the queue holds and the length of the message under way, sending
\* comes to an end: in particular the empty fragment that closes a message of
\* exactly n fragments is sent once.
Drains == []<>(~Busy)
=============================================================================
