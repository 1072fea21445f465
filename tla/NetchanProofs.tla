--------------------------- MODULE NetchanProofs ---------------------------
(***************************************************************************)
(* Proofs about Netchan for every fragment size, message length, queue cap *)
(* and number of messages.                                                 *)
(***************************************************************************)
EXTENDS Netchan, SequenceTheorems, TLAPS

----------------------------------------------------------------------------
(* Facts about byte arrays.                                                *)

\* An encoded message is a byte array of the length of the message.
LEMMA EncodedType ==
  ASSUME NEW m \in Message, NEW key \in Nat
  PROVE  /\ Encoded(m, key) \in Seq(Byte)
         /\ Len(Encoded(m, key)) = m.len
         /\ m.len \in Nat \ {0}
         /\ \A i \in 1 .. m.len :
              Encoded(m, key)[i] = [id |-> m.id, pos |-> i, key |-> key]
<1>1. m.len \in Nat \ {0} /\ m.id \in 1 .. MaxMessages
  BY NetchanAssumption DEF Message
<1>2. \A i \in 1 .. m.len : [id |-> m.id, pos |-> i, key |-> key] \in Byte
  BY <1>1 DEF Byte
<1> QED BY <1>1, <1>2 DEF Encoded

\* The next fragment of an encoded message is the part of it that follows,
\* and one that is not full is the end of it.
LEMMA FragmentIsPart ==
  ASSUME NEW m \in Message, NEW key \in Nat, NEW start \in 0 .. m.len
  PROVE  LET b == Encoded(m, key)
             n == FragmentLength(b, start)
         IN  /\ n \in Nat
             /\ start + n \in 0 .. m.len
             /\ Fragment(b, start) \in Seq(Byte)
             /\ Len(Fragment(b, start)) = n
             /\ Part(m, key, start, Fragment(b, start))
             /\ n = FRAGMENT_SIZE \/ start + n = m.len
<1> DEFINE b == Encoded(m, key)
           n == FragmentLength(b, start)
<1>1. b \in Seq(Byte) /\ Len(b) = m.len /\ m.len \in Nat
  BY EncodedType
<1>2. /\ n \in Nat
      /\ start + n \in 0 .. m.len
      /\ n = FRAGMENT_SIZE \/ start + n = m.len
  BY <1>1, NetchanAssumption DEF FragmentLength
<1> HIDE DEF b, n
<1>4. /\ SubSeq(b, start + 1, start + n) \in Seq(Byte)
      /\ Len(SubSeq(b, start + 1, start + n)) = n
      /\ \A i \in 1 .. n : SubSeq(b, start + 1, start + n)[i] = b[start + i]
  BY <1>1, <1>2
<1>5. Fragment(b, start) = SubSeq(b, start + 1, start + n)
  BY DEF Fragment, n
<1>6. \A i \in 1 .. n : b[start + i] = [id |-> m.id, pos |-> start + i, key |-> key]
  BY <1>1, <1>2, EncodedType DEF b
<1>7. Part(m, key, start, Fragment(b, start))
  <2>1. start + Len(Fragment(b, start)) <= m.len
    BY <1>2, <1>4, <1>5, <1>1
  <2>2. \A i \in 1 .. Len(Fragment(b, start)) :
          Fragment(b, start)[i] = [id |-> m.id, pos |-> start + i, key |-> key]
    BY <1>4, <1>5, <1>6
  <2> QED BY <2>1, <2>2 DEF Part
<1> QED BY <1>2, <1>4, <1>5, <1>7 DEF b, n

\* The beginning of a message and the part that follows make a longer beginning.
LEMMA JoinedIsPart ==
  ASSUME NEW m \in Message, NEW key \in Nat,
         NEW b \in Seq(Byte), NEW c \in Seq(Byte),
         Part(m, key, 0, b), Part(m, key, Len(b), c)
  PROVE  /\ b \o c \in Seq(Byte)
         /\ Len(b \o c) = Len(b) + Len(c)
         /\ Part(m, key, 0, b \o c)
<1>1. /\ b \o c \in Seq(Byte)
      /\ Len(b \o c) = Len(b) + Len(c)
      /\ \A i \in 1 .. Len(b) + Len(c) :
           (b \o c)[i] = IF i <= Len(b) THEN b[i] ELSE c[i - Len(b)]
  BY ConcatProperties
<1>2. Len(b) \in Nat /\ Len(c) \in Nat /\ m.len \in Nat
  BY LenProperties, EncodedType
<1>3. ASSUME NEW i \in 1 .. Len(b \o c)
      PROVE  (b \o c)[i] = [id |-> m.id, pos |-> 0 + i, key |-> key]
  <2>1. CASE i <= Len(b)
    BY <1>1, <1>2, <2>1 DEF Part
  <2>2. CASE i > Len(b)
    <3>1. i - Len(b) \in 1 .. Len(c) /\ Len(b) + (i - Len(b)) = i
      BY <1>1, <1>2, <2>2
    <3> QED BY <1>1, <1>2, <2>2, <3>1 DEF Part
  <2> QED BY <1>1, <1>2, <2>1, <2>2
<1> QED BY <1>1, <1>2, <1>3 DEF Part

\* All of an encoded message, decoded with the key it was encoded with, is
\* the message.
LEMMA DecodedIsClear ==
  ASSUME NEW m \in Message, NEW key \in Nat, NEW b \in Seq(Byte),
         Part(m, key, 0, b), Len(b) = m.len
  PROVE  Decoded(b, key) = Clear(m)
<1>1. m.len \in Nat BY EncodedType
<1>2. \A i \in 1 .. Len(b) :
        b[i].id = m.id /\ b[i].pos = i /\ b[i].key - key = 0
  <2>1. \A i \in 1 .. Len(b) : b[i] = [id |-> m.id, pos |-> 0 + i, key |-> key]
    BY DEF Part
  <2>2. ASSUME NEW i \in 1 .. Len(b)
        PROVE  b[i].id = m.id /\ b[i].pos = 0 + i /\ b[i].key = key
    <3>1. b[i] = [id |-> m.id, pos |-> 0 + i, key |-> key] BY <2>1
    <3> QED BY <3>1
  <2> QED BY <1>1, <2>2
<1>3. \A i \in 1 .. m.len :
        [id |-> b[i].id, pos |-> b[i].pos, key |-> b[i].key - key] =
        [id |-> m.id, pos |-> i, key |-> 0]
  BY <1>2
<1> QED BY <1>1, <1>3 DEF Decoded, Clear, Encoded

\* A message in clear text is a byte array.
LEMMA ClearType == \A m \in Message : Clear(m) \in Seq(Byte)
BY EncodedType DEF Clear

----------------------------------------------------------------------------
(* The inductive invariant: the packets on the network are parts of the    *)
(* messages their sequence numbers belong to, the sender is at the newest  *)
(* of these, and the receiver holds the beginning of one of them.          *)

IInv == TypeOK /\ SenderInOrder /\ PacketsAgree /\ BufferIsPrefix

\* The receiver's part of TypeOK and of what it has put together.
RecvTypeOK == /\ incomingSequence \in Nat
              /\ fragmentSequence \in Nat
              /\ fragmentBuffer \in Seq(Byte)
              /\ delivered \in Seq(Seq(Byte))

\* Putting a message on the wire when nothing is under way keeps the parts of
\* the invariant that it touches.
LEMMA TransmitKeepsInv ==
  ASSUME IInv, NEW m \in Message, ~unsentFragments,
         EncodeAndTransmit(m), UNCHANGED recvVars
  PROVE  /\ (SenderInOrder /\ PacketsAgree /\ BufferIsPrefix)'
         /\ outgoingSequence' \in Nat \ {0}
         /\ unsentFragments' \in BOOLEAN
         /\ unsentFragmentStart' \in Nat
         /\ unsentBuffer' \in Seq(Byte)
         /\ net' \subseteq Packet
         /\ wire' \in Seq(Message)
<1> DEFINE s == outgoingSequence
           b == Encoded(m, s)
<1>1. /\ s \in Nat \ {0}
      /\ wire \in Seq(Message)
      /\ Len(wire) = s - 1
      /\ net \subseteq Packet
      /\ incomingSequence <= Len(wire)
      /\ unsentFragmentStart \in Nat
      /\ unsentBuffer \in Seq(Byte)
      /\ unsentFragments \in BOOLEAN
  BY DEF IInv, TypeOK, SenderInOrder
<1>2. /\ b \in Seq(Byte)
      /\ Len(b) = m.len
      /\ m.len \in Nat \ {0}
  BY <1>1, EncodedType
<1>3. /\ wire' = Append(wire, m)
      /\ Netchan_Transmit(b)
  BY DEF EncodeAndTransmit
<1>4. /\ wire' \in Seq(Message)
      /\ Len(wire') = s
      /\ wire'[s] = m
      /\ \A i \in 1 .. Len(wire) : wire'[i] = wire[i]
  BY <1>1, <1>3, AppendProperties
<1>5. BufferIsPrefix'
  <2>1. UNCHANGED <<fragmentBuffer, fragmentSequence>> BY DEF recvVars
  <2> QED BY <1>1, <1>4, <2>1 DEF IInv, BufferIsPrefix
<1>6. incomingSequence' <= Len(wire')
  <2>1. incomingSequence' = incomingSequence /\ incomingSequence \in Nat
    BY DEF recvVars, IInv, TypeOK
  <2> QED BY <1>1, <1>4, <2>1
\* Packets that were already on the network stay right.
<1>7. ASSUME NEW p \in net
      PROVE  /\ p.seq \in 1 .. Len(wire')
             /\ Part(wire'[p.seq], p.seq, p.start, p.data)
             /\ p.fragmented <=> wire'[p.seq].len >= FRAGMENT_SIZE
             /\ \/ p.fragmented /\ Len(p.data) = FRAGMENT_SIZE
                \/ p.start + Len(p.data) = wire'[p.seq].len
             /\ p.fragmented \/ p.start = 0
  BY <1>1, <1>4 DEF IInv, PacketsAgree
<1>8. CASE m.len >= FRAGMENT_SIZE
  <2> DEFINE n == FragmentLength(b, 0)
             f == Fragment(b, 0)
             q == [seq |-> s, fragmented |-> TRUE, start |-> 0, data |-> f]
  <2>1. /\ n \in Nat
        /\ 0 + n \in 0 .. m.len
        /\ f \in Seq(Byte)
        /\ Len(f) = n
        /\ Part(m, s, 0, f)
        /\ n = FRAGMENT_SIZE \/ 0 + n = m.len
    <3>1. 0 \in 0 .. m.len BY <1>2
    <3> QED BY <1>1, <3>1, FragmentIsPart
  <2>2. n = FRAGMENT_SIZE
    BY <1>2, <1>8, NetchanAssumption DEF FragmentLength
  <2>3. /\ unsentBuffer' = b
        /\ net' = net \cup {q}
        /\ unsentFragmentStart' = 0 + n
        /\ unsentFragments' = TRUE
        /\ outgoingSequence' = s
    BY <1>2, <1>3, <1>8, <2>2 DEF Netchan_Transmit, SendFragment
  <2>4. q \in Packet
    BY <1>1, <2>1 DEF Packet
  <2>5. PacketsAgree'
    <3>1. ASSUME NEW p \in net', p \notin net
          PROVE  p = q
      BY <2>3, <3>1
    <3>2. /\ q.seq \in 1 .. Len(wire')
          /\ Part(wire'[q.seq], q.seq, q.start, q.data)
          /\ q.fragmented <=> wire'[q.seq].len >= FRAGMENT_SIZE
          /\ q.fragmented /\ Len(q.data) = FRAGMENT_SIZE
      <4>1. s \in 1 .. Len(wire') /\ wire'[s] = m BY <1>1, <1>4
      <4>2. Len(f) = FRAGMENT_SIZE BY <2>1, <2>2
      <4>3. q.seq = s /\ q.fragmented = TRUE /\ q.start = 0 /\ q.data = f OBVIOUS
      <4> HIDE DEF q, f, s, n, b
      <4> QED BY <4>1, <4>2, <4>3, <1>8, <2>1
    <3> HIDE DEF q
    <3> QED BY <1>7, <3>1, <3>2 DEF PacketsAgree
  <2>6. SenderInOrder'
    BY <1>1, <1>2, <1>4, <1>6, <1>8, <2>1, <2>3 DEF SenderInOrder
  <2>7. /\ net' \subseteq Packet
        /\ unsentFragmentStart' \in Nat
        /\ unsentBuffer' \in Seq(Byte)
    <3> HIDE DEF q, n, b
    <3> QED BY <1>1, <1>2, <2>1, <2>3, <2>4
  <2>8. unsentFragments' \in BOOLEAN BY <2>3
  <2>9. outgoingSequence' \in Nat \ {0} BY <1>1, <2>3
  <2> QED BY <1>4, <1>5, <2>5, <2>6, <2>7, <2>8, <2>9
<1>9. CASE m.len < FRAGMENT_SIZE
  <2> DEFINE q == [seq |-> s, fragmented |-> FALSE, start |-> 0, data |-> b]
  <2>1. /\ ~(Len(b) >= FRAGMENT_SIZE)
        /\ FRAGMENT_SIZE \in Nat
    BY <1>2, <1>9, NetchanAssumption
  <2>2. /\ net' = net \cup {q}
        /\ unsentFragmentStart' = 0
        /\ outgoingSequence' = s + 1
        /\ UNCHANGED <<unsentFragments, unsentBuffer>>
    BY <1>3, <2>1 DEF Netchan_Transmit
  <2>3. q \in Packet
    BY <1>1, <1>2 DEF Packet
  <2>4. Part(m, s, 0, b)
    <3>1. \A i \in 1 .. m.len : b[i] = [id |-> m.id, pos |-> i, key |-> s]
      BY <1>1, EncodedType
    <3> HIDE DEF b, s
    <3>2. \A i \in 1 .. m.len : 0 + i = i BY <1>2
    <3> QED BY <1>2, <3>1, <3>2 DEF Part
  <2>5. PacketsAgree'
    <3>1. ASSUME NEW p \in net', p \notin net
          PROVE  p = q
      BY <2>2, <3>1
    <3>2. /\ q.seq \in 1 .. Len(wire')
          /\ Part(wire'[q.seq], q.seq, q.start, q.data)
          /\ q.fragmented <=> wire'[q.seq].len >= FRAGMENT_SIZE
          /\ q.start + Len(q.data) = wire'[q.seq].len
          /\ q.start = 0
      <4>1. s \in 1 .. Len(wire') /\ wire'[s] = m BY <1>1, <1>4
      <4>2. 0 + Len(b) = m.len /\ ~(m.len >= FRAGMENT_SIZE) BY <1>2, <2>1
      <4>3. q.seq = s /\ q.fragmented = FALSE /\ q.start = 0 /\ q.data = b OBVIOUS
      <4> HIDE DEF q, s, b
      <4> QED BY <4>1, <4>2, <4>3, <2>4
    <3> HIDE DEF q
    <3> QED BY <1>7, <3>1, <3>2 DEF PacketsAgree
  <2>6. SenderInOrder'
    BY <1>1, <1>4, <1>6, <2>2 DEF SenderInOrder
  <2>7. /\ net' \subseteq Packet
        /\ unsentFragmentStart' \in Nat
        /\ unsentBuffer' \in Seq(Byte)
    <3> HIDE DEF q, b
    <3> QED BY <1>1, <1>2, <2>2, <2>3
  <2>8. unsentFragments' \in BOOLEAN BY <1>1, <2>2
  <2>9. outgoingSequence' \in Nat \ {0} BY <1>1, <2>2
  <2> QED BY <1>4, <1>5, <2>5, <2>6, <2>7, <2>8, <2>9
<1> QED BY <1>2, <1>8, <1>9, NetchanAssumption

\* Sending the next fragment of the message under way keeps them too.
LEMMA FragmentKeepsInv ==
  ASSUME IInv, NextFragment
  PROVE  /\ (SenderInOrder /\ PacketsAgree)'
         /\ outgoingSequence' \in Nat \ {0}
         /\ unsentFragments' \in BOOLEAN
         /\ unsentFragmentStart' \in Nat
         /\ net' \subseteq Packet
<1> DEFINE s == outgoingSequence
           m == wire[s]
           b == unsentBuffer
           x == unsentFragmentStart
           n == FragmentLength(b, x)
           f == Fragment(b, x)
           q == [seq |-> s, fragmented |-> TRUE, start |-> x, data |-> f]
<1>1. /\ s \in Nat \ {0}
      /\ wire \in Seq(Message)
      /\ Len(wire) = s
      /\ m \in Message
      /\ m.len >= FRAGMENT_SIZE
      /\ net \subseteq Packet
      /\ incomingSequence <= Len(wire)
      /\ b = Encoded(m, s)
      /\ x \in 0 .. Len(b)
  <2>1. /\ s \in Nat \ {0}
        /\ wire \in Seq(Message)
        /\ Len(wire) = s
        /\ m.len >= FRAGMENT_SIZE
        /\ net \subseteq Packet
        /\ incomingSequence <= Len(wire)
        /\ b = Encoded(m, s)
        /\ x \in 0 .. Len(b)
    BY DEF IInv, TypeOK, SenderInOrder, NextFragment
  <2>2. m \in Message BY <2>1, ElementOfSeq
  <2> QED BY <2>1, <2>2
<1>2. /\ Len(b) = m.len
      /\ m.len \in Nat \ {0}
  BY <1>1, EncodedType
<1>3. /\ net' = net \cup {q}
      /\ x' = x + n
      /\ unsentFragments' = ~(x + n = Len(b) /\ n # FRAGMENT_SIZE)
      /\ s' = IF x + n = Len(b) /\ n # FRAGMENT_SIZE THEN s + 1 ELSE s
      /\ UNCHANGED <<b, wire, incomingSequence>>
  BY DEF NextFragment, SendFragment, recvVars
<1>4. /\ n \in Nat
      /\ x + n \in 0 .. m.len
      /\ f \in Seq(Byte)
      /\ Len(f) = n
      /\ Part(m, s, x, f)
      /\ n = FRAGMENT_SIZE \/ x + n = m.len
  <2> HIDE DEF m, s, x
  <2> QED BY <1>1, <1>2, FragmentIsPart
<1>5. q \in Packet
  BY <1>1, <1>2, <1>4 DEF Packet
<1>6. PacketsAgree'
  <2>1. ASSUME NEW p \in net', p \notin net
        PROVE  p = q
    BY <1>3, <2>1
  <2>2. /\ q.seq \in 1 .. Len(wire)
        /\ Part(wire[q.seq], q.seq, q.start, q.data)
        /\ q.fragmented <=> wire[q.seq].len >= FRAGMENT_SIZE
        /\ \/ q.fragmented /\ Len(q.data) = FRAGMENT_SIZE
           \/ q.start + Len(q.data) = wire[q.seq].len
        /\ q.fragmented
    <3>1. q.seq = s /\ q.fragmented = TRUE /\ q.start = x /\ q.data = f OBVIOUS
    <3>2. s \in 1 .. Len(wire) BY <1>1
    <3> HIDE DEF q, f, n
    <3> QED BY <1>1, <1>4, <3>1, <3>2
  <2>3. PacketsAgree BY DEF IInv
  <2>4. wire' = wire BY <1>3
  <2> HIDE DEF q
  <2> QED BY <2>1, <2>2, <2>3, <2>4 DEF PacketsAgree
<1>7. SenderInOrder'
  <2> HIDE DEF q, f, n
  <2>1. CASE x + n = Len(b) /\ n # FRAGMENT_SIZE
    <3>1. s' = s + 1 /\ unsentFragments' = FALSE /\ wire' = wire
          /\ incomingSequence' = incomingSequence
      BY <1>3, <2>1
    <3> QED BY <1>1, <3>1 DEF SenderInOrder
  <2>2. CASE ~(x + n = Len(b) /\ n # FRAGMENT_SIZE)
    BY <1>1, <1>2, <1>3, <1>4, <2>2 DEF SenderInOrder
  <2> QED BY <2>1, <2>2
<1>8. s' \in Nat \ {0} /\ unsentFragments' \in BOOLEAN
  BY <1>1, <1>3
<1>9. x' \in Nat BY <1>2, <1>3, <1>4
<1>10. net' \subseteq Packet
  <2> HIDE DEF q
  <2> QED BY <1>1, <1>3, <1>5
<1> QED BY <1>6, <1>7, <1>8, <1>9, <1>10

\* What the receiver has of the message of packet p is a beginning of it.
LEMMA AssembledIsPart ==
  ASSUME IInv, NEW p \in net
  PROVE  /\ wire[p.seq] \in Message
         /\ p.seq \in Nat
         /\ p.data \in Seq(Byte)
         /\ Assembled(p) \in Seq(Byte)
         /\ Part(wire[p.seq], p.seq, 0, Assembled(p))
<1>1. /\ wire \in Seq(Message)
      /\ p.seq \in 1 .. Len(wire)
      /\ p \in Packet
      /\ fragmentBuffer \in Seq(Byte)
      /\ fragmentSequence \in Nat
  BY DEF IInv, TypeOK, PacketsAgree
<1>2. wire[p.seq] \in Message BY <1>1, ElementOfSeq
<1>3. p.seq \in Nat /\ p.data \in Seq(Byte) BY <1>1 DEF Packet
<1>4. Assembled(p) \in Seq(Byte)
  BY <1>1 DEF Assembled
<1>5. wire[p.seq].len \in Nat BY <1>2, EncodedType
<1>6. Part(wire[p.seq], p.seq, 0, Assembled(p))
  <2>1. CASE p.seq = fragmentSequence /\ Len(fragmentBuffer) > 0
    <3>1. BufferIsPrefix BY DEF IInv
    <3> QED BY <2>1, <3>1 DEF Assembled, BufferIsPrefix
  <2>2. CASE ~(p.seq = fragmentSequence /\ Len(fragmentBuffer) > 0)
    <3>1. Len(Assembled(p)) = 0 BY <1>1, <2>2, EmptySeq DEF Assembled
    <3> QED BY <1>5, <3>1 DEF Part
  <2> QED BY <2>1, <2>2
<1> QED BY <1>2, <1>3, <1>4, <1>6

\* A packet leaves the receiver with the beginning of one message; if it
\* completes a message, that is the one of its sequence number, in clear text.
LEMMA ProcessKeepsInv ==
  ASSUME IInv, NEW p \in net, Netchan_Process(p)
  PROVE  /\ RecvTypeOK'
         /\ BufferIsPrefix'
         /\ \/ UNCHANGED <<incomingSequence, delivered>>
            \/ /\ p.seq \in 1 .. Len(wire)
               /\ p.seq > incomingSequence
               /\ incomingSequence' = p.seq
               /\ Clear(wire[p.seq]) \in Seq(Byte)
               /\ delivered' = Append(delivered, Clear(wire[p.seq]))
<1> DEFINE m == wire[p.seq]
           have == Assembled(p)
           whole == have \o p.data
<1>1. /\ RecvTypeOK
      /\ p.seq \in 1 .. Len(wire)
      /\ Len(wire) \in Nat
      /\ Part(m, p.seq, p.start, p.data)
      /\ p.fragmented <=> m.len >= FRAGMENT_SIZE
      /\ \/ p.fragmented /\ Len(p.data) = FRAGMENT_SIZE
         \/ p.start + Len(p.data) = m.len
      /\ p.fragmented \/ p.start = 0
  BY DEF IInv, TypeOK, RecvTypeOK, PacketsAgree
<1>2. /\ m \in Message
      /\ p.seq \in Nat
      /\ p.data \in Seq(Byte)
      /\ have \in Seq(Byte)
      /\ Part(m, p.seq, 0, have)
  BY AssembledIsPart
<1>3. p.start \in Nat /\ wire' = wire
  BY DEF IInv, TypeOK, Packet, Netchan_Process
<1>4. Clear(m) \in Seq(Byte) BY <1>2, ClearType
<1>5. ASSUME NEW c \in Seq(Byte), Part(m, p.seq, 0, c), Len(c) = m.len,
             Accept(p.seq, c)
      PROVE  /\ incomingSequence' = p.seq
             /\ delivered' = Append(delivered, Clear(m))
  BY <1>2, <1>5, DecodedIsClear DEF Accept
<1>6. ASSUME incomingSequence' = p.seq, delivered' = Append(delivered, Clear(m))
      PROVE  incomingSequence' \in Nat /\ delivered' \in Seq(Seq(Byte))
  BY <1>1, <1>2, <1>4, <1>6, AppendProperties DEF RecvTypeOK
<1>7. CASE ProcessWhole(p)
  <2>1. /\ Accept(p.seq, p.data)
        /\ p.seq > incomingSequence
        /\ UNCHANGED <<fragmentSequence, fragmentBuffer>>
        /\ p.start + Len(p.data) = m.len
    BY <1>1, <1>7 DEF ProcessWhole
  <2>2. p.start = 0
    BY <1>1, <1>7 DEF ProcessWhole
  <2>3. /\ incomingSequence' = p.seq
        /\ delivered' = Append(delivered, Clear(m))
    BY <1>1, <1>2, <1>5, <2>1, <2>2
  <2>4. BufferIsPrefix'
    BY <2>1, <1>3 DEF IInv, BufferIsPrefix
  <2> QED BY <1>1, <1>4, <1>6, <2>1, <2>3, <2>4 DEF RecvTypeOK
<1>8. CASE ProcessStrayFragment(p)
  <2>1. /\ fragmentSequence' = p.seq
        /\ fragmentBuffer' = have
        /\ UNCHANGED <<incomingSequence, delivered>>
    BY <1>8 DEF ProcessStrayFragment
  <2>2. BufferIsPrefix'
    BY <1>1, <1>2, <1>3, <2>1 DEF BufferIsPrefix
  <2> QED BY <1>1, <1>2, <2>1, <2>2 DEF RecvTypeOK
<1>9. CASE ProcessFragment(p)
  <2>1. /\ p.start = Len(have)
        /\ p.seq > incomingSequence
        /\ fragmentSequence' = p.seq
        /\ IF Len(p.data) = FRAGMENT_SIZE
           THEN fragmentBuffer' = whole /\ UNCHANGED <<incomingSequence, delivered>>
           ELSE fragmentBuffer' = <<>> /\ Accept(p.seq, whole)
    BY <1>9 DEF ProcessFragment, Continues
  <2>2. /\ whole \in Seq(Byte)
        /\ Len(whole) = Len(have) + Len(p.data)
        /\ Part(m, p.seq, 0, whole)
    <3>1. Part(m, p.seq, Len(have), p.data) BY <1>1, <2>1
    <3> HIDE DEF have, m
    <3> QED BY <1>2, <3>1, JoinedIsPart
  <2>3. CASE Len(p.data) = FRAGMENT_SIZE
    <3>1. /\ fragmentBuffer' = whole
          /\ UNCHANGED <<incomingSequence, delivered>>
      BY <2>1, <2>3
    <3>2. BufferIsPrefix'
      BY <1>1, <1>3, <2>1, <2>2, <3>1 DEF BufferIsPrefix
    <3> QED BY <1>1, <1>2, <2>1, <2>2, <3>1, <3>2 DEF RecvTypeOK
  <2>4. CASE Len(p.data) # FRAGMENT_SIZE
    <3>1. fragmentBuffer' = <<>> /\ Accept(p.seq, whole)
      BY <2>1, <2>4
    <3>2. Len(whole) = m.len
      BY <1>1, <2>1, <2>2, <2>4
    <3>3. /\ incomingSequence' = p.seq
          /\ delivered' = Append(delivered, Clear(m))
      <4> HIDE DEF whole
      <4> QED BY <1>5, <2>2, <3>1, <3>2
    <3>4. BufferIsPrefix'
      BY <3>1, EmptySeq DEF BufferIsPrefix
    <3>5. fragmentBuffer' \in Seq(Byte)
      BY <3>1, EmptySeq
    <3> QED BY <1>1, <1>2, <1>4, <1>6, <2>1, <3>3, <3>4, <3>5 DEF RecvTypeOK
  <2> QED BY <2>3, <2>4
<1> QED BY <1>7, <1>8, <1>9 DEF Netchan_Process

----------------------------------------------------------------------------
(* The theorems.                                                           *)

\* The inductive invariant holds at first.
LEMMA InitIInv == Init => IInv
<1> SUFFICES ASSUME Init PROVE IInv OBVIOUS
<1>1. TypeOK
  <2>1. /\ unsentBuffer \in Seq(Byte)
        /\ queue \in Seq(Message)
        /\ fragmentBuffer \in Seq(Byte)
        /\ wire \in Seq(Message)
        /\ delivered \in Seq(Seq(Byte))
    BY EmptySeq, Zenon DEF Init
  <2>2. /\ made \in 0 .. MaxMessages
        /\ outgoingSequence \in Nat \ {0}
        /\ unsentFragmentStart \in Nat
        /\ incomingSequence \in Nat
        /\ fragmentSequence \in Nat
    BY NetchanAssumption DEF Init
  <2>3. unsentFragments \in BOOLEAN /\ zombie \in BOOLEAN /\ net \subseteq Packet
    BY DEF Init
  <2> QED BY <2>1, <2>2, <2>3 DEF TypeOK
<1>2. SenderInOrder BY DEF Init, SenderInOrder
<1>3. PacketsAgree BY DEF Init, PacketsAgree
<1>4. BufferIsPrefix BY DEF Init, BufferIsPrefix
<1> QED BY <1>1, <1>2, <1>3, <1>4 DEF IInv

\* Every step keeps it.
LEMMA NextIInv == IInv /\ [Next]_vars => IInv'
<1> SUFFICES ASSUME IInv, [Next]_vars PROVE IInv' OBVIOUS
<1> USE DEF IInv
<1>1. ASSUME NEW len \in 1 .. MAX_MSGLEN, MakeMessage(len)
      PROVE  IInv'
  <2> DEFINE m == [id |-> made + 1, len |-> len]
  <2>1. /\ made' = made + 1
        /\ made' \in 0 .. MaxMessages
        /\ m \in Message
        /\ SV_Netchan_Transmit(m)
        /\ UNCHANGED recvVars
    BY <1>1, NetchanAssumption DEF MakeMessage, TypeOK, Message
  <2>2. RecvTypeOK' BY <2>1 DEF TypeOK, RecvTypeOK, recvVars
  <2> HIDE DEF m
  <2>3. CASE ~Busy
    <3>1. EncodeAndTransmit(m) /\ UNCHANGED <<queue, zombie>>
      BY <2>1, <2>3 DEF SV_Netchan_Transmit
    <3>2. ~unsentFragments BY <2>3 DEF Busy
    <3>3. /\ (SenderInOrder /\ PacketsAgree /\ BufferIsPrefix)'
          /\ outgoingSequence' \in Nat \ {0}
          /\ unsentFragments' \in BOOLEAN
          /\ unsentFragmentStart' \in Nat
          /\ unsentBuffer' \in Seq(Byte)
          /\ net' \subseteq Packet
          /\ wire' \in Seq(Message)
      BY <2>1, <3>1, <3>2, TransmitKeepsInv
    <3>4. queue' \in Seq(Message) /\ zombie' \in BOOLEAN
      BY <3>1 DEF TypeOK
    <3> QED BY <2>1, <2>2, <3>3, <3>4 DEF TypeOK, RecvTypeOK
  <2>4. CASE Busy
    <3>1. /\ queue' \in Seq(Message)
          /\ zombie' \in BOOLEAN
          /\ UNCHANGED <<sendVars, net, wire>>
      <4>1. CASE Len(queue) > MAX_NETCHAN_QUEUE
        <5>1. /\ zombie' = TRUE
              /\ queue' = <<>>
              /\ UNCHANGED <<sendVars, net, wire>>
          BY <2>1, <2>4, <4>1, Zenon DEF SV_Netchan_Transmit
        <5> QED BY <5>1, EmptySeq
      <4>2. CASE ~(Len(queue) > MAX_NETCHAN_QUEUE)
        <5>1. /\ queue' = Append(queue, m)
              /\ UNCHANGED <<sendVars, net, wire, zombie>>
          BY <2>1, <2>4, <4>2, Zenon DEF SV_Netchan_Transmit
        <5> QED BY <2>1, <5>1, AppendProperties DEF TypeOK
      <4> QED BY <4>1, <4>2
    <3>2. (SenderInOrder /\ PacketsAgree /\ BufferIsPrefix)'
      BY <2>1, <3>1 DEF SenderInOrder, PacketsAgree, BufferIsPrefix, sendVars, recvVars
    <3> QED BY <2>1, <2>2, <3>1, <3>2 DEF TypeOK, RecvTypeOK, sendVars
  <2> QED BY <2>3, <2>4
<1>2. CASE NextFragment
  <2>1. /\ (SenderInOrder /\ PacketsAgree)'
        /\ outgoingSequence' \in Nat \ {0}
        /\ unsentFragments' \in BOOLEAN
        /\ unsentFragmentStart' \in Nat
        /\ net' \subseteq Packet
    BY <1>2, FragmentKeepsInv
  <2>2. UNCHANGED <<unsentBuffer, queue, zombie, recvVars, made, wire>>
    BY <1>2 DEF NextFragment
  <2>3. BufferIsPrefix' BY <2>2 DEF BufferIsPrefix, recvVars
  <2> QED BY <2>1, <2>2, <2>3 DEF TypeOK, recvVars
<1>3. CASE NextInQueue
  <2>1. /\ ~unsentFragments
        /\ queue # <<>>
        /\ EncodeAndTransmit(Head(queue))
        /\ queue' = Tail(queue)
        /\ UNCHANGED <<zombie, recvVars, made>>
    BY <1>3 DEF NextInQueue
  <2>2. Head(queue) \in Message /\ queue' \in Seq(Message)
    BY <2>1, HeadTailProperties DEF TypeOK
  <2>3. /\ (SenderInOrder /\ PacketsAgree /\ BufferIsPrefix)'
        /\ outgoingSequence' \in Nat \ {0}
        /\ unsentFragments' \in BOOLEAN
        /\ unsentFragmentStart' \in Nat
        /\ unsentBuffer' \in Seq(Byte)
        /\ net' \subseteq Packet
        /\ wire' \in Seq(Message)
    BY <2>1, <2>2, TransmitKeepsInv
  <2> QED BY <2>1, <2>2, <2>3 DEF TypeOK, recvVars
<1>4. CASE SV_DropClient
  BY <1>4, EmptySeq DEF SV_DropClient, TypeOK, SenderInOrder, PacketsAgree,
     BufferIsPrefix, sendVars, recvVars
<1>5. ASSUME NEW p \in net, Netchan_Process(p)
      PROVE  IInv'
  <2>1. /\ RecvTypeOK'
        /\ BufferIsPrefix'
        /\ \/ UNCHANGED incomingSequence
           \/ p.seq \in 1 .. Len(wire) /\ incomingSequence' = p.seq
    BY <1>5, ProcessKeepsInv
  <2>2. UNCHANGED <<sendVars, queue, zombie, net, made, wire>>
    BY <1>5 DEF Netchan_Process
  <2>3. Len(wire) \in Nat BY LenProperties DEF TypeOK
  <2>4. SenderInOrder'
    <3>1. incomingSequence' <= Len(wire)
      BY <2>1, <2>3 DEF SenderInOrder
    <3> QED BY <2>2, <3>1 DEF SenderInOrder, sendVars
  <2>5. PacketsAgree' BY <2>2 DEF PacketsAgree
  <2> QED BY <2>1, <2>2, <2>4, <2>5 DEF TypeOK, RecvTypeOK, sendVars
<1>6. CASE UNCHANGED vars
  BY <1>6 DEF vars, TypeOK, SenderInOrder, PacketsAgree, BufferIsPrefix,
     sendVars, recvVars
<1> QED BY <1>1, <1>2, <1>3, <1>4, <1>5, <1>6 DEF Next

\* The invariant, whatever the network does with the packets.
THEOREM Invariance == Spec => []IInv
BY InitIInv, NextIInv, PTL DEF Spec

\* Every variable keeps its type, whatever the network does.
THEOREM TypeCorrect == Spec => []TypeOK
<1>1. IInv => TypeOK BY DEF IInv
<1> QED BY <1>1, Invariance, PTL

\* Packets of one sequence number never contradict each other, the receiver
\* never holds pieces of two messages, and the sequence number belongs to the
\* newest message until its last fragment has gone (Netchan_TransmitNextFragment,
\* Netchan_Process and the queue of SV_Netchan_Transmit).
THEOREM FragmentsAgree == Spec => []FragmentsExact
<1>1. IInv => FragmentsExact BY DEF IInv, FragmentsExact
<1> QED BY <1>1, Invariance, PTL

\* The queue never takes more than one entry above the cap, and nothing is queued
\* for a client that was dropped: SV_Netchan_Transmit and SV_DropClient, whatever
\* is under way when a message is made.
THEOREM QueueInBounds == Spec => []QueueBounded
<1>1. Init => QueueBounded BY NetchanAssumption DEF Init, QueueBounded
<1>2. QueueBounded /\ TypeOK /\ [Next]_vars => QueueBounded'
  <2> SUFFICES ASSUME QueueBounded, TypeOK, [Next]_vars PROVE QueueBounded'
    OBVIOUS
  <2>1. ASSUME NEW len \in 1 .. MAX_MSGLEN, MakeMessage(len) PROVE QueueBounded'
    <3> DEFINE m == [id |-> made + 1, len |-> len]
    <3>1. m \in Message /\ SV_Netchan_Transmit(m) /\ (zombie => ~Busy)
      BY <2>1, NetchanAssumption DEF MakeMessage, TypeOK, Message
    <3> HIDE DEF m
    <3>2. CASE UNCHANGED <<queue, zombie>> BY <3>2 DEF QueueBounded
    <3>3. CASE zombie' = TRUE /\ queue' = <<>> BY <3>3 DEF QueueBounded
    <3>4. CASE /\ Busy /\ Len(queue) <= MAX_NETCHAN_QUEUE
               /\ queue' = Append(queue, m) /\ zombie' = zombie
      <4>1. Len(queue') = Len(queue) + 1 /\ Len(queue) \in Nat
        BY <3>1, <3>4 DEF TypeOK
      <4>2. ~zombie BY <3>1, <3>4
      <4>3. ~zombie' BY <3>4, <4>2
      <4> QED BY <3>4, <4>1, <4>3, NetchanAssumption DEF QueueBounded
    <3>5. Len(queue) \in Nat BY DEF TypeOK
    <3>6. CASE ~Busy BY <3>1, <3>2, <3>6 DEF SV_Netchan_Transmit
    <3>7. CASE Busy /\ Len(queue) > MAX_NETCHAN_QUEUE
      BY <3>1, <3>3, <3>7 DEF SV_Netchan_Transmit
    <3>8. CASE Busy /\ ~(Len(queue) > MAX_NETCHAN_QUEUE)
      <4>1. queue' = Append(queue, m) /\ zombie' = zombie
        BY <3>1, <3>8 DEF SV_Netchan_Transmit
      <4>2. Len(queue) <= MAX_NETCHAN_QUEUE BY <3>5, <3>8, NetchanAssumption
      <4> QED BY <3>4, <3>8, <4>1, <4>2
    <3> QED BY <3>6, <3>7, <3>8
  <2>2. CASE NextFragment BY <2>2 DEF NextFragment, QueueBounded
  <2>3. CASE NextInQueue
    <3>1. queue \in Seq(Message) /\ queue # <<>> /\ queue' = Tail(queue) /\ zombie' = zombie
      BY <2>3 DEF NextInQueue, TypeOK
    <3>2. Len(queue') = Len(queue) - 1 /\ Len(queue) \in Nat \ {0}
      BY <3>1, HeadTailProperties, EmptySeq
    <3> QED BY <3>1, <3>2, NetchanAssumption DEF QueueBounded
  <2>4. CASE SV_DropClient BY <2>4 DEF SV_DropClient, QueueBounded
  <2>5. ASSUME NEW p \in net, Netchan_Process(p) PROVE QueueBounded'
    BY <2>5 DEF Netchan_Process, QueueBounded
  <2>6. CASE UNCHANGED vars BY <2>6 DEF vars, QueueBounded
  <2> QED BY <2>1, <2>2, <2>3, <2>4, <2>5, <2>6 DEF Next
<1> QED BY <1>1, <1>2, TypeCorrect, PTL DEF Spec

----------------------------------------------------------------------------
(* The netchan implements the abstract channel.                            *)

\* Reading messages in clear text commutes with what is done to their queues.
LEMMA ClearAllProperties ==
  /\ ClearAll(<<>>) = <<>>
  /\ \A q \in Seq(Message), m \in Message :
       ClearAll(Append(q, m)) = Append(ClearAll(q), Clear(m))
  /\ \A q \in Seq(Message) : q # <<>> =>
       /\ ClearAll(q) # <<>>
       /\ Head(ClearAll(q)) = Clear(Head(q))
       /\ ClearAll(Tail(q)) = Tail(ClearAll(q))
  /\ \A q \in Seq(Message) :
       /\ Len(ClearAll(q)) = Len(q)
       /\ \A i \in 1 .. Len(q) : ClearAll(q)[i] = Clear(q[i])
<1> DEFINE B == Seq(Byte)
<1>1. ASSUME NEW q \in Seq(Message)
      PROVE  /\ ClearAll(q) \in Seq(B)
             /\ Len(ClearAll(q)) = Len(q)
             /\ \A i \in 1 .. Len(q) : ClearAll(q)[i] = Clear(q[i])
  <2>1. \A i \in 1 .. Len(q) : Clear(q[i]) \in B
    BY ElementOfSeq, ClearType
  <2> HIDE DEF B
  <2> QED BY <2>1, LenProperties DEF ClearAll
<1>2. ClearAll(<<>>) = <<>>
  <2>1. <<>> \in Seq(Message) /\ Len(<<>>) = 0 BY EmptySeq
  <2> QED BY <2>1, <1>1, EmptySeq
<1>3. ASSUME NEW q \in Seq(Message), NEW m \in Message
      PROVE  ClearAll(Append(q, m)) = Append(ClearAll(q), Clear(m))
  <2> DEFINE l == ClearAll(Append(q, m))
             r == Append(ClearAll(q), Clear(m))
  <2>1. /\ Append(q, m) \in Seq(Message)
        /\ Len(Append(q, m)) = Len(q) + 1
        /\ \A i \in 1 .. Len(q) : Append(q, m)[i] = q[i]
        /\ Append(q, m)[Len(q) + 1] = m
    BY AppendProperties
  <2>2. Clear(m) \in B BY ClearType
  <2> HIDE DEF B
  <2>3. /\ r \in Seq(B)
        /\ Len(r) = Len(q) + 1
        /\ \A i \in 1 .. Len(q) : r[i] = Clear(q[i])
        /\ r[Len(q) + 1] = Clear(m)
    BY <1>1, <2>2, AppendProperties
  <2>4. /\ l \in Seq(B)
        /\ Len(l) = Len(q) + 1
        /\ \A i \in 1 .. Len(q) + 1 : l[i] = Clear(Append(q, m)[i])
    BY <1>1, <2>1
  <2>5. Len(q) \in Nat BY LenProperties
  <2> HIDE DEF l, r
  <2>6. \A i \in 1 .. Len(l) : l[i] = r[i]
    BY <2>1, <2>3, <2>4, <2>5
  <2>7. l = r BY <2>3, <2>4, <2>6, SeqEqual
  <2> QED BY <2>7 DEF l, r
<1>4. ASSUME NEW q \in Seq(Message), q # <<>>
      PROVE  /\ ClearAll(q) # <<>>
             /\ Head(ClearAll(q)) = Clear(Head(q))
             /\ ClearAll(Tail(q)) = Tail(ClearAll(q))
  <2> DEFINE l == ClearAll(Tail(q))
             r == Tail(ClearAll(q))
  <2>1. /\ Tail(q) \in Seq(Message)
        /\ Len(Tail(q)) = Len(q) - 1
        /\ \A i \in 1 .. Len(Tail(q)) : Tail(q)[i] = q[i + 1]
        /\ Len(q) \in Nat \ {0}
        /\ Head(q) = q[1]
    BY <1>4, HeadTailProperties, EmptySeq
  <2> HIDE DEF B
  <2>2. ClearAll(q) # <<>>
    BY <1>1, <2>1, EmptySeq
  <2>3. /\ r \in Seq(B)
        /\ Len(r) = Len(q) - 1
        /\ \A i \in 1 .. Len(r) : r[i] = ClearAll(q)[i + 1]
    BY <1>1, <2>2, HeadTailProperties
  <2>4. /\ l \in Seq(B)
        /\ Len(l) = Len(q) - 1
        /\ \A i \in 1 .. Len(l) : l[i] = Clear(Tail(q)[i])
    BY <1>1, <2>1
  <2> HIDE DEF l, r
  <2>5. \A i \in 1 .. Len(l) : l[i] = r[i]
    BY <1>1, <2>1, <2>3, <2>4
  <2>6. l = r BY <2>3, <2>4, <2>5, SeqEqual
  <2>7. Head(ClearAll(q)) = Clear(Head(q))
    BY <1>1, <2>1, <2>2
  <2> QED BY <2>2, <2>6, <2>7 DEF l, r
<1> QED BY <1>1, <1>2, <1>3, <1>4

\* Whatever the network does, the messages the client is given are a
\* subsequence, in order and without repetition, of the messages the server
\* sent, whole and in clear text: Netchan_Transmit, Netchan_Process and the
\* queue of SV_Netchan_Transmit implement the abstract channel.
THEOREM Refinement == Spec => Implements
<1>1. Init => Channel!Init
  BY ClearAllProperties DEF Init, Channel!Init
<1>2. IInv /\ [Next]_vars => [Channel!Next]_(Channel!vars)
  <2> SUFFICES ASSUME IInv, [Next]_vars
               PROVE  Channel!Next \/ UNCHANGED Channel!vars
    OBVIOUS
  <2>1. ASSUME NEW len \in 1 .. MAX_MSGLEN, MakeMessage(len)
        PROVE  Channel!Next
    <3> DEFINE m == [id |-> made + 1, len |-> len]
    <3>1. /\ m \in Message
          /\ SV_Netchan_Transmit(m)
          /\ UNCHANGED <<incomingSequence, delivered>>
          /\ queue \in Seq(Message)
          /\ wire \in Seq(Message)
      BY <2>1, NetchanAssumption DEF MakeMessage, TypeOK, Message, recvVars, IInv
    <3> HIDE DEF m
    <3>2. CASE ~Busy
      <4>1. /\ wire' = Append(wire, m)
            /\ queue' = queue
            /\ queue = <<>>
        BY <3>1, <3>2 DEF SV_Netchan_Transmit, EncodeAndTransmit, Busy
      <4>2. Channel!Submit(Clear(m))
        BY <3>1, <4>1, ClearAllProperties DEF Channel!Submit
      <4> QED BY <3>1, <4>2 DEF Channel!Next
    <3>3. CASE Busy /\ Len(queue) > MAX_NETCHAN_QUEUE
      <4>1. queue' = <<>> /\ wire' = wire
        BY <3>1, <3>3 DEF SV_Netchan_Transmit
      <4>2. Channel!Abandon
        BY <3>1, <4>1, ClearAllProperties DEF Channel!Abandon
      <4> QED BY <4>2 DEF Channel!Next
    <3>4. CASE Busy /\ ~(Len(queue) > MAX_NETCHAN_QUEUE)
      <4>1. queue' = Append(queue, m) /\ wire' = wire
        BY <3>1, <3>4 DEF SV_Netchan_Transmit
      <4>2. Channel!Submit(Clear(m))
        BY <3>1, <4>1, ClearAllProperties DEF Channel!Submit
      <4> QED BY <3>1, <4>2 DEF Channel!Next
    <3> QED BY <3>2, <3>3, <3>4
  <2>2. CASE NextFragment
    BY <2>2 DEF NextFragment, Channel!vars, recvVars
  <2>3. CASE NextInQueue
    <3>1. /\ queue # <<>>
          /\ wire' = Append(wire, Head(queue))
          /\ queue' = Tail(queue)
          /\ UNCHANGED <<incomingSequence, delivered>>
      BY <2>3 DEF NextInQueue, EncodeAndTransmit, recvVars
    <3>2. /\ queue \in Seq(Message)
          /\ wire \in Seq(Message)
          /\ Head(queue) \in Message
      BY <3>1, HeadTailProperties DEF IInv, TypeOK
    <3>3. Channel!Release
      BY <3>1, <3>2, ClearAllProperties DEF Channel!Release
    <3> QED BY <3>3 DEF Channel!Next
  <2>4. CASE SV_DropClient
    <3>1. Channel!Abandon
      BY <2>4, ClearAllProperties DEF SV_DropClient, Channel!Abandon, recvVars
    <3> QED BY <3>1 DEF Channel!Next
  <2>5. ASSUME NEW p \in net, Netchan_Process(p)
        PROVE  Channel!Next \/ UNCHANGED Channel!vars
    <3>1. UNCHANGED <<queue, wire>> /\ wire \in Seq(Message)
      BY <2>5 DEF Netchan_Process, IInv, TypeOK
    <3>2. CASE UNCHANGED <<incomingSequence, delivered>>
      BY <3>1, <3>2 DEF Channel!vars
    <3>3. CASE /\ p.seq \in 1 .. Len(wire)
               /\ p.seq > incomingSequence
               /\ incomingSequence' = p.seq
               /\ delivered' = Append(delivered, Clear(wire[p.seq]))
      <4>1. /\ p.seq \in 1 .. Len(ClearAll(wire))
            /\ ClearAll(wire)[p.seq] = Clear(wire[p.seq])
        BY <3>1, <3>3, ClearAllProperties
      <4>2. Channel!Deliver(p.seq)
        BY <3>1, <3>3, <4>1 DEF Channel!Deliver
      <4> QED BY <4>1, <4>2 DEF Channel!Next
    <3> QED BY <2>5, <3>2, <3>3, ProcessKeepsInv
  <2>6. CASE UNCHANGED vars
    BY <2>6 DEF vars, Channel!vars, recvVars
  <2> QED BY <2>1, <2>2, <2>3, <2>4, <2>5, <2>6 DEF Next
<1> QED BY <1>1, <1>2, Invariance, PTL DEF Spec, Implements, Channel!Spec
=============================================================================
