--------------------------- MODULE ReliableProofs ---------------------------
(***************************************************************************)
(* Proofs about Reliable for rings of every size, any number of commands   *)
(* of both sides and of messages under way.                                *)
(***************************************************************************)
EXTENDS Reliable, FiniteSetTheorems, SequenceTheorems, TLAPS

----------------------------------------------------------------------------
(* Rings and windows: numbers less than a size apart have slots of their   *)
(* own, and a set of numbers has a least and a greatest element.           *)

\* A multiple of d that is greater is greater by d.
LEMMA MultiplesApart ==
  ASSUME NEW a \in Int, NEW b \in Int, NEW d \in Nat, a < b
  PROVE  d * a + d <= d * b
<1>1. b - a - 1 \in Nat OBVIOUS
<1>2. d * (b - a - 1) >= 0 BY <1>1
<1>3. d * (b - a - 1) = d * b - d * a - d OBVIOUS
<1> QED BY <1>2, <1>3

\* The slot of a number in a ring of size d.
LEMMA SlotType ==
  ASSUME NEW n \in Int, NEW d \in Nat \ {0}
  PROVE  n % d \in 0 .. d - 1
OBVIOUS

\* Two numbers less than a ring's size apart have different slots.
LEMMA SlotsApart ==
  ASSUME NEW i \in Int, NEW j \in Int, NEW d \in Nat \ {0}, i < j, j - i < d
  PROVE  i % d # j % d
<1> DEFINE p == i \div d
           q == j \div d
           r == i % d
           s == j % d
<1>1. /\ p \in Int /\ q \in Int /\ r \in 0 .. d - 1 /\ s \in 0 .. d - 1
      /\ i = d * p + r /\ j = d * q + s
  OBVIOUS
<1> HIDE DEF p, q, r, s
<1>2. ASSUME r = s PROVE FALSE
  <2>1. d * p \in Int /\ d * q \in Int BY <1>1
  <2>2. d * q - d * p > 0 /\ d * q - d * p < d BY <1>1, <1>2, <2>1
  <2>3. CASE p < q BY <1>1, <2>1, <2>2, <2>3, MultiplesApart
  <2>4. CASE q < p BY <1>1, <2>1, <2>2, <2>4, MultiplesApart
  <2>5. CASE p = q BY <1>1, <2>1, <2>2, <2>5
  <2> QED BY <1>1, <2>3, <2>4, <2>5
<1> QED BY <1>2 DEF r, s

\* A set of natural numbers has a least element.
LEMMA LeastExists ==
  ASSUME NEW S \in SUBSET Nat, S # {}
  PROVE  \E n \in S : \A i \in S : n <= i
<1> DEFINE Less == {p \in Nat \X Nat : p[1] < p[2]}
<1>1. IsWellFoundedOn(Less, Nat) BY NatLessThanWellFounded DEF OpToRel
<1>2. \A x, y \in S : <<y, x>> \notin Less => x <= y OBVIOUS
<1> HIDE DEF Less
<1> QED BY <1>1, <1>2, WFMin

\* A bounded one has a greatest element: the least of the distances to the bound.
LEMMA GreatestExists ==
  ASSUME NEW S \in SUBSET Nat, NEW b \in Nat, S # {}, \A i \in S : i <= b
  PROVE  \E n \in S : \A i \in S : i <= n
<1> DEFINE D == {b - i : i \in S}
<1>1. \A i \in S : i \in Nat /\ b - i \in Nat OBVIOUS
<1>2. D \subseteq Nat BY <1>1
<1>3. D # {} OBVIOUS
<1>4. PICK d \in D : \A e \in D : d <= e BY <1>2, <1>3, LeastExists
<1>5. PICK n \in S : d = b - n OBVIOUS
<1>6. \A i \in S : b - i \in D OBVIOUS
<1>7. \A i \in S : i <= n BY <1>1, <1>4, <1>5, <1>6
<1> QED BY <1>7

----------------------------------------------------------------------------
(* The inductive invariant.                                                *)

ServerType == [reliableSequence : Nat, reliableAcknowledge : Nat,
               reliableCommands : Ring, lastClientCommand : Nat,
               lastClientCommandString : Nat, zombie : BOOLEAN,
               byes : SUBSET Nat, gameDisconnects : Nat, intact : BOOLEAN]
ClientType == [reliableSequence : Nat, reliableAcknowledge : Nat,
               reliableCommands : Ring, serverCommandSequence : Nat,
               serverCommands : Ring, lastExecutedServerCommand : Nat,
               state : {"active", "left", "fatal"}, bye : Nat, intact : BOOLEAN]
Intervals == {a + 1 .. b : a \in Nat, b \in Nat}
Commands == UNION {[I -> Nat] : I \in Intervals}
Messages == [ack : Nat, key : Nat, cmds : Commands]

Types(s, c, tc, ts, sx, cx) ==
  /\ s \in ServerType /\ c \in ClientType
  /\ tc \in Seq(Messages) /\ Len(tc) <= MaxInFlight
  /\ ts \in Seq(Messages) /\ Len(ts) <= MaxInFlight
  /\ sx \in Seq(Nat) /\ cx \in Seq(Nat)

\* The ring holds the newest R commands, each with its own text.
Holds(ring, newest) == \A n \in 0 .. newest : newest - n < R => ring[Slot(n)] = n

\* The commands go on after the last one, or end before it.
NoGap(cmds, last) == \A n \in DOMAIN cmds : \A k \in last + 1 .. n : k \in DOMAIN cmds

InOrder(link) == \A i, j \in 1 .. Len(link) : i <= j => link[i].ack <= link[j].ack

\* The commands of the server: what it keeps, and what the client has of them.
ServerCommands(s, c, cx) ==
  /\ s.byes \subseteq 0 .. s.reliableSequence
  /\ s.reliableAcknowledge <= c.serverCommandSequence
  /\ c.lastExecutedServerCommand <= c.serverCommandSequence
  /\ c.serverCommandSequence <= s.reliableSequence
  /\ s.reliableSequence - s.reliableAcknowledge <= R + 4
  /\ s.gameDisconnects <= 2
  /\ ~s.zombie => s.intact /\ s.gameDisconnects = 0
  /\ s.intact =>
       /\ s.reliableSequence - s.reliableAcknowledge <= R
       /\ Holds(s.reliableCommands, s.reliableSequence)
       /\ Holds(c.serverCommands, c.serverCommandSequence)
       /\ cx = Count(c.lastExecutedServerCommand)
  /\ \A n \in 0 .. c.serverCommandSequence :
       s.reliableSequence - n < R =>
         c.serverCommands[Slot(n)] = s.reliableCommands[Slot(n)]

\* The commands of the client.
ClientCommands(s, c, sx) ==
  /\ c.reliableAcknowledge <= c.reliableSequence
  /\ c.reliableSequence - c.reliableAcknowledge <= R + 1
  /\ s.lastClientCommand <= c.reliableSequence
  /\ Holds(c.reliableCommands, c.reliableSequence)
  /\ c.reliableSequence - s.lastClientCommand < R =>
       s.lastClientCommandString = s.lastClientCommand
  /\ c.intact =>
       /\ c.reliableAcknowledge <= s.lastClientCommand
       /\ c.reliableSequence - c.reliableAcknowledge <= R
       /\ sx = Count(s.lastClientCommand)

\* A message on the way to the server acknowledges what the client has, is
\* encoded with the text the server knows, and carries texts that are right
\* unless the client's ring went over them.
ToServerSound(s, c, m) ==
  /\ s.reliableAcknowledge <= m.ack /\ m.ack <= c.serverCommandSequence
  /\ s.reliableSequence - m.ack < R => m.key = s.reliableCommands[Slot(m.ack)]
  /\ \A n \in DOMAIN m.cmds :
       /\ n <= c.reliableSequence
       /\ c.reliableSequence - n < R => m.cmds[n] = n
  /\ c.intact =>
       /\ NoGap(m.cmds, s.lastClientCommand)
       /\ \A n \in DOMAIN m.cmds : m.cmds[n] = n

\* The same of a message on the way to the client.  The server's ring may hold
\* other texts, once it has overflowed.
ToClientSound(s, c, m) ==
  /\ m.ack <= s.lastClientCommand
  /\ c.intact => c.reliableAcknowledge <= m.ack
  /\ c.reliableSequence - m.ack < R => m.key = m.ack
  /\ NoGap(m.cmds, c.serverCommandSequence)
  /\ \A n \in DOMAIN m.cmds :
       /\ n <= s.reliableSequence
       /\ s.reliableSequence - n < R => m.cmds[n] = s.reliableCommands[Slot(n)]
       /\ s.intact => m.cmds[n] = n

ToServerLink(s, c, ts) ==
  /\ InOrder(ts)
  /\ \A i \in 1 .. Len(ts) : ToServerSound(s, c, ts[i])
ToClientLink(s, c, tc) ==
  /\ InOrder(tc)
  /\ \A i \in 1 .. Len(tc) : ToClientSound(s, c, tc[i])

\* The invariant of the six variables, and that of the state.
Sound(s, c, tc, ts, sx, cx) ==
  /\ Types(s, c, tc, ts, sx, cx)
  /\ ServerCommands(s, c, cx) /\ ClientCommands(s, c, sx)
  /\ ToServerLink(s, c, ts) /\ ToClientLink(s, c, tc)

IInv == Sound(server, client, toClient, toServer, serverExecuted, clientExecuted)

----------------------------------------------------------------------------
(* Rings and links.                                                        *)

\* The size of a ring, and the slot of a number.
LEMMA RingSize == R \in Nat \ {0} /\ \A n \in Nat : Slot(n) \in Slots
<1>1. R \in Nat \ {0} BY ReliableAssumption DEF R
<1> QED BY <1>1, SlotType DEF Slot, Slots

\* Numbers less than a ring apart do not share a slot.
LEMMA OwnSlot ==
  ASSUME NEW i \in Nat, NEW j \in Nat, i # j, i - j < R, j - i < R
  PROVE  Slot(i) # Slot(j)
<1>1. i \in Int /\ j \in Int /\ R \in Nat \ {0} BY RingSize
<1>2. CASE i < j
  <2>1. i % R # j % R BY <1>1, <1>2, SlotsApart
  <2> QED BY <2>1 DEF Slot
<1>3. CASE j < i
  <2>1. j % R # i % R BY <1>1, <1>3, SlotsApart
  <2> QED BY <2>1 DEF Slot
<1> QED BY <1>1, <1>2, <1>3

\* A ring that takes one more command at its own slot keeps the R - 1 before it.
LEMMA StoredInRing ==
  ASSUME NEW ring \in Ring, NEW seq \in Nat
  PROVE  LET new == [ring EXCEPT ![Slot(seq + 1)] = seq + 1]
         IN  /\ new \in Ring
             /\ \A n \in 0 .. seq : seq + 1 - n < R => new[Slot(n)] = ring[Slot(n)]
             /\ Holds(ring, seq) => Holds(new, seq + 1)
<1> DEFINE new == [ring EXCEPT ![Slot(seq + 1)] = seq + 1]
<1>1. Slot(seq + 1) \in Slots BY RingSize
<1>2. new \in Ring BY <1>1 DEF Ring
<1>3. ASSUME NEW n \in 0 .. seq, seq + 1 - n < R
      PROVE  new[Slot(n)] = ring[Slot(n)]
  <2>1. n \in Nat /\ n # seq + 1 /\ n - (seq + 1) < R BY RingSize
  <2>2. Slot(n) # Slot(seq + 1) /\ Slot(n) \in Slots BY <1>3, <2>1, OwnSlot, RingSize
  <2> QED BY <2>2 DEF Ring
<1>4. new[Slot(seq + 1)] = seq + 1 BY <1>1 DEF Ring
<1> HIDE DEF new
<1>5. ASSUME Holds(ring, seq), NEW n \in 0 .. seq + 1, seq + 1 - n < R
      PROVE  new[Slot(n)] = n
  <2>1. CASE n = seq + 1 BY <1>4, <2>1
  <2>2. CASE n \in 0 .. seq
    <3>1. seq - n < R BY <1>5, <2>2, RingSize
    <3> QED BY <1>3, <1>5, <2>2, <3>1 DEF Holds
  <2> QED BY <2>1, <2>2
<1> QED BY <1>2, <1>3, <1>5 DEF Holds, new

\* What a full link loses is its oldest message.
LEMMA SentIs ==
  ASSUME NEW link \in Seq(Messages), Len(link) <= MaxInFlight, NEW m \in Messages
  PROVE  LET new == Sent(link, m)
         IN  /\ new \in Seq(Messages) /\ Len(new) <= MaxInFlight
             /\ Len(new) \in Nat \ {0} /\ new[Len(new)] = m
             /\ \E d \in {0, 1} :
                  /\ Len(new) = Len(link) + 1 - d
                  /\ \A i \in 1 .. Len(new) - 1 : i + d \in 1 .. Len(link) /\ new[i] = link[i + d]
<1> DEFINE kept == IF Len(link) < MaxInFlight THEN link ELSE Tail(link)
<1>1. MaxInFlight \in Nat \ {0} /\ Len(link) \in Nat BY ReliableAssumption
<1>2. /\ kept \in Seq(Messages) /\ Len(kept) < MaxInFlight /\ Len(kept) \in Nat
      /\ \E d \in {0, 1} :
           /\ Len(kept) = Len(link) - d
           /\ \A i \in 1 .. Len(kept) : i + d \in 1 .. Len(link) /\ kept[i] = link[i + d]
  <2>1. CASE Len(link) < MaxInFlight
    <3>1. kept = link BY <2>1
    <3> QED BY <1>1, <2>1, <3>1
  <2>2. CASE ~(Len(link) < MaxInFlight)
    <3>1. kept = Tail(link) /\ link # <<>> BY <1>1, <2>2
    <3>2. /\ kept \in Seq(Messages) /\ Len(kept) = Len(link) - 1
          /\ \A i \in 1 .. Len(kept) : kept[i] = link[i + 1]
      BY <3>1, HeadTailProperties
    <3>3. \A i \in 1 .. Len(kept) : i + 1 \in 1 .. Len(link) BY <1>1, <3>2
    <3>4. Len(kept) \in Nat /\ Len(kept) < MaxInFlight BY <1>1, <2>2, <3>2
    <3>5. /\ Len(kept) = Len(link) - 1
          /\ \A i \in 1 .. Len(kept) : i + 1 \in 1 .. Len(link) /\ kept[i] = link[i + 1]
      BY <3>2, <3>3
    <3> HIDE DEF kept
    <3>6. \E d \in {0, 1} :
            /\ Len(kept) = Len(link) - d
            /\ \A i \in 1 .. Len(kept) : i + d \in 1 .. Len(link) /\ kept[i] = link[i + d]
      <4> WITNESS 1 \in {0, 1}
      <4> QED BY <3>5
    <3> QED BY <3>2, <3>4, <3>6
  <2> QED BY <2>1, <2>2
<1> HIDE DEF kept
<1>3. /\ Append(kept, m) \in Seq(Messages) /\ Len(Append(kept, m)) = Len(kept) + 1
      /\ \A i \in 1 .. Len(kept) : Append(kept, m)[i] = kept[i]
      /\ Append(kept, m)[Len(kept) + 1] = m
  BY <1>2, AppendProperties
<1>4. Sent(link, m) = Append(kept, m) BY DEF Sent, kept
<1> QED BY <1>1, <1>2, <1>3, <1>4

\* What is left behind a message that has arrived.
LEMMA AfterIs ==
  ASSUME NEW link \in Seq(Messages), NEW i \in 1 .. Len(link), Len(link) <= MaxInFlight
  PROVE  LET new == After(link, i)
         IN  /\ new \in Seq(Messages) /\ Len(new) <= MaxInFlight
             /\ Len(new) = Len(link) - i
             /\ \A j \in 1 .. Len(new) : i + j \in 1 .. Len(link) /\ new[j] = link[i + j]
<1>1. Len(link) \in Nat /\ MaxInFlight \in Nat BY ReliableAssumption
<1>2. \A j \in i + 1 .. Len(link) : link[j] \in Messages BY <1>1
<1>3. /\ SubSeq(link, i + 1, Len(link)) \in Seq(Messages)
      /\ Len(SubSeq(link, i + 1, Len(link))) = Len(link) - i
      /\ \A j \in 1 .. Len(link) - i : SubSeq(link, i + 1, Len(link))[j] = link[i + j]
  BY <1>1, <1>2, SubSeqProperties
<1> QED BY <1>1, <1>3 DEF After

----------------------------------------------------------------------------
(* Counting, and the commands of a message.                                *)

\* The next numbers after a count.
LEMMA CountOn ==
  ASSUME NEW n \in Nat, NEW k \in Nat
  PROVE  /\ Count(n) \in Seq(Nat)
         /\ Count(n) \o [i \in 1 .. k |-> n + i] = Count(n + k)
         /\ Append(Count(n), n + 1) = Count(n + 1)
<1>1. Count(n) \in Seq(Nat) /\ Len(Count(n)) = n /\ \A i \in 1 .. n : Count(n)[i] = i
  BY DEF Count
<1> DEFINE more == [i \in 1 .. k |-> n + i]
<1>2. more \in Seq(Nat) /\ Len(more) = k /\ \A i \in 1 .. k : more[i] = n + i
  OBVIOUS
<1> HIDE DEF more
<1>3. /\ Count(n) \o more \in Seq(Nat) /\ Len(Count(n) \o more) = n + k
      /\ \A i \in 1 .. n + k : (Count(n) \o more)[i] = i
  <2>1. /\ Count(n) \o more \in Seq(Nat)
        /\ Len(Count(n) \o more) = n + k
        /\ \A i \in 1 .. n + k :
             (Count(n) \o more)[i] = IF i <= n THEN Count(n)[i] ELSE more[i - n]
    <3> DEFINE all == Count(n) \o more
    <3>1. /\ all \in Seq(Nat) /\ Len(all) = Len(Count(n)) + Len(more)
          /\ \A i \in 1 .. Len(Count(n)) + Len(more) :
               all[i] = IF i <= Len(Count(n)) THEN Count(n)[i] ELSE more[i - Len(Count(n))]
      BY <1>1, <1>2, ConcatProperties
    <3> HIDE DEF all
    <3>2. \A i \in 1 .. n + k : all[i] = IF i <= n THEN Count(n)[i] ELSE more[i - n]
      BY <1>1, <1>2, <3>1
    <3> QED BY <1>1, <1>2, <3>1, <3>2 DEF all
  <2> QED BY <1>1, <1>2, <2>1
<1>4. Count(n) \o more = Count(n + k)
  <2>1. Count(n + k) \in Seq(Nat) /\ Len(Count(n + k)) = n + k
        /\ \A i \in 1 .. n + k : Count(n + k)[i] = i
    BY DEF Count
  <2> QED BY <1>3, <2>1, SeqEqual
<1>5. /\ Append(Count(n), n + 1) \in Seq(Nat) /\ Len(Append(Count(n), n + 1)) = n + 1
      /\ \A i \in 1 .. n + 1 : Append(Count(n), n + 1)[i] = i
  BY <1>1, AppendProperties
<1>6. Append(Count(n), n + 1) = Count(n + 1)
  <2>1. Count(n + 1) \in Seq(Nat) /\ Len(Count(n + 1)) = n + 1
        /\ \A i \in 1 .. n + 1 : Count(n + 1)[i] = i
    BY DEF Count
  <2> QED BY <1>5, <2>1, SeqEqual
<1> QED BY <1>1, <1>4, <1>6 DEF more

\* What the newest of some numbers is.
LEMMA NewestIs ==
  ASSUME NEW S \in SUBSET Nat, S # {}, NEW b \in Nat, \A n \in S : n <= b
  PROVE  Newest(S) \in S /\ \A n \in S : n <= Newest(S)
<1>1. \E n \in S : \A i \in S : i <= n BY GreatestExists
<1> QED BY <1>1 DEF Newest

\* What the oldest of some numbers is.
LEMMA OldestIs ==
  ASSUME NEW S \in SUBSET Nat, S # {}
  PROVE  Oldest(S) \in S /\ \A n \in S : Oldest(S) <= n
<1>1. \E n \in S : \A i \in S : n <= i BY LeastExists
<1> QED BY <1>1 DEF Oldest

\* The numbers of the commands in a message follow each other.
LEMMA CommandsAre ==
  ASSUME NEW cmds \in Commands
  PROVE  /\ DOMAIN cmds \subseteq Nat \ {0}
         /\ \E b \in Nat : \A n \in DOMAIN cmds : n <= b
         /\ \A n \in DOMAIN cmds : cmds[n] \in Nat
         /\ \A n, k \in DOMAIN cmds : \A j \in n .. k : j \in DOMAIN cmds
<1>1. PICK a \in Nat, b \in Nat : cmds \in [a + 1 .. b -> Nat]
  BY DEF Commands, Intervals
<1>2. DOMAIN cmds = a + 1 .. b /\ \A n \in a + 1 .. b : cmds[n] \in Nat BY <1>1
<1>3. \A n \in DOMAIN cmds : n <= b BY <1>2
<1>4. \A n, k \in a + 1 .. b : \A j \in n .. k : j \in a + 1 .. b OBVIOUS
<1> QED BY <1>2, <1>3, <1>4

\* The unacknowledged commands of one end.
LEMMA UnacknowledgedIs ==
  ASSUME NEW e, e.reliableSequence \in Nat, e.reliableAcknowledge \in Nat,
         e.reliableCommands \in Ring
  PROVE  LET cmds == Unacknowledged(e)
         IN  /\ cmds \in Commands
             /\ DOMAIN cmds = e.reliableAcknowledge + 1 .. e.reliableSequence
             /\ \A n \in DOMAIN cmds : n \in Nat /\ cmds[n] = e.reliableCommands[Slot(n)]
<1> DEFINE cmds == Unacknowledged(e)
<1>1. /\ DOMAIN cmds = e.reliableAcknowledge + 1 .. e.reliableSequence
      /\ \A n \in DOMAIN cmds : n \in Nat /\ cmds[n] = e.reliableCommands[Slot(n)]
  BY DEF Unacknowledged
<1>2. \A n \in DOMAIN cmds : cmds[n] \in Nat BY <1>1, RingSize DEF Ring
<1>3. cmds \in [e.reliableAcknowledge + 1 .. e.reliableSequence -> Nat]
  BY <1>1, <1>2 DEF Unacknowledged
<1> HIDE DEF cmds
<1>4. cmds \in Commands
  <2>1. \A a, b \in Nat : a + 1 .. b \in Intervals BY DEF Intervals
  <2> QED BY <1>3, <2>1 DEF Commands
<1> QED BY <1>1, <1>4 DEF cmds

----------------------------------------------------------------------------
(* What the server's operations keep of its record of the client.          *)

\* Between s and t the server added at most k commands.
Grows(s, t, k) ==
  /\ t \in ServerType
  /\ t.reliableSequence \in s.reliableSequence .. s.reliableSequence + k
  /\ \A n \in 0 .. s.reliableSequence :
       t.reliableSequence - n < R => t.reliableCommands[Slot(n)] = s.reliableCommands[Slot(n)]
  /\ t.reliableAcknowledge = s.reliableAcknowledge
  /\ t.lastClientCommand = s.lastClientCommand
  /\ t.lastClientCommandString = s.lastClientCommandString
  /\ s.byes \subseteq 0 .. s.reliableSequence => t.byes \subseteq 0 .. t.reliableSequence
  /\ t.intact =>
       /\ s.intact
       /\ Outstanding(s) <= R => Outstanding(t) <= R
       /\ Holds(s.reliableCommands, s.reliableSequence) =>
            Holds(t.reliableCommands, t.reliableSequence)

\* One addition after another.
LEMMA GrowsOn ==
  ASSUME NEW s \in ServerType, NEW t, NEW u, NEW j \in Nat, NEW k \in Nat,
         Grows(s, t, j), Grows(t, u, k)
  PROVE  Grows(s, u, j + k)
<1>1. /\ s.reliableSequence \in Nat /\ t.reliableSequence \in Nat /\ u.reliableSequence \in Nat
      /\ R \in Nat
  BY RingSize DEF ServerType, Grows
<1>2. u.reliableSequence \in s.reliableSequence .. s.reliableSequence + (j + k)
  BY <1>1 DEF Grows
<1>3. ASSUME NEW n \in 0 .. s.reliableSequence, u.reliableSequence - n < R
      PROVE  u.reliableCommands[Slot(n)] = s.reliableCommands[Slot(n)]
  <2>1. n \in 0 .. t.reliableSequence /\ t.reliableSequence - n < R
    BY <1>1, <1>3 DEF Grows
  <2> QED BY <1>3, <2>1 DEF Grows
<1>4. s.byes \subseteq 0 .. s.reliableSequence => u.byes \subseteq 0 .. u.reliableSequence
  BY DEF Grows
<1>5. u.intact =>
        /\ s.intact
        /\ Outstanding(s) <= R => Outstanding(u) <= R
        /\ Holds(s.reliableCommands, s.reliableSequence) =>
             Holds(u.reliableCommands, u.reliableSequence)
  BY DEF Grows
<1>6. /\ u \in ServerType /\ u.reliableAcknowledge = s.reliableAcknowledge
      /\ u.lastClientCommand = s.lastClientCommand
      /\ u.lastClientCommandString = s.lastClientCommandString
  BY DEF Grows
<1> QED BY <1>2, <1>3, <1>4, <1>5, <1>6 DEF Grows

\* A command is stored in the next slot.
LEMMA StoredGrows ==
  ASSUME NEW s \in ServerType
  PROVE  /\ Grows(s, Stored(s), 1)
         /\ Stored(s).reliableSequence = s.reliableSequence + 1
         /\ Stored(s).zombie = s.zombie /\ Stored(s).gameDisconnects = s.gameDisconnects
         /\ s.intact /\ Outstanding(s) < R => Stored(s).intact
<1> DEFINE t == Stored(s)
<1>1. s.reliableSequence \in Nat /\ s.reliableAcknowledge \in Nat /\ R \in Nat
  BY RingSize DEF ServerType
<1>2. /\ t.reliableSequence = s.reliableSequence + 1
      /\ t.reliableCommands =
           [s.reliableCommands EXCEPT ![Slot(s.reliableSequence + 1)] = s.reliableSequence + 1]
      /\ t.reliableAcknowledge = s.reliableAcknowledge
      /\ t.lastClientCommand = s.lastClientCommand
      /\ t.lastClientCommandString = s.lastClientCommandString
      /\ t.byes = s.byes /\ t.zombie = s.zombie /\ t.gameDisconnects = s.gameDisconnects
      /\ t.intact <=> s.intact /\ Outstanding(s) < R
  BY DEF ServerType, Stored
<1>3. /\ t.reliableCommands \in Ring
      /\ \A n \in 0 .. s.reliableSequence :
           t.reliableSequence - n < R => t.reliableCommands[Slot(n)] = s.reliableCommands[Slot(n)]
      /\ Holds(s.reliableCommands, s.reliableSequence) =>
           Holds(t.reliableCommands, t.reliableSequence)
  BY <1>1, <1>2, StoredInRing DEF ServerType
<1>4. t \in ServerType
  <2> DEFINE n    == s.reliableSequence + 1
             ring == [s.reliableCommands EXCEPT ![Slot(n)] = n]
             b    == s.intact /\ Outstanding(s) < R
  <2>1. n \in Nat /\ ring \in Ring /\ b \in BOOLEAN BY <1>1, <1>2, <1>3
  <2>2. t = [s EXCEPT !.reliableSequence = n, !.reliableCommands = ring, !.intact = b]
    BY DEF ServerType, Stored
  <2> HIDE DEF n, ring, b, t
  <2> QED BY <2>1, <2>2 DEF ServerType
<1>5. t.intact => Outstanding(t) <= R
  <2> HIDE DEF t
  <2> QED BY <1>1, <1>2 DEF Outstanding
<1>6. s.byes \subseteq 0 .. s.reliableSequence => t.byes \subseteq 0 .. t.reliableSequence
  BY <1>1, <1>2
<1>7. t.reliableSequence \in s.reliableSequence .. s.reliableSequence + 1 BY <1>1, <1>2
<1>8. Grows(s, t, 1) BY <1>2, <1>3, <1>4, <1>5, <1>6, <1>7 DEF Grows
<1> QED BY <1>2, <1>8

\* A number is taken for a command that is not stored.
LEMMA CountedGrows ==
  ASSUME NEW s \in ServerType
  PROVE  /\ Grows(s, Counted(s), 1) /\ ~Counted(s).intact
         /\ Counted(s).reliableSequence = s.reliableSequence + 1
         /\ Counted(s).zombie = s.zombie /\ Counted(s).gameDisconnects = s.gameDisconnects
<1> DEFINE t == Counted(s)
<1>1. s.reliableSequence \in Nat BY DEF ServerType
<1>2. /\ t.reliableSequence = s.reliableSequence + 1
      /\ t.reliableCommands = s.reliableCommands
      /\ t.reliableAcknowledge = s.reliableAcknowledge
      /\ t.lastClientCommand = s.lastClientCommand
      /\ t.lastClientCommandString = s.lastClientCommandString
      /\ t.byes = s.byes /\ t.zombie = s.zombie /\ t.gameDisconnects = s.gameDisconnects
      /\ t.intact = FALSE
  BY DEF ServerType, Counted
<1>3. t \in ServerType
  <2> DEFINE n == s.reliableSequence + 1
  <2>1. n \in Nat BY <1>1
  <2>2. t = [s EXCEPT !.reliableSequence = n, !.intact = FALSE] BY DEF ServerType, Counted
  <2> HIDE DEF n, t
  <2> QED BY <2>1, <2>2 DEF ServerType
<1>4. s.byes \subseteq 0 .. s.reliableSequence => t.byes \subseteq 0 .. t.reliableSequence
  BY <1>1, <1>2
<1>5. t.reliableSequence \in s.reliableSequence .. s.reliableSequence + 1 BY <1>1, <1>2
<1>6. Grows(s, t, 1) BY <1>2, <1>3, <1>4, <1>5 DEF Grows
<1> QED BY <1>2, <1>6

\* The client is made a zombie, which adds one more command at most.
LEMMA ZombifiedGrows ==
  ASSUME NEW s \in ServerType
  PROVE  /\ Grows(s, Zombified(s), 1)
         /\ Zombified(s).zombie /\ Zombified(s).gameDisconnects = s.gameDisconnects + 1
<1> DEFINE z == [s EXCEPT !.zombie = TRUE, !.gameDisconnects = @ + 1]
           t == [Stored(z) EXCEPT !.byes = @ \cup {z.reliableSequence + 1}]
<1>1. s.reliableSequence \in Nat BY DEF ServerType
<1>2. z \in ServerType /\ z.reliableSequence = s.reliableSequence
  <2> DEFINE g == s.gameDisconnects + 1
  <2>1. g \in Nat BY DEF ServerType
  <2>2. z = [s EXCEPT !.zombie = TRUE, !.gameDisconnects = g] /\ z.reliableSequence = s.reliableSequence
    BY DEF ServerType
  <2> HIDE DEF g, z
  <2> QED BY <2>1, <2>2 DEF ServerType
<1>3. /\ z.zombie /\ z.gameDisconnects = s.gameDisconnects + 1
      /\ \A x, k : Grows(z, x, k) => Grows(s, x, k)
  BY DEF ServerType, Grows, Outstanding
<1> HIDE DEF z
<1>4. CASE Overflows(z)
  <2>1. Zombified(s) = Counted(z) BY <1>4 DEF Zombified, z
  <2> QED BY <1>2, <1>3, <2>1, CountedGrows
<1>5. CASE ~Overflows(z)
  <2>1. Zombified(s) = t BY <1>5 DEF Zombified, z
  <2> DEFINE y == Stored(z)
  <2>2. /\ Grows(z, y, 1) /\ y \in ServerType /\ y.reliableSequence = s.reliableSequence + 1
        /\ y.zombie /\ y.gameDisconnects = s.gameDisconnects + 1
    BY <1>2, <1>3, StoredGrows DEF Grows
  <2> HIDE DEF y
  <2>3. t = [y EXCEPT !.byes = @ \cup {s.reliableSequence + 1}] BY <1>2 DEF y
  <2>4. /\ t \in ServerType /\ t.byes = y.byes \cup {s.reliableSequence + 1}
        /\ t.zombie /\ t.gameDisconnects = s.gameDisconnects + 1
        /\ t.reliableSequence = y.reliableSequence /\ t.reliableCommands = y.reliableCommands
        /\ t.reliableAcknowledge = y.reliableAcknowledge
        /\ t.lastClientCommand = y.lastClientCommand
        /\ t.lastClientCommandString = y.lastClientCommandString /\ t.intact = y.intact
    BY <1>1, <2>2, <2>3 DEF ServerType
  <2>5. z.byes \subseteq 0 .. z.reliableSequence => t.byes \subseteq 0 .. t.reliableSequence
    BY <1>1, <2>2, <2>4 DEF Grows
  <2>6. Outstanding(t) = Outstanding(y) BY <2>4 DEF Outstanding
  <2>7. Grows(z, t, 1) BY <2>2, <2>4, <2>5, <2>6 DEF Grows
  <2> QED BY <1>3, <2>1, <2>4, <2>7
<1> QED BY <1>4, <1>5

\* A client that is still served, and its record after an operation.
Served(s) ==
  /\ s \in ServerType /\ ~s.zombie /\ s.intact /\ s.gameDisconnects = 0
  /\ Outstanding(s) <= R

Follows(s, t) ==
  /\ Grows(s, t, 4) /\ t.gameDisconnects <= 2
  /\ ~t.zombie => t.intact /\ t.gameDisconnects = 0

\* A command is added; on overflow it is the zombie's last but one.
LEMMA AddFollows ==
  ASSUME NEW s, Served(s)
  PROVE  /\ Grows(s, SV_AddServerCommand(s), 3) /\ Follows(s, SV_AddServerCommand(s))
         /\ SV_AddServerCommand(s).gameDisconnects <= 1
<1>1. /\ s \in ServerType /\ s.reliableSequence \in Nat /\ s.reliableAcknowledge \in Nat /\ R \in Nat
      /\ \A t : Grows(s, t, 1) => t \in ServerType /\ Grows(s, t, 3) /\ Grows(s, t, 4)
  BY RingSize DEF Served, ServerType, Grows
<1>2. CASE Overflows(s)
  <2> DEFINE t == Counted(s)
             u == Stored(t)
             w == Zombified(u)
  <2>1. Grows(s, t, 1) /\ t.gameDisconnects = 0 BY <1>1, CountedGrows DEF Served
  <2> HIDE DEF t
  <2>2. Grows(t, u, 1) /\ u.gameDisconnects = 0 BY <2>1, StoredGrows DEF Grows
  <2>3. Grows(s, u, 2) BY <1>1, <2>1, <2>2, GrowsOn
  <2> HIDE DEF u
  <2>4. Grows(u, w, 1) /\ w.zombie /\ w.gameDisconnects = 1 BY <2>2, ZombifiedGrows DEF Grows
  <2> HIDE DEF w
  <2>5. Grows(s, w, 3) BY <1>1, <2>3, <2>4, GrowsOn
  <2>6. Grows(s, w, 4) BY <1>1, <2>5 DEF Grows
  <2>7. SV_AddServerCommand(s) = w BY <1>2 DEF SV_AddServerCommand, t, u, w
  <2> QED BY <2>4, <2>5, <2>6, <2>7 DEF Follows
<1>3. CASE ~Overflows(s)
  <2> DEFINE t == Stored(s)
  <2>1. Outstanding(s) < R BY <1>1, <1>3 DEF Served, Overflows, Outstanding
  <2>2. Grows(s, t, 1) /\ t.gameDisconnects = 0 /\ t.intact
    BY <1>1, <2>1, StoredGrows DEF Served
  <2>3. SV_AddServerCommand(s) = t BY <1>3 DEF SV_AddServerCommand
  <2> HIDE DEF t
  <2>4. Grows(s, t, 3) /\ Grows(s, t, 4) BY <1>1, <2>2
  <2> QED BY <2>2, <2>3, <2>4 DEF Follows
<1> QED BY <1>2, <1>3

\* A drop makes a zombie, telling the game twice at most.
LEMMA DropFollows ==
  ASSUME NEW s, Served(s)
  PROVE  Follows(s, SV_DropClient(s)) /\ SV_DropClient(s).zombie
<1> DEFINE t == SV_AddServerCommand(s)
           u == Zombified(t)
<1>1. Grows(s, t, 3) /\ t \in ServerType /\ t.gameDisconnects <= 1 BY AddFollows DEF Grows
<1> HIDE DEF t
<1>2. Grows(t, u, 1) /\ u.zombie /\ u.gameDisconnects = t.gameDisconnects + 1
  BY <1>1, ZombifiedGrows
<1> HIDE DEF u
<1>3. s \in ServerType BY DEF Served
<1>4. Grows(s, u, 3 + 1) BY <1>1, <1>2, <1>3, GrowsOn
<1>5. u.gameDisconnects <= 2 BY <1>1, <1>2 DEF ServerType
<1>6. SV_DropClient(s) = u BY DEF SV_DropClient, Served, u, t
<1> QED BY <1>2, <1>4, <1>5, <1>6 DEF Follows

\* A record t that may follow the server's record s in a step of the server.
Advances(s, c, t) ==
  /\ t \in ServerType
  /\ s.reliableSequence <= t.reliableSequence
  /\ \A n \in 0 .. s.reliableSequence :
       t.reliableSequence - n < R => t.reliableCommands[Slot(n)] = s.reliableCommands[Slot(n)]
  /\ s.reliableAcknowledge <= t.reliableAcknowledge
  /\ t.reliableAcknowledge <= c.serverCommandSequence
  /\ t.reliableSequence - t.reliableAcknowledge <= R + 4
  /\ t.byes \subseteq 0 .. t.reliableSequence
  /\ t.gameDisconnects <= 2
  /\ ~t.zombie => t.intact /\ t.gameDisconnects = 0
  /\ t.intact =>
       /\ t.reliableSequence - t.reliableAcknowledge <= R
       /\ Holds(t.reliableCommands, t.reliableSequence)

\* The record of a served client with a newer acknowledgement, and what
\* follows it.
LEMMA Acknowledged ==
  ASSUME IInv, ~server.zombie,
         NEW a \in server.reliableAcknowledge .. client.serverCommandSequence
  PROVE  LET s == [server EXCEPT !.reliableAcknowledge = a]
         IN  /\ Served(s) /\ Advances(server, client, s)
             /\ s.lastClientCommand = server.lastClientCommand
             /\ s.lastClientCommandString = server.lastClientCommandString
             /\ \A t : Follows(s, t) =>
                  /\ Advances(server, client, t)
                  /\ t.lastClientCommand = server.lastClientCommand
                  /\ t.lastClientCommandString = server.lastClientCommandString
<1> DEFINE s == [server EXCEPT !.reliableAcknowledge = a]
<1>1. /\ server \in ServerType /\ server.reliableSequence \in Nat
      /\ server.reliableAcknowledge \in Nat /\ client.serverCommandSequence \in Nat
      /\ R \in Nat \ {0}
  BY RingSize DEF IInv, Sound, Types, ServerType, ClientType
<1>2. a \in Nat BY <1>1
<1>3. /\ s \in ServerType /\ s.reliableAcknowledge = a
      /\ s.reliableSequence = server.reliableSequence
      /\ s.reliableCommands = server.reliableCommands
      /\ s.lastClientCommand = server.lastClientCommand
      /\ s.lastClientCommandString = server.lastClientCommandString
      /\ s.zombie = server.zombie /\ s.byes = server.byes
      /\ s.gameDisconnects = server.gameDisconnects /\ s.intact = server.intact
  BY <1>1, <1>2 DEF ServerType
<1> HIDE DEF s
<1>4. /\ server.intact /\ server.gameDisconnects = 0
      /\ server.reliableSequence - server.reliableAcknowledge <= R
      /\ Holds(server.reliableCommands, server.reliableSequence)
      /\ server.byes \subseteq 0 .. server.reliableSequence
  BY DEF IInv, Sound, ServerCommands
<1>5. Outstanding(s) <= R BY <1>1, <1>2, <1>3, <1>4 DEF Outstanding
<1>6. Served(s) BY <1>3, <1>4, <1>5 DEF Served
<1>7. Advances(server, client, s) BY <1>1, <1>2, <1>3, <1>4, <1>5 DEF Advances, Outstanding
<1>8. ASSUME NEW t, Follows(s, t) PROVE Advances(server, client, t)
  <2>1. t \in ServerType /\ t.reliableSequence \in Nat /\ t.reliableAcknowledge = a
    BY <1>3, <1>8 DEF Follows, Grows, ServerType
  <2>2. t.reliableSequence \in server.reliableSequence .. server.reliableSequence + 4
    BY <1>3, <1>8 DEF Follows, Grows
  <2>3. t.reliableSequence - t.reliableAcknowledge <= R + 4
    BY <1>1, <1>2, <1>3, <1>5, <2>1, <2>2 DEF Outstanding
  <2>4. /\ \A n \in 0 .. server.reliableSequence :
             t.reliableSequence - n < R =>
               t.reliableCommands[Slot(n)] = server.reliableCommands[Slot(n)]
        /\ t.byes \subseteq 0 .. t.reliableSequence
        /\ t.gameDisconnects <= 2
        /\ ~t.zombie => t.intact /\ t.gameDisconnects = 0
    BY <1>3, <1>4, <1>8 DEF Follows, Grows
  <2>5. t.intact => Outstanding(t) <= R /\ Holds(t.reliableCommands, t.reliableSequence)
    BY <1>3, <1>4, <1>5, <1>8 DEF Follows, Grows
  <2> QED BY <1>1, <1>2, <2>1, <2>2, <2>3, <2>4, <2>5 DEF Advances, Outstanding
<1>9. \A t : Follows(s, t) =>
         /\ t.lastClientCommand = server.lastClientCommand
         /\ t.lastClientCommandString = server.lastClientCommandString
  BY <1>3 DEF Follows, Grows
<1> QED BY <1>3, <1>6, <1>7, <1>8, <1>9 DEF s

\* What is under way stays sound when the server's record advances.
LEMMA ToServerAdvances ==
  ASSUME NEW s \in ServerType, NEW c \in ClientType, NEW t, Advances(s, c, t), NEW m \in Messages,
         s.lastClientCommand <= t.lastClientCommand,
         c.serverCommandSequence <= s.reliableSequence,
         ToServerSound(s, c, m), t.reliableAcknowledge <= m.ack
  PROVE  ToServerSound(t, c, m)
<1>1. /\ s.reliableSequence \in Nat /\ t.reliableSequence \in Nat
      /\ s.lastClientCommand \in Nat /\ t.lastClientCommand \in Nat
      /\ c.serverCommandSequence \in Nat /\ R \in Nat /\ m.ack \in Nat
      /\ m.cmds \in Commands
  BY RingSize DEF ServerType, ClientType, Messages, Advances
<1>2. m.ack <= c.serverCommandSequence /\ m.ack \in 0 .. s.reliableSequence
  BY <1>1 DEF ToServerSound
<1>3. ASSUME t.reliableSequence - m.ack < R PROVE m.key = t.reliableCommands[Slot(m.ack)]
  <2>1. s.reliableSequence - m.ack < R BY <1>1, <1>3 DEF Advances
  <2> QED BY <1>2, <1>3, <2>1 DEF ToServerSound, Advances
<1>4. ASSUME c.intact PROVE NoGap(m.cmds, t.lastClientCommand)
  <2>1. ASSUME NEW n \in DOMAIN m.cmds, NEW k \in t.lastClientCommand + 1 .. n
        PROVE  k \in DOMAIN m.cmds
    <3>1. n \in Nat BY <1>1, CommandsAre
    <3>2. k \in s.lastClientCommand + 1 .. n BY <1>1, <3>1
    <3> QED BY <1>4, <3>2 DEF NoGap, ToServerSound
  <2> QED BY <2>1 DEF NoGap
<1> QED BY <1>2, <1>3, <1>4 DEF ToServerSound

\* The same of what is under way to the client.
LEMMA ToClientAdvances ==
  ASSUME NEW s \in ServerType, NEW c \in ClientType, NEW t, Advances(s, c, t), NEW m \in Messages,
         s.lastClientCommand <= t.lastClientCommand, s.intact,
         ToClientSound(s, c, m)
  PROVE  ToClientSound(t, c, m)
<1>1. /\ s.reliableSequence \in Nat /\ t.reliableSequence \in Nat
      /\ s.lastClientCommand \in Nat /\ t.lastClientCommand \in Nat
      /\ R \in Nat /\ m.ack \in Nat /\ m.cmds \in Commands
  BY RingSize DEF ServerType, ClientType, Messages, Advances
<1>2. m.ack <= t.lastClientCommand BY <1>1 DEF ToClientSound
<1>3. ASSUME NEW n \in DOMAIN m.cmds
      PROVE  /\ n <= t.reliableSequence
             /\ t.reliableSequence - n < R => m.cmds[n] = t.reliableCommands[Slot(n)]
             /\ m.cmds[n] = n
  <2>1. n \in Nat BY <1>1, CommandsAre
  <2>2. n <= s.reliableSequence /\ m.cmds[n] = n BY DEF ToClientSound
  <2>3. n \in 0 .. s.reliableSequence /\ n <= t.reliableSequence BY <1>1, <2>1, <2>2 DEF Advances
  <2>4. ASSUME t.reliableSequence - n < R PROVE m.cmds[n] = t.reliableCommands[Slot(n)]
    <3>1. s.reliableSequence - n < R BY <1>1, <2>1, <2>4 DEF Advances
    <3> QED BY <2>3, <2>4, <3>1 DEF ToClientSound, Advances
  <2> QED BY <2>2, <2>3, <2>4
<1> QED BY <1>2, <1>3 DEF ToClientSound

\* A step of the server that advances its record keeps the invariant.
LEMMA ServerMoves ==
  ASSUME IInv, ~server.zombie, Advances(server, client, server'),
         server'.lastClientCommand \in server.lastClientCommand .. client.reliableSequence,
         client.reliableSequence - server'.lastClientCommand < R =>
           server'.lastClientCommandString = server'.lastClientCommand,
         serverExecuted' \in Seq(Nat),
         client.intact => serverExecuted' = Count(server'.lastClientCommand),
         UNCHANGED <<client, toClient, clientExecuted>>,
         toServer' \in Seq(Messages), Len(toServer') <= MaxInFlight,
         NEW d \in Nat,
         \A i \in 1 .. Len(toServer') :
           /\ i + d \in 1 .. Len(toServer) /\ toServer'[i] = toServer[i + d]
           /\ server'.reliableAcknowledge <= toServer'[i].ack
  PROVE  IInv'
<1>1. /\ server \in ServerType /\ client \in ClientType /\ server' \in ServerType
      /\ server.reliableSequence \in Nat /\ server'.reliableSequence \in Nat
      /\ server.lastClientCommand \in Nat /\ server'.lastClientCommand \in Nat
      /\ client.serverCommandSequence \in Nat /\ client.reliableSequence \in Nat
      /\ client.reliableAcknowledge \in Nat /\ R \in Nat \ {0}
      /\ client.serverCommandSequence <= server.reliableSequence
      /\ server.intact
  BY RingSize DEF IInv, Sound, Types, ServerType, ClientType, Advances, ServerCommands
<1>2. Types(server', client', toClient', toServer', serverExecuted', clientExecuted') BY DEF IInv, Sound, Types, Advances
<1>3. ServerCommands(server', client', clientExecuted')
  <2>1. ASSUME NEW n \in 0 .. client.serverCommandSequence, server'.reliableSequence - n < R
        PROVE  client.serverCommands[Slot(n)] = server'.reliableCommands[Slot(n)]
    <3>1. n \in 0 .. server.reliableSequence /\ server.reliableSequence - n < R
      <4>1. server.reliableSequence <= server'.reliableSequence BY DEF Advances
      <4>2. n \in Nat /\ n <= client.serverCommandSequence BY <1>1, <2>1
      <4> QED BY <1>1, <2>1, <4>1, <4>2
    <3> QED BY <2>1, <3>1 DEF IInv, Sound, ServerCommands, Advances
  <2>2. client.serverCommandSequence <= server'.reliableSequence BY <1>1 DEF Advances
  <2> QED BY <1>1, <2>1, <2>2 DEF IInv, Sound, ServerCommands, Advances
<1>4. ClientCommands(server', client', serverExecuted')
  <2>1. /\ server'.lastClientCommand <= client.reliableSequence
        /\ server.lastClientCommand <= server'.lastClientCommand
    BY <1>1
  <2>2. client.intact => client.reliableAcknowledge <= server'.lastClientCommand
    BY <1>1, <2>1 DEF IInv, Sound, ClientCommands
  <2> QED BY <2>1, <2>2 DEF IInv, Sound, ClientCommands
<1>5. ToServerLink(server', client', toServer')
  <2>1. Len(toServer') \in Nat /\ Len(toServer) \in Nat BY DEF IInv, Sound, Types
  <2>2. ASSUME NEW i \in 1 .. Len(toServer') PROVE ToServerSound(server', client, toServer'[i])
    <3>1. PICK m \in Messages : m = toServer[i + d] BY DEF IInv, Sound, Types
    <3>2. /\ ToServerSound(server, client, m) /\ toServer'[i] = m
          /\ server'.reliableAcknowledge <= m.ack
      BY <3>1 DEF IInv, Sound, ToServerLink
    <3> QED BY <1>1, <3>2, ToServerAdvances
  <2>3. InOrder(toServer')
    <3>1. ASSUME NEW i \in 1 .. Len(toServer'), NEW j \in 1 .. Len(toServer'), i <= j
          PROVE  toServer'[i].ack <= toServer'[j].ack
      <4>1. i + d \in 1 .. Len(toServer) /\ j + d \in 1 .. Len(toServer) /\ i + d <= j + d
        BY <2>1, <3>1
      <4> QED BY <4>1 DEF IInv, Sound, ToServerLink, InOrder
    <3> QED BY <3>1 DEF InOrder
  <2> QED BY <2>2, <2>3 DEF ToServerLink
<1>6. ToClientLink(server', client', toClient')
  <2>1. ASSUME NEW i \in 1 .. Len(toClient) PROVE ToClientSound(server', client, toClient[i])
    <3>1. PICK m \in Messages : m = toClient[i] BY DEF IInv, Sound, Types
    <3>2. ToClientSound(server, client, m) BY <3>1 DEF IInv, Sound, ToClientLink
    <3> QED BY <1>1, <3>1, <3>2, ToClientAdvances
  <2> QED BY <2>1 DEF IInv, Sound, ToClientLink, InOrder
<1> QED BY <1>2, <1>3, <1>4, <1>5, <1>6 DEF IInv, Sound

\* What a link holds after a message is sent.
LEMMA SentInOrder ==
  ASSUME NEW link \in Seq(Messages), Len(link) <= MaxInFlight, NEW m \in Messages,
         InOrder(link), \A i \in 1 .. Len(link) : link[i].ack <= m.ack
  PROVE  LET new == Sent(link, m)
         IN  /\ new \in Seq(Messages) /\ Len(new) <= MaxInFlight /\ InOrder(new)
             /\ \A j \in 1 .. Len(new) :
                  new[j] = m \/ \E i \in 1 .. Len(link) : new[j] = link[i]
<1> DEFINE new == Sent(link, m)
<1>1. /\ new \in Seq(Messages) /\ Len(new) <= MaxInFlight
      /\ Len(new) \in Nat \ {0} /\ new[Len(new)] = m
      /\ \E d \in {0, 1} :
           /\ Len(new) = Len(link) + 1 - d
           /\ \A i \in 1 .. Len(new) - 1 : i + d \in 1 .. Len(link) /\ new[i] = link[i + d]
  BY SentIs
<1> HIDE DEF new
<1>2. PICK d \in {0, 1} :
        \A i \in 1 .. Len(new) - 1 : i + d \in 1 .. Len(link) /\ new[i] = link[i + d]
  BY <1>1
<1>3. \A j \in 1 .. Len(new) : new[j] = m \/ \E i \in 1 .. Len(link) : new[j] = link[i]
  <2> TAKE j \in 1 .. Len(new)
  <2>1. CASE j = Len(new) BY <1>1, <2>1
  <2>2. CASE j # Len(new)
    <3>1. j \in 1 .. Len(new) - 1 BY <1>1, <2>2
    <3> QED BY <1>2, <3>1
  <2> QED BY <2>1, <2>2
<1>4. ASSUME NEW i \in 1 .. Len(new), NEW j \in 1 .. Len(new), i <= j
      PROVE  new[i].ack <= new[j].ack
  <2>1. CASE j = Len(new)
    <3>1. m.ack <= m.ack BY DEF Messages
    <3> QED BY <1>1, <1>3, <2>1, <3>1
  <2>2. CASE j # Len(new)
    <3>1. i \in 1 .. Len(new) - 1 /\ j \in 1 .. Len(new) - 1 BY <1>1, <1>4, <2>2
    <3>2. /\ new[i] = link[i + d] /\ new[j] = link[j + d] /\ i + d <= j + d
          /\ i + d \in 1 .. Len(link) /\ j + d \in 1 .. Len(link)
      BY <1>1, <1>2, <1>4, <3>1
    <3> QED BY <3>2 DEF InOrder
  <2> QED BY <2>1, <2>2
<1> QED BY <1>1, <1>3, <1>4 DEF InOrder, new

\* What is left behind a message that arrives is newer.
LEMMA AfterInOrder ==
  ASSUME NEW link \in Seq(Messages), NEW i \in 1 .. Len(link), Len(link) <= MaxInFlight,
         InOrder(link)
  PROVE  LET new == After(link, i)
         IN  /\ new \in Seq(Messages) /\ Len(new) <= MaxInFlight /\ InOrder(new)
             /\ \A j \in 1 .. Len(new) :
                  /\ j + i \in 1 .. Len(link) /\ new[j] = link[j + i]
                  /\ link[i].ack <= new[j].ack
<1> DEFINE new == After(link, i)
<1>1. /\ new \in Seq(Messages) /\ Len(new) <= MaxInFlight /\ Len(new) = Len(link) - i
      /\ \A j \in 1 .. Len(new) : i + j \in 1 .. Len(link) /\ new[j] = link[i + j]
  BY AfterIs
<1> HIDE DEF new
<1>2. Len(link) \in Nat OBVIOUS
<1>3. \A j \in 1 .. Len(new) :
         j + i \in 1 .. Len(link) /\ i <= j + i /\ new[j] = link[j + i]
  BY <1>1, <1>2
<1>4. \A j \in 1 .. Len(new) : link[i].ack <= new[j].ack BY <1>3 DEF InOrder
<1>5. \A j, k \in 1 .. Len(new) : j <= k => j + i <= k + i BY <1>1, <1>2
<1>6. InOrder(new) BY <1>3, <1>5 DEF InOrder
<1> QED BY <1>1, <1>3, <1>4, <1>6 DEF new

----------------------------------------------------------------------------
(* The steps of the server.                                                *)

\* The invariant holds at the start.
LEMMA InitHolds == Init => IInv
<1> SUFFICES ASSUME Init PROVE IInv OBVIOUS
<1>1. R \in Nat \ {0} /\ EmptyRing \in Ring /\ \A k \in Slots : EmptyRing[k] = 0
  BY RingSize DEF EmptyRing, Ring
<1>2. server \in ServerType BY <1>1 DEF Init, ServerType
<1>3. client \in ClientType BY <1>1 DEF Init, ClientType
<1>4. MaxInFlight \in Nat /\ Len(toClient) = 0 /\ Len(toServer) = 0
  BY ReliableAssumption DEF Init
<1>5. Types(server, client, toClient, toServer, serverExecuted, clientExecuted)
  BY <1>2, <1>3, <1>4 DEF Init, Types
<1>6. Holds(EmptyRing, 0)
  <2>1. Slot(0) \in Slots BY RingSize
  <2> QED BY <1>1, <2>1 DEF Holds
<1>7. Count(0) = <<>> BY DEF Count
<1>8. ServerCommands(server, client, clientExecuted)
  BY <1>1, <1>6, <1>7 DEF Init, ServerCommands
<1>9. ClientCommands(server, client, serverExecuted)
  BY <1>1, <1>6, <1>7 DEF Init, ClientCommands
<1>10. ToServerLink(server, client, toServer) /\ ToClientLink(server, client, toClient)
  BY <1>4 DEF ToServerLink, ToClientLink, InOrder
<1> QED BY <1>5, <1>8, <1>9, <1>10 DEF IInv, Sound

\* The server adds a command, or drops the client.
LEMMA ServerAddsOrDrops ==
  ASSUME IInv, ServerAdds \/ ServerDrops
  PROVE  IInv'
<1>1. ~server.zombie /\ UNCHANGED <<client, toClient, toServer, serverExecuted, clientExecuted>>
  BY DEF ServerAdds, ServerDrops
<1>2. /\ server \in ServerType /\ client \in ClientType
      /\ server.reliableAcknowledge \in server.reliableAcknowledge .. client.serverCommandSequence
      /\ server = [server EXCEPT !.reliableAcknowledge = server.reliableAcknowledge]
  BY DEF IInv, Sound, Types, ServerCommands, ServerType, ClientType
<1>3. Served(server) BY <1>1, <1>2, Acknowledged DEF IInv, Sound
<1>4. Follows(server, server')
  <2>1. CASE ServerAdds BY <1>3, <2>1, AddFollows DEF ServerAdds
  <2>2. CASE ServerDrops BY <1>3, <2>2, DropFollows DEF ServerDrops
  <2> QED BY <2>1, <2>2
<1>5. /\ Advances(server, client, server')
      /\ server'.lastClientCommand = server.lastClientCommand
      /\ server'.lastClientCommandString = server.lastClientCommandString
      /\ server'.reliableAcknowledge = server.reliableAcknowledge
  BY <1>1, <1>2, <1>4, Acknowledged DEF IInv, Sound, Follows, Grows
<1>6. \A i \in 1 .. Len(toServer) :
        i + 0 \in 1 .. Len(toServer) /\ toServer[i + 0] = toServer[i]
  OBVIOUS
<1>7. \A i \in 1 .. Len(toServer) : server.reliableAcknowledge <= toServer[i].ack
  BY DEF IInv, Sound, ToServerLink, ToServerSound
<1>8. server.lastClientCommand \in server.lastClientCommand .. client.reliableSequence
  BY <1>2 DEF IInv, Sound, ClientCommands, ServerType, ClientType
<1>9. /\ client.reliableSequence - server.lastClientCommand < R =>
           server.lastClientCommandString = server.lastClientCommand
      /\ client.intact => serverExecuted = Count(server.lastClientCommand)
      /\ serverExecuted \in Seq(Nat) /\ toServer \in Seq(Messages)
      /\ Len(toServer) <= MaxInFlight
  BY DEF IInv, Sound, ClientCommands, Types
<1> QED BY <1>1, <1>5, <1>6, <1>7, <1>8, <1>9, ServerMoves

\* The server's message carries its record of the client's commands, and its
\* own from the oldest that is not acknowledged.
LEMMA ServerSendsHolds ==
  ASSUME IInv, ServerSends
  PROVE  IInv'
<1> DEFINE m == [ack  |-> server.lastClientCommand,
                 key  |-> server.lastClientCommandString,
                 cmds |-> Unacknowledged(server)]
<1>1. /\ toClient' = Sent(toClient, m)
      /\ UNCHANGED <<server, client, toServer, serverExecuted, clientExecuted>>
  BY DEF ServerSends
<1>2. /\ server \in ServerType /\ client \in ClientType
      /\ toClient \in Seq(Messages) /\ Len(toClient) <= MaxInFlight
      /\ server.reliableSequence \in Nat /\ server.reliableAcknowledge \in Nat
      /\ server.reliableCommands \in Ring /\ client.serverCommandSequence \in Nat
      /\ R \in Nat \ {0}
  BY RingSize DEF IInv, Sound, Types, ServerType, ClientType
<1>3. /\ m.cmds \in Commands
      /\ DOMAIN m.cmds = server.reliableAcknowledge + 1 .. server.reliableSequence
      /\ \A n \in DOMAIN m.cmds : n \in Nat /\ m.cmds[n] = server.reliableCommands[Slot(n)]
  BY <1>2, UnacknowledgedIs
<1>4. m \in Messages BY <1>2, <1>3 DEF Messages, ServerType
<1>5. m.ack = server.lastClientCommand /\ m.key = server.lastClientCommandString OBVIOUS
<1> HIDE DEF m
<1>6. ToClientSound(server, client, m)
  <2>1. NoGap(m.cmds, client.serverCommandSequence)
    BY <1>2, <1>3 DEF NoGap, IInv, Sound, ServerCommands
  <2>2. ASSUME NEW n \in DOMAIN m.cmds, server.intact PROVE m.cmds[n] = n
    <3>1. n \in 0 .. server.reliableSequence /\ server.reliableSequence - n < R
      BY <1>2, <1>3, <2>2 DEF IInv, Sound, ServerCommands
    <3> QED BY <1>3, <2>2, <3>1 DEF IInv, Sound, ServerCommands, Holds
  <2>3. \A n \in DOMAIN m.cmds : n <= server.reliableSequence BY <1>2, <1>3
  <2>4. m.ack <= server.lastClientCommand BY <1>2, <1>5 DEF ServerType
  <2> QED BY <1>3, <1>5, <2>1, <2>2, <2>3, <2>4 DEF ToClientSound, IInv, Sound, ClientCommands
<1>7. \A i \in 1 .. Len(toClient) : toClient[i].ack <= m.ack
  BY <1>5 DEF IInv, Sound, ToClientLink, ToClientSound
<1>8. /\ toClient' \in Seq(Messages) /\ Len(toClient') <= MaxInFlight /\ InOrder(toClient')
      /\ \A j \in 1 .. Len(toClient') :
           toClient'[j] = m \/ \E i \in 1 .. Len(toClient) : toClient'[j] = toClient[i]
  BY <1>1, <1>2, <1>4, <1>7, SentInOrder DEF IInv, Sound, ToClientLink
<1>9. \A j \in 1 .. Len(toClient') : ToClientSound(server, client, toClient'[j])
  BY <1>6, <1>8 DEF IInv, Sound, ToClientLink
<1>10. ToClientLink(server', client', toClient') BY <1>1, <1>8, <1>9 DEF ToClientLink
<1>11. Types(server', client', toClient', toServer', serverExecuted', clientExecuted') BY <1>1, <1>8 DEF IInv, Sound, Types
<1>12. ServerCommands(server', client', clientExecuted') /\ ClientCommands(server', client', serverExecuted') /\ ToServerLink(server', client', toServer')
  BY <1>1 DEF IInv, Sound, ServerCommands, ClientCommands, ToServerLink
<1> QED BY <1>10, <1>11, <1>12 DEF IInv, Sound

\* The server executes the commands of a message.
LEMMA ServerExecutesHolds ==
  ASSUME IInv, NEW m \in Messages, ToServerSound(server, client, m),
         NEW s, Served(s), Advances(server, client, s),
         s.lastClientCommand = server.lastClientCommand,
         s.lastClientCommandString = server.lastClientCommandString,
         \A t : Follows(s, t) =>
           /\ Advances(server, client, t)
           /\ t.lastClientCommand = server.lastClientCommand
           /\ t.lastClientCommandString = server.lastClientCommandString,
         ServerExecutes(s, m.cmds)
  PROVE  /\ Advances(server, client, server')
         /\ server'.reliableAcknowledge = s.reliableAcknowledge
         /\ server'.lastClientCommand \in server.lastClientCommand .. client.reliableSequence
         /\ client.reliableSequence - server'.lastClientCommand < R =>
              server'.lastClientCommandString = server'.lastClientCommand
         /\ serverExecuted' \in Seq(Nat)
         /\ client.intact => serverExecuted' = Count(server'.lastClientCommand)
<1> DEFINE cmds == m.cmds
           new  == {n \in DOMAIN cmds : n > s.lastClientCommand}
           quit == {n \in new : cmds[n] = client.bye /\ client.bye # 0}
           last == IF quit # {} THEN Oldest(quit) ELSE Newest(new)
           l    == s.lastClientCommand
<1>1. /\ s \in ServerType /\ client \in ClientType /\ l \in Nat
      /\ client.reliableSequence \in Nat /\ R \in Nat /\ serverExecuted \in Seq(Nat)
      /\ l <= client.reliableSequence
      /\ client.reliableSequence - l < R => s.lastClientCommandString = l
      /\ client.intact => serverExecuted = Count(l)
  BY RingSize DEF IInv, Sound, Types, ServerType, ClientType, Served, ClientCommands
<1>2. l \in l .. client.reliableSequence BY <1>1
<1>3. CASE server' = s /\ UNCHANGED serverExecuted BY <1>1, <1>2, <1>3
<1>4. CASE server' = SV_DropClient(s) /\ UNCHANGED serverExecuted
  <2>1. Follows(s, server') /\ server'.reliableAcknowledge = s.reliableAcknowledge
    BY <1>4, DropFollows DEF Follows, Grows
  <2> QED BY <1>1, <1>2, <1>4, <2>1
<1>5. CASE /\ new # {} /\ l + 1 \in new
           /\ server' = [(IF quit # {} THEN SV_DropClient(s) ELSE s)
                           EXCEPT !.lastClientCommand = last,
                                  !.lastClientCommandString = cmds[last]]
           /\ serverExecuted' = serverExecuted \o [i \in 1 .. last - l |-> cmds[l + i]]
  <2>1. /\ cmds \in Commands
        /\ \A n \in DOMAIN cmds : n \in Nat /\ n <= client.reliableSequence /\ cmds[n] \in Nat
    BY CommandsAre DEF Messages, ToServerSound
  <2>2. new \in SUBSET Nat /\ \A n \in new : n <= client.reliableSequence BY <2>1
  <2>3. last \in new
    <3>1. CASE quit # {}
      <4>1. quit \in SUBSET Nat BY <2>2
      <4> QED BY <3>1, <4>1, OldestIs
    <3>2. CASE quit = {} BY <1>1, <1>5, <2>2, <3>2, NewestIs
    <3> QED BY <3>1, <3>2
  <2> HIDE DEF last
  <2>4. last \in Nat /\ last > l /\ last <= client.reliableSequence /\ cmds[last] \in Nat
    BY <2>1, <2>3
  <2>5. \A j \in l + 1 .. last : j \in DOMAIN cmds
    BY <1>5, <2>1, <2>3, CommandsAre
  <2>6. PICK t : /\ t = IF quit # {} THEN SV_DropClient(s) ELSE s
                 /\ Advances(server, client, t)
                 /\ t.reliableAcknowledge = s.reliableAcknowledge
    <3>1. CASE quit # {} BY <3>1, DropFollows DEF Follows, Grows
    <3>2. CASE quit = {} BY <3>2
    <3> QED BY <3>1, <3>2
  <2>7. /\ t \in ServerType
        /\ server' = [t EXCEPT !.lastClientCommand = last, !.lastClientCommandString = cmds[last]]
    BY <1>5, <2>6 DEF Advances
  <2> HIDE DEF cmds
  <2>8. /\ server' \in ServerType
        /\ server'.lastClientCommand = last /\ server'.lastClientCommandString = cmds[last]
        /\ server'.reliableSequence = t.reliableSequence
        /\ server'.reliableAcknowledge = t.reliableAcknowledge
        /\ server'.reliableCommands = t.reliableCommands
        /\ server'.zombie = t.zombie /\ server'.byes = t.byes
        /\ server'.gameDisconnects = t.gameDisconnects /\ server'.intact = t.intact
    BY <2>4, <2>7 DEF ServerType
  <2>9. Advances(server, client, server') BY <2>6, <2>8 DEF Advances
  <2>10. client.reliableSequence - last < R => cmds[last] = last
    BY <2>3 DEF ToServerSound, cmds
  <2> DEFINE more == [i \in 1 .. last - l |-> cmds[l + i]]
  <2>11. last - l \in Nat /\ \A i \in 1 .. last - l : l + i \in l + 1 .. last BY <1>1, <2>4
  <2>12. more \in Seq(Nat)
    <3>1. \A i \in 1 .. last - l : cmds[l + i] \in Nat BY <2>1, <2>5, <2>11
    <3> QED BY <2>11, <3>1
  <2>13. serverExecuted' \in Seq(Nat)
    <3> HIDE DEF more
    <3>1. serverExecuted' = serverExecuted \o more BY <1>5 DEF more
    <3> QED BY <1>1, <2>12, <3>1, ConcatProperties
  <2>14. ASSUME client.intact PROVE serverExecuted' = Count(last)
    <3>1. \A i \in 1 .. last - l : cmds[l + i] = l + i
      BY <2>5, <2>11, <2>14 DEF ToServerSound, cmds
    <3>2. more = [i \in 1 .. last - l |-> l + i] BY <3>1
    <3>3. serverExecuted' = Count(l) \o [i \in 1 .. last - l |-> l + i]
      BY <1>1, <1>5, <2>14, <3>2
    <3>4. l + (last - l) = last BY <1>1, <2>4
    <3> QED BY <1>1, <2>11, <3>3, <3>4, CountOn
  <2> QED BY <1>1, <2>4, <2>6, <2>8, <2>9, <2>10, <2>13, <2>14
<1> QED BY <1>3, <1>4, <1>5 DEF ServerExecutes

\* The server takes a message, whoever sent it and whatever becomes of it.
LEMMA ServerReceivesHolds ==
  ASSUME IInv, NEW i \in 1 .. Len(toServer), ServerReceives(i)
  PROVE  IInv'
<1>1. /\ toServer \in Seq(Messages) /\ Len(toServer) <= MaxInFlight /\ InOrder(toServer)
      /\ server \in ServerType /\ client \in ClientType
      /\ server.reliableSequence \in Nat /\ server.reliableAcknowledge \in Nat
      /\ client.serverCommandSequence \in Nat /\ client.reliableSequence \in Nat
      /\ server.lastClientCommand \in Nat /\ R \in Nat \ {0}
  BY RingSize DEF IInv, Sound, Types, ToServerLink, ServerType, ClientType
<1>2. PICK m \in Messages : m = toServer[i] BY <1>1
<1>3. ToServerSound(server, client, m) /\ m.ack \in Nat
  BY <1>2 DEF IInv, Sound, ToServerLink, Messages
<1>4. /\ toServer' = After(toServer, i) /\ UNCHANGED <<client, toClient, clientExecuted>>
  BY DEF ServerReceives
<1>5. /\ toServer' \in Seq(Messages) /\ Len(toServer') <= MaxInFlight /\ InOrder(toServer')
      /\ \A j \in 1 .. Len(toServer') :
           /\ j + i \in 1 .. Len(toServer) /\ toServer'[j] = toServer[j + i]
           /\ m.ack <= toServer'[j].ack
  BY <1>1, <1>2, <1>4, AfterInOrder
<1>6. CASE server.zombie
  <2>1. UNCHANGED <<server, serverExecuted>> BY <1>6 DEF ServerReceives
  <2>2. Types(server', client', toClient', toServer', serverExecuted', clientExecuted')
    BY <1>4, <1>5, <2>1 DEF IInv, Sound, Types
  <2>3. \A j \in 1 .. Len(toServer') : ToServerSound(server, client, toServer'[j])
    BY <1>5 DEF IInv, Sound, ToServerLink
  <2> QED BY <1>4, <1>5, <2>1, <2>2, <2>3 DEF IInv, Sound, ToServerLink
<1>7. CASE ~server.zombie
  <2> DEFINE s == [server EXCEPT !.reliableAcknowledge = m.ack]
  <2>1. m.ack \in server.reliableAcknowledge .. client.serverCommandSequence
    BY <1>1, <1>3 DEF ToServerSound
  <2>2. /\ Served(s) /\ Advances(server, client, s) /\ s.reliableAcknowledge = m.ack
        /\ s.lastClientCommand = server.lastClientCommand
        /\ s.lastClientCommandString = server.lastClientCommandString
        /\ \A t : Follows(s, t) =>
             /\ Advances(server, client, t)
             /\ t.lastClientCommand = server.lastClientCommand
             /\ t.lastClientCommandString = server.lastClientCommandString
    BY <1>1, <1>7, <2>1, Acknowledged DEF ServerType
  <2>3. ~(m.ack < server.reliableSequence - R)
    BY <1>1, <1>3, <1>7, <2>1 DEF IInv, Sound, ServerCommands
  <2>4. \/ server' \in {s, SV_DropClient(s)} /\ UNCHANGED serverExecuted
        \/ ServerExecutes(s, m.cmds)
    BY <1>2, <1>7, <2>3 DEF ServerReceives
  <2> HIDE DEF s
  <2>5. /\ Advances(server, client, server')
        /\ server'.reliableAcknowledge = m.ack
        /\ server'.lastClientCommand \in server.lastClientCommand .. client.reliableSequence
        /\ client.reliableSequence - server'.lastClientCommand < R =>
             server'.lastClientCommandString = server'.lastClientCommand
        /\ serverExecuted' \in Seq(Nat)
        /\ client.intact => serverExecuted' = Count(server'.lastClientCommand)
    <3>1. CASE ServerExecutes(s, m.cmds)
      BY <1>3, <2>2, <3>1, ServerExecutesHolds
    <3>2. CASE server' \in {s, SV_DropClient(s)} /\ UNCHANGED serverExecuted
      <4>1. /\ Advances(server, client, server') /\ server'.reliableAcknowledge = m.ack
            /\ server'.lastClientCommand = server.lastClientCommand
            /\ server'.lastClientCommandString = server.lastClientCommandString
        <5>1. CASE server' = s BY <2>2, <5>1
        <5>2. CASE server' = SV_DropClient(s) BY <2>2, <5>2, DropFollows DEF Follows, Grows
        <5> QED BY <3>2, <5>1, <5>2
      <4>2. server.lastClientCommand \in server.lastClientCommand .. client.reliableSequence
        BY <1>1 DEF IInv, Sound, ClientCommands
      <4> QED BY <3>2, <4>1, <4>2 DEF IInv, Sound, Types, ClientCommands
    <3> QED BY <2>4, <3>1, <3>2
  <2>6. i \in Nat OBVIOUS
  <2> QED BY <1>4, <1>5, <1>7, <2>5, <2>6, ServerMoves
<1> QED BY <1>6, <1>7

----------------------------------------------------------------------------
(* The steps of the client.                                                *)

\* A command goes into the client's ring, that has at most one too many.
LEMMA ClientStores ==
  ASSUME NEW s, NEW c, NEW tc, NEW ts, NEW sx, NEW cx, Sound(s, c, tc, ts, sx, cx), ~Refuses(c),
         NEW b \in Nat, NEW st \in {"active", "left", "fatal"},
         NEW d, d = Stored(c) \/ d = [Stored(c) EXCEPT !.bye = b, !.state = st]
  PROVE  Sound(s, d, tc, ts, sx, cx)
<1>1. /\ s \in ServerType /\ c \in ClientType /\ c.reliableSequence \in Nat
      /\ c.reliableAcknowledge \in Nat /\ c.reliableCommands \in Ring
      /\ s.lastClientCommand \in Nat /\ R \in Nat \ {0}
      /\ c.reliableSequence - c.reliableAcknowledge <= R
  <2>1. s \in ServerType /\ c \in ClientType BY DEF Sound, Types
  <2>2. s.lastClientCommand \in Nat BY <2>1 DEF ServerType
  <2>3. c.reliableSequence \in Nat /\ c.reliableAcknowledge \in Nat /\ c.reliableCommands \in Ring
    BY <2>1 DEF ClientType
  <2>4. c.reliableSequence - c.reliableAcknowledge <= R
    BY <2>3, RingSize DEF Refuses, Outstanding
  <2> QED BY <2>1, <2>2, <2>3, <2>4, RingSize
<1> DEFINE n    == c.reliableSequence + 1
           ring == [c.reliableCommands EXCEPT ![Slot(n)] = n]
           ok   == c.intact /\ Outstanding(c) < R
           e    == [c EXCEPT !.reliableSequence = n, !.reliableCommands = ring, !.intact = ok]
<1>2. /\ n \in Nat /\ n = c.reliableSequence + 1 /\ ring \in Ring /\ ok \in BOOLEAN
      /\ Holds(c.reliableCommands, c.reliableSequence) => Holds(ring, n)
      /\ ok <=> c.intact /\ c.reliableSequence - c.reliableAcknowledge < R
  <2>1. ring \in Ring /\ (Holds(c.reliableCommands, c.reliableSequence) => Holds(ring, n))
    BY <1>1, StoredInRing
  <2>2. ok \in BOOLEAN /\ (ok <=> c.intact /\ c.reliableSequence - c.reliableAcknowledge < R)
    BY DEF Outstanding
  <2> QED BY <1>1, <2>1, <2>2
<1>3. Stored(c) = e BY DEF Stored, ClientType
<1> HIDE DEF n, ring, ok
<1>4. /\ e \in ClientType /\ e.reliableSequence = n /\ e.reliableCommands = ring
      /\ e.intact = ok /\ e.reliableAcknowledge = c.reliableAcknowledge
      /\ e.serverCommandSequence = c.serverCommandSequence
      /\ e.serverCommands = c.serverCommands
      /\ e.lastExecutedServerCommand = c.lastExecutedServerCommand
  BY <1>1, <1>2 DEF ClientType
<1> HIDE DEF e
<1>5. /\ d \in ClientType /\ d.reliableSequence = n /\ d.reliableCommands = ring
      /\ d.intact = ok /\ d.reliableAcknowledge = c.reliableAcknowledge
      /\ d.serverCommandSequence = c.serverCommandSequence
      /\ d.serverCommands = c.serverCommands
      /\ d.lastExecutedServerCommand = c.lastExecutedServerCommand
  <2>1. CASE d = e BY <1>4, <2>1
  <2>2. CASE d = [e EXCEPT !.bye = b, !.state = st] BY <1>4, <2>2 DEF ClientType
  <2> QED BY <1>3, <2>1, <2>2
<1>6. Types(s, d, tc, ts, sx, cx) BY <1>5 DEF Sound, Types
<1>7. ServerCommands(s, d, cx) BY <1>5 DEF Sound, ServerCommands
<1>8. ClientCommands(s, d, sx) BY <1>1, <1>2, <1>5 DEF Sound, ClientCommands
<1>9. ASSUME NEW m \in Messages, ToServerSound(s, c, m) PROVE ToServerSound(s, d, m)
  <2>1. ASSUME NEW k \in DOMAIN m.cmds
        PROVE  k <= d.reliableSequence /\ (d.reliableSequence - k < R => m.cmds[k] = k)
    <3>1. k \in Nat /\ k <= c.reliableSequence
          /\ (c.reliableSequence - k < R => m.cmds[k] = k)
      BY <1>9, CommandsAre DEF Messages, ToServerSound
    <3> QED BY <1>1, <1>2, <1>5, <3>1
  <2> QED BY <1>2, <1>5, <1>9, <2>1 DEF ToServerSound
<1>10. ASSUME NEW m \in Messages, ToClientSound(s, c, m) PROVE ToClientSound(s, d, m)
  <2>1. m.ack \in Nat BY DEF Messages
  <2>2. d.reliableSequence - m.ack < R => m.key = m.ack
    BY <1>1, <1>2, <1>5, <1>10, <2>1 DEF ToClientSound
  <2> QED BY <1>2, <1>5, <1>10, <2>2 DEF ToClientSound
<1>11. ToServerLink(s, d, ts) /\ ToClientLink(s, d, tc)
  BY <1>9, <1>10 DEF Sound, Types, ToServerLink, ToClientLink
<1> QED BY <1>6, <1>7, <1>8, <1>11 DEF Sound

\* The client's message acknowledges the newest command it has, and carries
\* its own from the oldest that is not acknowledged.
LEMMA ClientMessageSent ==
  ASSUME NEW s, NEW c, NEW tc, NEW ts, NEW sx, NEW cx, Sound(s, c, tc, ts, sx, cx)
  PROVE  Sound(s, c, tc, Sent(ts, ClientMessage(c)), sx, cx)
<1> DEFINE m == ClientMessage(c)
<1>1. /\ s \in ServerType /\ c \in ClientType /\ c.reliableSequence \in Nat
      /\ c.reliableAcknowledge \in Nat /\ c.reliableCommands \in Ring
      /\ c.serverCommandSequence \in Nat /\ c.serverCommands \in Ring
      /\ s.lastClientCommand \in Nat /\ R \in Nat \ {0}
      /\ ts \in Seq(Messages) /\ Len(ts) <= MaxInFlight
  BY RingSize DEF Sound, Types, ServerType, ClientType
<1>2. /\ m.cmds \in Commands
      /\ DOMAIN m.cmds = c.reliableAcknowledge + 1 .. c.reliableSequence
      /\ \A n \in DOMAIN m.cmds : n \in Nat /\ m.cmds[n] = c.reliableCommands[Slot(n)]
  BY <1>1, UnacknowledgedIs DEF ClientMessage
<1>3. /\ m.ack = c.serverCommandSequence
      /\ m.key = c.serverCommands[Slot(c.serverCommandSequence)] /\ m.key \in Nat
  BY <1>1, RingSize DEF ClientMessage, Ring
<1>4. m \in Messages BY <1>1, <1>2, <1>3 DEF Messages, ClientMessage
<1> HIDE DEF m
<1>5. ToServerSound(s, c, m)
  <2>1. s.reliableAcknowledge <= m.ack /\ m.ack <= c.serverCommandSequence
    BY <1>1, <1>3 DEF Sound, ServerCommands
  <2>2. s.reliableSequence - m.ack < R => m.key = s.reliableCommands[Slot(m.ack)]
    <3>1. c.serverCommandSequence \in 0 .. c.serverCommandSequence BY <1>1
    <3> QED BY <1>3, <3>1 DEF Sound, ServerCommands
  <2>3. ASSUME NEW n \in DOMAIN m.cmds
        PROVE  /\ n <= c.reliableSequence
               /\ c.reliableSequence - n < R => m.cmds[n] = n
               /\ c.intact => c.reliableSequence - n < R
    <3>1. n \in c.reliableAcknowledge + 1 .. c.reliableSequence /\ n \in 0 .. c.reliableSequence
      BY <1>1, <1>2
    <3>2. c.intact => c.reliableSequence - n < R BY <1>1, <3>1 DEF Sound, ClientCommands
    <3>3. c.reliableSequence - n < R => m.cmds[n] = n
      BY <1>2, <3>1 DEF Sound, ClientCommands, Holds
    <3> QED BY <1>1, <3>1, <3>2, <3>3
  <2>4. c.intact => NoGap(m.cmds, s.lastClientCommand)
    BY <1>1, <1>2 DEF NoGap, Sound, ClientCommands
  <2> QED BY <2>1, <2>2, <2>3, <2>4 DEF ToServerSound
<1>6. \A i \in 1 .. Len(ts) : ts[i].ack <= m.ack
  BY <1>3 DEF Sound, ToServerLink, ToServerSound
<1> DEFINE new == Sent(ts, m)
<1>7. /\ new \in Seq(Messages) /\ Len(new) <= MaxInFlight /\ InOrder(new)
      /\ \A j \in 1 .. Len(new) : new[j] = m \/ \E i \in 1 .. Len(ts) : new[j] = ts[i]
  BY <1>1, <1>4, <1>6, SentInOrder DEF Sound, ToServerLink
<1> HIDE DEF new
<1>8. ToServerLink(s, c, new)
  BY <1>5, <1>7 DEF Sound, ToServerLink
<1>9. Types(s, c, tc, new, sx, cx) BY <1>7 DEF Sound, Types
<1>10. Sound(s, c, tc, new, sx, cx) BY <1>8, <1>9 DEF Sound
<1> QED BY <1>10 DEF new, m

\* The client leaves, of its own will or for an error.
LEMMA Disconnects ==
  ASSUME NEW c, Sound(server, c, toClient', toServer, serverExecuted, clientExecuted'),
         CL_Disconnect(c), UNCHANGED <<server, serverExecuted>>
  PROVE  IInv'
<1>1. c \in ClientType /\ c.reliableSequence + 1 \in Nat BY DEF Sound, Types, ClientType
<1>2. CASE Refuses(c)
  <2>1. client' = [c EXCEPT !.state = "fatal"] /\ UNCHANGED toServer
    BY <1>2 DEF CL_Disconnect
  <2>2. /\ client' \in ClientType /\ client'.reliableSequence = c.reliableSequence
        /\ client'.reliableAcknowledge = c.reliableAcknowledge
        /\ client'.reliableCommands = c.reliableCommands
        /\ client'.serverCommandSequence = c.serverCommandSequence
        /\ client'.serverCommands = c.serverCommands
        /\ client'.lastExecutedServerCommand = c.lastExecutedServerCommand
        /\ client'.intact = c.intact
    BY <1>1, <2>1 DEF ClientType
  <2>3. /\ Types(server, client', toClient', toServer, serverExecuted, clientExecuted')
        /\ ServerCommands(server, client', clientExecuted')
        /\ ClientCommands(server, client', serverExecuted)
    BY <2>2 DEF Sound, Types, ServerCommands, ClientCommands
  <2>4. /\ ToServerLink(server, client', toServer)
        /\ ToClientLink(server, client', toClient')
    BY <2>2 DEF Sound, ToServerLink, ToClientLink, ToServerSound, ToClientSound
  <2> QED BY <2>1, <2>3, <2>4 DEF Sound, IInv
<1>3. CASE ~Refuses(c)
  <2> DEFINE d == [Stored(c) EXCEPT !.bye = c.reliableSequence + 1, !.state = "left"]
  <2>1. client' = d /\ toServer' = Sent(toServer, ClientMessage(d))
    BY <1>3 DEF CL_Disconnect
  <2>2. Sound(server, d, toClient', toServer, serverExecuted, clientExecuted')
    BY <1>1, <1>3, ClientStores
  <2> HIDE DEF d
  <2>3. Sound(server, d, toClient', Sent(toServer, ClientMessage(d)), serverExecuted, clientExecuted')
    BY <2>2, ClientMessageSent
  <2> QED BY <2>1, <2>3 DEF IInv
<1> QED BY <1>2, <1>3

\* The client adds a command, leaves, or sends a message.
LEMMA ClientActs ==
  ASSUME IInv, ClientAdds \/ ClientLeaves \/ ClientSends
  PROVE  IInv'
<1>1. CASE ClientAdds
  <2>1. CASE Refuses(client)
    BY <1>1, <2>1, Disconnects DEF ClientAdds, Com_Error, IInv
  <2>2. CASE ~Refuses(client)
    <3>1. /\ client' = Stored(client)
          /\ UNCHANGED <<server, toClient, toServer, serverExecuted, clientExecuted>>
      BY <1>1, <2>2 DEF ClientAdds
    <3>2. Sound(server, client', toClient, toServer, serverExecuted, clientExecuted)
      BY <2>2, <3>1, ClientStores DEF IInv
    <3> QED BY <3>1, <3>2 DEF IInv
  <2> QED BY <2>1, <2>2
<1>2. CASE ClientLeaves BY <1>2, Disconnects DEF ClientLeaves, IInv
<1>3. CASE ClientSends BY <1>3, ClientMessageSent DEF ClientSends, IInv
<1> QED BY <1>1, <1>2, <1>3

\* A message arrives: what it acknowledges, and what is left behind it.
LEMMA ClientAcknowledges ==
  ASSUME NEW s, NEW c, NEW tc, NEW ts, NEW sx, NEW cx, Sound(s, c, tc, ts, sx, cx),
         NEW i \in 1 .. Len(tc), NEW m \in Messages, m = tc[i],
         NEW d, d = [c EXCEPT !.reliableAcknowledge =
                       IF m.ack < c.reliableSequence - R THEN c.reliableSequence ELSE m.ack]
  PROVE  Sound(s, d, After(tc, i), ts, sx, cx) /\ ToClientSound(s, d, m)
<1>1. /\ s \in ServerType /\ c \in ClientType /\ c.reliableSequence \in Nat
      /\ c.reliableAcknowledge \in Nat /\ s.lastClientCommand \in Nat /\ R \in Nat \ {0}
      /\ tc \in Seq(Messages) /\ Len(tc) <= MaxInFlight /\ InOrder(tc)
      /\ s.lastClientCommand <= c.reliableSequence
      /\ m.ack \in Nat /\ ToClientSound(s, c, m)
  BY RingSize DEF Sound, Types, ServerType, ClientType, Messages, ToClientLink, ClientCommands
<1> DEFINE a == IF m.ack < c.reliableSequence - R THEN c.reliableSequence ELSE m.ack
<1>2. /\ a \in Nat /\ a <= c.reliableSequence /\ c.reliableSequence - a <= R
      /\ m.ack <= s.lastClientCommand
      /\ c.intact => a = m.ack
  BY <1>1 DEF ToClientSound, Sound, ClientCommands
<1> HIDE DEF a
<1>3. /\ d \in ClientType /\ d.reliableAcknowledge = a
      /\ d.reliableSequence = c.reliableSequence /\ d.reliableCommands = c.reliableCommands
      /\ d.serverCommandSequence = c.serverCommandSequence
      /\ d.serverCommands = c.serverCommands /\ d.intact = c.intact
      /\ d.lastExecutedServerCommand = c.lastExecutedServerCommand
  <2>1. d = [c EXCEPT !.reliableAcknowledge = a] BY DEF a
  <2> QED BY <1>1, <1>2, <2>1 DEF ClientType
<1> DEFINE new == After(tc, i)
<1>4. /\ new \in Seq(Messages) /\ Len(new) <= MaxInFlight /\ InOrder(new)
      /\ \A j \in 1 .. Len(new) :
           j + i \in 1 .. Len(tc) /\ new[j] = tc[j + i] /\ m.ack <= new[j].ack
  BY <1>1, AfterInOrder
<1> HIDE DEF new
<1>5. \A k \in Messages : ToClientSound(s, c, k) /\ m.ack <= k.ack => ToClientSound(s, d, k)
  BY <1>2, <1>3 DEF ToClientSound
<1>6. ToClientSound(s, d, m)
  <2>1. m.ack <= m.ack BY <1>1
  <2> QED BY <1>1, <1>5, <2>1
<1>7. \A j \in 1 .. Len(new) : ToClientSound(s, d, new[j])
  <2> TAKE j \in 1 .. Len(new)
  <2>1. PICK k \in 1 .. Len(tc) : new[j] = tc[k] /\ m.ack <= new[j].ack BY <1>4
  <2>2. tc[k] \in Messages /\ ToClientSound(s, c, tc[k]) BY <1>1 DEF Sound, ToClientLink
  <2> QED BY <1>5, <2>1, <2>2
<1>8. Types(s, d, new, ts, sx, cx) BY <1>3, <1>4 DEF Sound, Types
<1>9. ServerCommands(s, d, cx) BY <1>3 DEF Sound, ServerCommands
<1>10. ClientCommands(s, d, sx)
  <2>1. d.reliableSequence - d.reliableAcknowledge <= R + 1 BY <1>1, <1>2, <1>3
  <2> QED BY <1>2, <1>3, <2>1 DEF Sound, ClientCommands
<1>11. ToServerLink(s, d, ts) BY <1>3 DEF Sound, ToServerLink, ToServerSound
<1>12. ToClientLink(s, d, new) BY <1>4, <1>7 DEF ToClientLink
<1> QED BY <1>6, <1>8, <1>9, <1>10, <1>11, <1>12 DEF Sound, new

\* The commands of a message go into the ring of the client's copies.
LEMMA ClientParses ==
  ASSUME NEW s, NEW c, NEW tc, NEW ts, NEW sx, NEW cx, Sound(s, c, tc, ts, sx, cx),
         NEW m \in Messages, ToClientSound(s, c, m)
  PROVE  Sound(s, ParsedCommands(c, m.cmds), tc, ts, sx, cx)
<1> DEFINE cmds == m.cmds
           old  == c.serverCommandSequence
           new  == {n \in DOMAIN cmds : n > old}
           d    == ParsedCommands(c, cmds)
           At(k) == {n \in new : Slot(n) = k}
           ring == [k \in Slots |->
                      IF At(k) = {} THEN c.serverCommands[k] ELSE cmds[Newest(At(k))]]
<1>1. /\ s \in ServerType /\ c \in ClientType /\ old \in Nat /\ s.reliableSequence \in Nat
      /\ c.serverCommands \in Ring /\ R \in Nat \ {0}
      /\ c.lastExecutedServerCommand \in Nat /\ s.reliableAcknowledge \in Nat
      /\ old <= s.reliableSequence /\ c.lastExecutedServerCommand <= old
      /\ s.reliableAcknowledge <= old
      /\ \A n \in DOMAIN cmds :
           /\ n \in Nat /\ n <= s.reliableSequence /\ cmds[n] \in Nat
           /\ s.reliableSequence - n < R => cmds[n] = s.reliableCommands[Slot(n)]
           /\ s.intact => cmds[n] = n
      /\ NoGap(cmds, old)
  BY RingSize, CommandsAre
     DEF Sound, Types, ServerType, ClientType, Messages, ToClientSound, ServerCommands
<1>2. CASE new = {} BY <1>2 DEF ParsedCommands
<1>3. CASE new # {}
  <2> DEFINE last == Newest(new)
  <2>1. \A T \in SUBSET new : T # {} => Newest(T) \in T /\ \A n \in T : n <= Newest(T)
    <3> TAKE T \in SUBSET new
    <3> HAVE T # {}
    <3>1. T \in SUBSET Nat /\ \A n \in T : n <= s.reliableSequence BY <1>1
    <3> QED BY <1>1, <3>1, NewestIs
  <2>2. last \in new /\ \A n \in new : n <= last BY <1>3, <2>1
  <2>3. last \in Nat /\ last > old /\ last <= s.reliableSequence BY <1>1, <2>2
  <2>4. \A k \in Slots : At(k) # {} => Newest(At(k)) \in At(k) /\ \A n \in At(k) : n <= Newest(At(k))
    BY <2>1
  <2>5. ring \in Ring
    <3>1. \A k \in Slots : At(k) # {} => cmds[Newest(At(k))] \in Nat BY <1>1, <2>4
    <3>2. \A k \in Slots : c.serverCommands[k] \in Nat BY <1>1 DEF Ring
    <3> HIDE DEF At
    <3> QED BY <3>1, <3>2 DEF Ring
  <2>6. d = [c EXCEPT !.serverCommandSequence = last, !.serverCommands = ring]
    BY <1>3 DEF ParsedCommands, ClientType
  <2>7. ASSUME NEW n \in 0 .. last, last - n < R
        PROVE  /\ Slot(n) \in Slots
               /\ n \in 0 .. old => ring[Slot(n)] = c.serverCommands[Slot(n)]
               /\ n \notin 0 .. old => n \in DOMAIN cmds /\ ring[Slot(n)] = cmds[n]
    <3>1. Slot(n) \in Slots /\ n \in Nat BY RingSize
    <3>2. CASE n <= old
      <4>1. ASSUME NEW k \in At(Slot(n)) PROVE FALSE
        <5>1. k \in Nat /\ k > old /\ k <= last /\ Slot(k) = Slot(n) BY <1>1, <2>2, <4>1
        <5>2. k # n /\ k - n < R /\ n - k < R BY <1>1, <2>3, <2>7, <3>1, <3>2, <5>1
        <5> QED BY <3>1, <5>1, <5>2, OwnSlot
      <4>2. ring[Slot(n)] = c.serverCommands[Slot(n)] BY <3>1, <4>1
      <4> QED BY <1>1, <3>1, <3>2, <4>2
    <3>3. CASE ~(n <= old)
      <4>1. n \in new
        <5>1. n \in old + 1 .. last BY <1>1, <2>3, <2>7, <3>1, <3>3
        <5> QED BY <1>1, <2>2, <3>3, <5>1 DEF NoGap
      <4>2. n \in At(Slot(n)) BY <4>1
      <4> DEFINE x == Newest(At(Slot(n)))
      <4>3. x \in At(Slot(n)) /\ n <= x BY <2>4, <3>1, <4>2
      <4>4. x \in Nat /\ x <= last /\ Slot(x) = Slot(n) BY <1>1, <2>2, <4>3
      <4>5. ring[Slot(n)] = cmds[x] BY <3>1, <4>2
      <4> HIDE DEF x
      <4>6. x = n
        <5>1. x - n < R /\ n - x < R BY <1>1, <2>3, <2>7, <3>1, <4>3, <4>4
        <5> QED BY <3>1, <4>4, <5>1, OwnSlot
      <4> QED BY <1>1, <3>1, <3>3, <4>1, <4>5, <4>6
    <3> QED BY <3>2, <3>3
  <2> HIDE DEF ring
  <2>8. /\ d \in ClientType /\ d.serverCommandSequence = last /\ d.serverCommands = ring
        /\ d.reliableSequence = c.reliableSequence
        /\ d.reliableAcknowledge = c.reliableAcknowledge
        /\ d.reliableCommands = c.reliableCommands /\ d.intact = c.intact
        /\ d.lastExecutedServerCommand = c.lastExecutedServerCommand
    <3> HIDE DEF last, d
    <3> QED BY <1>1, <2>3, <2>5, <2>6 DEF ClientType
  <2> HIDE DEF d, last, new
  <2>9. Types(s, d, tc, ts, sx, cx) BY <2>8 DEF Sound, Types
  <2>10. ClientCommands(s, d, sx) BY <2>8 DEF Sound, ClientCommands
  <2>11. ASSUME s.intact PROVE Holds(ring, last)
    <3>1. ASSUME NEW n \in 0 .. last, last - n < R PROVE ring[Slot(n)] = n
      <4>1. CASE n \in 0 .. old
        <5>1. old - n < R BY <1>1, <2>3, <3>1
        <5> QED BY <2>7, <2>11, <3>1, <4>1, <5>1 DEF Sound, ServerCommands, Holds
      <4>2. CASE n \notin 0 .. old BY <1>1, <2>7, <2>11, <3>1, <4>2
      <4> QED BY <4>1, <4>2
    <3> QED BY <3>1 DEF Holds
  <2>12. ASSUME NEW n \in 0 .. last, s.reliableSequence - n < R
         PROVE  ring[Slot(n)] = s.reliableCommands[Slot(n)]
    <3>1. last - n < R BY <1>1, <2>3, <2>12
    <3>2. CASE n \in 0 .. old BY <2>7, <2>12, <3>1, <3>2 DEF Sound, ServerCommands
    <3>3. CASE n \notin 0 .. old BY <1>1, <2>7, <2>12, <3>1, <3>3
    <3> QED BY <3>2, <3>3
  <2>13. ServerCommands(s, d, cx)
    <3>1. s.reliableAcknowledge <= last /\ c.lastExecutedServerCommand <= last
      BY <1>1, <2>3
    <3> QED BY <2>3, <2>8, <2>11, <2>12, <3>1 DEF Sound, ServerCommands
  <2>14. ToServerLink(s, d, ts)
    <3>1. \A k \in Messages : k.ack <= old => k.ack <= last BY <1>1, <2>3 DEF Messages
    <3> QED BY <2>8, <3>1 DEF Sound, Types, ToServerLink, ToServerSound
  <2>15. ASSUME NEW k \in Messages, ToClientSound(s, c, k) PROVE ToClientSound(s, d, k)
    <3>1. NoGap(k.cmds, last)
      <4>1. \A n \in DOMAIN k.cmds : n \in Nat BY CommandsAre DEF Messages
      <4>2. \A n \in Nat : \A j \in last + 1 .. n : j \in old + 1 .. n BY <1>1, <2>3
      <4> QED BY <2>15, <4>1, <4>2 DEF ToClientSound, NoGap
    <3> QED BY <2>8, <2>15, <3>1 DEF ToClientSound
  <2>16. ToClientLink(s, d, tc) BY <2>15 DEF Sound, Types, ToClientLink
  <2>17. Sound(s, d, tc, ts, sx, cx) BY <2>9, <2>10, <2>13, <2>14, <2>16 DEF Sound
  <2> QED BY <2>17 DEF d
<1> QED BY <1>2, <1>3

\* The client takes a message, legible or not.
LEMMA ClientReceivesHolds ==
  ASSUME IInv, NEW i \in 1 .. Len(toClient), ClientReceives(i)
  PROVE  IInv'
<1>1. PICK m \in Messages : m = toClient[i] BY DEF IInv, Sound, Types
<1> DEFINE c == [client EXCEPT !.reliableAcknowledge =
                   IF m.ack < client.reliableSequence - R
                   THEN client.reliableSequence ELSE m.ack]
<1>2. /\ toClient' = After(toClient, i) /\ UNCHANGED <<server, serverExecuted, clientExecuted>>
      /\ \/ client' = ParsedCommands(c, m.cmds) /\ UNCHANGED toServer
         \/ Com_Error(c)
         \/ client' = c /\ UNCHANGED toServer
  BY <1>1 DEF ClientReceives
<1>3. /\ Sound(server, c, toClient', toServer, serverExecuted, clientExecuted)
      /\ ToClientSound(server, c, m)
  BY <1>1, <1>2, ClientAcknowledges DEF IInv
<1> HIDE DEF c
<1>4. CASE client' = ParsedCommands(c, m.cmds) /\ UNCHANGED toServer
  BY <1>2, <1>3, <1>4, ClientParses DEF IInv
<1>5. CASE Com_Error(c) BY <1>2, <1>3, <1>5, Disconnects DEF Com_Error
<1>6. CASE client' = c /\ UNCHANGED toServer BY <1>2, <1>3, <1>6 DEF IInv
<1> QED BY <1>2, <1>4, <1>5, <1>6

\* The client game asks for the next command.
LEMMA GetServerCommandHolds ==
  ASSUME IInv, CL_GetServerCommand
  PROVE  IInv'
<1> DEFINE n    == client.lastExecutedServerCommand + 1
           text == client.serverCommands[Slot(n)]
           c    == [client EXCEPT !.lastExecutedServerCommand = n]
<1>1. /\ n <= client.serverCommandSequence
      /\ UNCHANGED <<server, toClient, serverExecuted>>
  BY DEF CL_GetServerCommand
<1>2. /\ server \in ServerType /\ client \in ClientType /\ client.serverCommandSequence \in Nat
      /\ client.lastExecutedServerCommand \in Nat /\ client.serverCommands \in Ring
      /\ R \in Nat \ {0} /\ n \in Nat /\ clientExecuted \in Seq(Nat)
  BY RingSize DEF IInv, Sound, Types, ClientType
<1>3. CASE n <= client.serverCommandSequence - R
  BY <1>1, <1>3, Disconnects DEF CL_GetServerCommand, Com_Error, IInv
<1>4. CASE ~(n <= client.serverCommandSequence - R)
  <2>1. /\ clientExecuted' = Append(clientExecuted, text)
        /\ Com_Error(c) \/ (client' = c /\ UNCHANGED toServer)
    BY <1>4 DEF CL_GetServerCommand
  <2>2. Slot(n) \in Slots /\ text \in Nat BY <1>2, RingSize DEF Ring
  <2>3. clientExecuted' \in Seq(Nat) BY <1>2, <2>1, <2>2, AppendProperties
  <2>4. /\ c \in ClientType /\ c.lastExecutedServerCommand = n
        /\ c.reliableSequence = client.reliableSequence
        /\ c.reliableAcknowledge = client.reliableAcknowledge
        /\ c.reliableCommands = client.reliableCommands /\ c.intact = client.intact
        /\ c.serverCommandSequence = client.serverCommandSequence
        /\ c.serverCommands = client.serverCommands
    <3>1. n \in Nat BY <1>2
    <3> HIDE DEF n
    <3> QED BY <1>2, <3>1 DEF ClientType
  <2>5. ASSUME server.intact PROVE clientExecuted' = Count(n)
    <3>1. n \in 0 .. client.serverCommandSequence /\ client.serverCommandSequence - n < R
      BY <1>1, <1>2, <1>4
    <3>2. text = n BY <2>5, <3>1 DEF IInv, Sound, ServerCommands, Holds
    <3> QED BY <1>2, <2>1, <2>5, <3>2, CountOn DEF IInv, Sound, ServerCommands
  <2> HIDE DEF c, n
  <2>6. /\ Types(server, c, toClient, toServer, serverExecuted, clientExecuted')
        /\ ServerCommands(server, c, clientExecuted')
        /\ ClientCommands(server, c, serverExecuted)
    BY <1>1, <2>3, <2>4, <2>5 DEF IInv, Sound, Types, ServerCommands, ClientCommands
  <2>7. ToServerLink(server, c, toServer) /\ ToClientLink(server, c, toClient)
    BY <2>4 DEF IInv, Sound, ToServerLink, ToClientLink, ToServerSound, ToClientSound
  <2>8. Sound(server, c, toClient', toServer, serverExecuted, clientExecuted')
    BY <1>1, <2>6, <2>7 DEF Sound
  <2>9. CASE Com_Error(c) BY <1>1, <2>8, <2>9, Disconnects DEF Com_Error
  <2>10. CASE client' = c /\ UNCHANGED toServer BY <1>1, <2>8, <2>10 DEF IInv
  <2> QED BY <2>1, <2>9, <2>10
<1> QED BY <1>3, <1>4

----------------------------------------------------------------------------
(* The invariant, and what follows from it.                                *)

\* Every step keeps the invariant.
LEMMA NextHolds == IInv /\ [Next]_vars => IInv'
<1> SUFFICES ASSUME IInv, [Next]_vars PROVE IInv' OBVIOUS
<1>1. CASE ServerAdds BY <1>1, ServerAddsOrDrops
<1>2. CASE ServerDrops BY <1>2, ServerAddsOrDrops
<1>3. CASE ServerSends BY <1>3, ServerSendsHolds
<1>4. CASE \E i \in 1 .. Len(toServer) : ServerReceives(i) BY <1>4, ServerReceivesHolds
<1>5. CASE ClientAdds BY <1>5, ClientActs
<1>6. CASE ClientLeaves BY <1>6, ClientActs
<1>7. CASE ClientSends BY <1>7, ClientActs
<1>8. CASE \E i \in 1 .. Len(toClient) : ClientReceives(i) BY <1>8, ClientReceivesHolds
<1>9. CASE CL_GetServerCommand BY <1>9, GetServerCommandHolds
<1>10. CASE UNCHANGED vars BY <1>10 DEF vars, IInv
<1> QED BY <1>1, <1>2, <1>3, <1>4, <1>5, <1>6, <1>7, <1>8, <1>9, <1>10 DEF Next

\* In every reachable state the invariant holds.
THEOREM Invariant == Spec => []IInv
BY InitHolds, NextHolds, PTL DEF Spec

\* Types hold; the server has at most a full ring outstanding for a client it
\* serves, four more for a zombie, and tells the game of a drop twice at most.
THEOREM TypeCorrect == Spec => []TypeOK
<1>1. IInv => TypeOK
  <2> SUFFICES ASSUME IInv PROVE TypeOK OBVIOUS
  <2>1. /\ server \in ServerType /\ client \in ClientType /\ R \in Nat \ {0}
        /\ server.reliableSequence \in Nat /\ server.reliableAcknowledge \in Nat
        /\ client.reliableSequence \in Nat /\ client.reliableAcknowledge \in Nat
        /\ client.serverCommandSequence \in Nat
    BY RingSize DEF IInv, Sound, Types, ServerType, ClientType
  <2>2. Len(toClient) \in 0 .. MaxInFlight /\ Len(toServer) \in 0 .. MaxInFlight
    <3>1. Len(toClient) \in Nat /\ Len(toServer) \in Nat /\ MaxInFlight \in Nat
      BY ReliableAssumption DEF IInv, Sound, Types
    <3> QED BY <3>1 DEF IInv, Sound, Types
  <2>3. server.gameDisconnects \in 0 .. 2
    BY <2>1 DEF IInv, Sound, ServerCommands, ServerType
  <2>4. server.byes \in SUBSET (0 .. server.reliableSequence)
    BY DEF IInv, Sound, ServerCommands
  <2>5. Outstanding(client) \in 0 .. R + 1
    BY <2>1 DEF IInv, Sound, ClientCommands, Outstanding
  <2>6. Outstanding(server) \in 0 .. IF server.zombie THEN R + 4 ELSE R
    <3>1. 0 <= Outstanding(server) /\ Outstanding(server) <= R + 4
      BY <2>1 DEF IInv, Sound, ServerCommands, Outstanding
    <3>2. ~server.zombie => Outstanding(server) <= R
      BY DEF IInv, Sound, ServerCommands, Outstanding
    <3>3. Outstanding(server) \in Int BY <2>1 DEF Outstanding
    <3> QED BY <2>1, <3>1, <3>2, <3>3
  <2>7. server \in [reliableSequence : Nat, reliableAcknowledge : Nat,
                   reliableCommands : Ring, lastClientCommand : Nat,
                   lastClientCommandString : Nat, zombie : BOOLEAN,
                   byes : SUBSET (0 .. server.reliableSequence),
                   gameDisconnects : 0 .. 2, intact : BOOLEAN]
    <3> DEFINE n == server.reliableSequence
    <3>1. \A s \in ServerType : \A k \in Nat :
            s.byes \in SUBSET (0 .. k) /\ s.gameDisconnects \in 0 .. 2 =>
              s \in [reliableSequence : Nat, reliableAcknowledge : Nat,
                     reliableCommands : Ring, lastClientCommand : Nat,
                     lastClientCommandString : Nat, zombie : BOOLEAN,
                     byes : SUBSET (0 .. k),
                     gameDisconnects : 0 .. 2, intact : BOOLEAN]
      BY DEF ServerType
    <3> QED BY <2>1, <2>3, <2>4, <3>1
  <2> QED BY <2>1, <2>2, <2>5, <2>6, <2>7 DEF TypeOK, ClientType, IInv, Sound, Types
<1> QED BY <1>1, Invariant, PTL

\* Both sides execute the other's commands once, in order and with their own
\* text, as long as the sender's ring holds what is not acknowledged; the
\* server's does while the client is served.
THEOREM CommandsAreExact == Spec => []CommandsExact
<1>1. IInv => CommandsExact
  BY DEF IInv, Sound, ServerCommands, ClientCommands,
         CommandsExact, ClientCommandsExact, ServerCommandsExact, ServedRingIntact
<1> QED BY <1>1, Invariant, PTL

\* What one side believes acknowledged has arrived at the other, and no message
\* under way starts behind a command that the server has not executed.
THEOREM AcknowledgementsSound == Spec => []Acknowledgements
<1>1. IInv => AcknowledgedHasArrived
  BY DEF IInv, Sound, ServerCommands, ClientCommands, AcknowledgedHasArrived
<1>2. IInv => NoCommandsLost
  <2> SUFFICES ASSUME IInv, client.intact, NEW i \in 1 .. Len(toServer),
                      DOMAIN toServer[i].cmds # {}
               PROVE  Oldest(DOMAIN toServer[i].cmds) <= server.lastClientCommand + 1
    BY DEF NoCommandsLost
  <2>1. PICK m \in Messages : m = toServer[i] BY DEF IInv, Sound, Types
  <2> DEFINE n == Oldest(DOMAIN m.cmds)
             l == server.lastClientCommand
  <2>2. /\ l \in Nat /\ DOMAIN m.cmds \in SUBSET Nat /\ DOMAIN m.cmds # {}
        /\ NoGap(m.cmds, l)
    BY <2>1, CommandsAre
       DEF IInv, Sound, Types, ServerType, Messages, ToServerLink, ToServerSound
  <2>3. n \in DOMAIN m.cmds /\ \A k \in DOMAIN m.cmds : n <= k BY <2>2, OldestIs
  <2> HIDE DEF n, l
  <2>4. ASSUME n > l + 1 PROVE FALSE
    <3>1. n \in Nat /\ l + 1 \in l + 1 .. n BY <2>2, <2>3, <2>4
    <3>2. l + 1 \in DOMAIN m.cmds BY <2>2, <2>3, <3>1 DEF NoGap
    <3> QED BY <2>2, <2>3, <2>4, <3>1, <3>2
  <2>5. n <= l + 1 BY <2>2, <2>3, <2>4
  <2> QED BY <2>1, <2>5 DEF n, l
<1> QED BY <1>1, <1>2, Invariant, PTL DEF Acknowledgements

\* Each side can decode what is on the way to it, unless its ring is full
\* behind the acknowledged command.
THEOREM KeysAlwaysAgree == Spec => []KeysAgree
<1>1. IInv => KeysAgree
  <2> SUFFICES ASSUME IInv PROVE KeysAgree OBVIOUS
  <2>1. \A i \in 1 .. Len(toServer) :
          server.reliableSequence - toServer[i].ack < R =>
            toServer[i].key = server.reliableCommands[Slot(toServer[i].ack)]
    BY DEF IInv, Sound, ToServerLink, ToServerSound
  <2>2. ASSUME NEW i \in 1 .. Len(toClient), client.reliableSequence - toClient[i].ack < R
        PROVE  toClient[i].key = client.reliableCommands[Slot(toClient[i].ack)]
    <3>1. PICK m \in Messages : m = toClient[i] BY DEF IInv, Sound, Types
    <3>2. ToClientSound(server, client, m) /\ client.reliableSequence - m.ack < R
      BY <2>2, <3>1 DEF IInv, Sound, ToClientLink
    <3>3. m.ack \in 0 .. client.reliableSequence /\ m.key = m.ack
      BY <3>2 DEF ToClientSound, IInv, Sound, Types, ClientCommands, ServerType, ClientType, Messages
    <3>4. client.reliableCommands[Slot(m.ack)] = m.ack
      BY <3>2, <3>3 DEF IInv, Sound, ClientCommands, Holds
    <3> QED BY <3>1, <3>3, <3>4
  <2> QED BY <2>1, <2>2 DEF KeysAgree
<1> QED BY <1>1, Invariant, PTL

============================================================================
