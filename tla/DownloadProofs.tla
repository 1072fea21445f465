-------------------------- MODULE DownloadProofs ---------------------------
(***************************************************************************)
(* Proofs about Download, for every window, any number and size of files,  *)
(* any loss and any number of failures: the types, that the window holds   *)
(* what was read and not acknowledged, and, as long as no file is shorter  *)
(* than the window and none was given up, that the client gets each file   *)
(* exactly and is dropped for nothing it did.                              *)
(*                                                                         *)
(* The client's commands are one sequence, of which the server has         *)
(* executed the first ones.  The invariant says what each of the rest will *)
(* meet when its turn comes, and of the blocks under way which of them the *)
(* client will take.                                                       *)
(***************************************************************************)
EXTENDS Download, FiniteSetTheorems, SequenceTheorems, TLAPS

----------------------------------------------------------------------------
(* Rings and windows: numbers less than a size apart have slots of their   *)
(* own, and a set of numbers has a least and a greatest element.           *)

\* A multiple of d that is greater is greater by d.
LEMMA MultiplesApart ==
  ASSUME NEW a \in Int, NEW b \in Int, NEW d \in Nat, a < b
  PROVE  d * a + d <= d * b
<1>1. b - a - 1 \in Nat OBVIOUS
<1>2. d * (b - a - 1) >= 0 BY <1>1
<1>3. d * (b - a - 1) = d * b - d * a - d OBVIOUS
<1> QED BY <1>2, <1>3

\* The slot of a number in a ring of size d.
LEMMA SlotType ==
  ASSUME NEW n \in Int, NEW d \in Nat \ {0}
  PROVE  n % d \in 0 .. d - 1
OBVIOUS

\* Two numbers less than a ring's size apart have different slots.
LEMMA SlotsApart ==
  ASSUME NEW i \in Int, NEW j \in Int, NEW d \in Nat \ {0}, i < j, j - i < d
  PROVE  i % d # j % d
<1> DEFINE p == i \div d
           q == j \div d
           r == i % d
           s == j % d
<1>1. /\ p \in Int /\ q \in Int /\ r \in 0 .. d - 1 /\ s \in 0 .. d - 1
      /\ i = d * p + r /\ j = d * q + s
  OBVIOUS
<1> HIDE DEF p, q, r, s
<1>2. ASSUME r = s PROVE FALSE
  <2>1. d * p \in Int /\ d * q \in Int BY <1>1
  <2>2. d * q - d * p > 0 /\ d * q - d * p < d BY <1>1, <1>2, <2>1
  <2>3. CASE p < q BY <1>1, <2>1, <2>2, <2>3, MultiplesApart
  <2>4. CASE q < p BY <1>1, <2>1, <2>2, <2>4, MultiplesApart
  <2>5. CASE p = q BY <1>1, <2>1, <2>2, <2>5
  <2> QED BY <1>1, <2>3, <2>4, <2>5
<1> QED BY <1>2 DEF r, s

\* A set of natural numbers has a least element.
LEMMA LeastExists ==
  ASSUME NEW S \in SUBSET Nat, S # {}
  PROVE  \E n \in S : \A i \in S : n <= i
<1> DEFINE Less == {p \in Nat \X Nat : p[1] < p[2]}
<1>1. IsWellFoundedOn(Less, Nat) BY NatLessThanWellFounded DEF OpToRel
<1>2. \A x, y \in S : <<y, x>> \notin Less => x <= y OBVIOUS
<1> HIDE DEF Less
<1> QED BY <1>1, <1>2, WFMin

\* A bounded one has a greatest element: the least of the distances to the bound.
LEMMA GreatestExists ==
  ASSUME NEW S \in SUBSET Nat, NEW b \in Nat, S # {}, \A i \in S : i <= b
  PROVE  \E n \in S : \A i \in S : i <= n
<1> DEFINE D == {b - i : i \in S}
<1>1. \A i \in S : i \in Nat /\ b - i \in Nat OBVIOUS
<1>2. D \subseteq Nat BY <1>1
<1>3. D # {} OBVIOUS
<1>4. PICK d \in D : \A e \in D : d <= e BY <1>2, <1>3, LeastExists
<1>5. PICK n \in S : d = b - n OBVIOUS
<1>6. \A i \in S : b - i \in D OBVIOUS
<1>7. \A i \in S : i <= n BY <1>1, <1>4, <1>5, <1>6
<1> QED BY <1>7

\* So has a finite one: of the sets of its elements from one of them on, finite
\* all of them, one includes no other.
LEMMA FiniteGreatest ==
  ASSUME NEW S \in SUBSET Nat, IsFiniteSet(S), S # {}
  PROVE  \E n \in S : \A i \in S : i <= n
<1> DEFINE From(n) == {k \in S : k >= n}
           T == {From(n) : n \in S}
<1>1. \A n \in S : From(n) \subseteq Nat /\ IsFiniteSet(From(n))
  BY FS_Subset
<1>2. T \subseteq FiniteSubsetsOf(Nat) /\ T # {}
  BY <1>1 DEF FiniteSubsetsOf
<1> HIDE DEF T
<1>3. PICK x \in T : \A y \in T : ~ (<<y, x>> \in StrictSubsetOrdering(Nat))
  BY <1>2, FS_StrictSubsetOrderingWellFounded, WFMin
<1>4. PICK n \in S : x = From(n) BY DEF T
<1>5. ASSUME NEW k \in S, n < k PROVE FALSE
  <2>1. k \in Nat /\ n \in Nat OBVIOUS
  <2>2. n \in From(n) /\ n \notin From(k) BY <1>5, <2>1
  <2>3. ASSUME NEW j \in From(k) PROVE j \in From(n)
    <3>1. j \in S /\ j \in Nat /\ j >= k BY <2>3
    <3>2. j >= n BY <1>5, <2>1, <3>1
    <3> QED BY <3>1, <3>2
  <2>4. From(k) \in T BY DEF T
  <2>5. <<From(k), From(n)>> \in StrictSubsetOrdering(Nat)
    BY <1>1, <2>2, <2>3 DEF StrictSubsetOrdering
  <2> QED BY <1>3, <1>4, <2>4, <2>5
<1> QED BY <1>5

----------------------------------------------------------------------------
(* The inductive invariant: what always holds.                             *)

ClientCommands == [name : {"download"}, arg : Files] \cup [name : {"nextdl"}, arg : Nat]
                    \cup [name : {"wwwdl"}, arg : {"ack", "done", "fail"}]
                    \cup [name : {"stopdl", "donedl"}, arg : {None}]

Servers ==
  [downloadName : {None} \cup Files, download : BOOLEAN, clientBlock : Nat, xmitBlock : Nat,
   currentBlock : Nat, eof : BOOLEAN, blocks : [0 .. W - 1 -> Blocks], redirects : BOOLEAN,
   wwwDl : BOOLEAN, wwwing : BOOLEAN, fallback : BOOLEAN, lastClientCommand : Nat,
   dropped : {"no", "timed out", "broken download", "unexpected wwwdl"}]

Clients ==
  [downloadName : {None} \cup Files, list : Seq(Files), block : Nat, file : Seq(Blocks),
   stored : [Files -> Seq(Blocks)], commands : Seq(ClientCommands), acknowledged : Nat,
   wwwDl : BOOLEAN, aborting : BOOLEAN, web : {None} \cup Files,
   redirected : SUBSET ({None} \cup Files), badChecksum : SUBSET Files, loads : BOOLEAN, failures : Nat,
   gaveUp : BOOLEAN]

Types ==
  /\ size \in [Files -> 1 .. MaxBlocks]
  /\ server \in Servers
  /\ client \in Clients
  /\ toClient \in Seq(Messages)
  /\ Len(toClient) <= MaxInFlight

Link == 1 .. Len(toClient)

\* A message acknowledges what was executed when it was sent.
Acknowledged ==
  /\ server.lastClientCommand <= Len(client.commands)
  /\ client.acknowledged <= server.lastClientCommand
  /\ \A k \in Link : /\ client.acknowledged <= toClient[k].ack
                     /\ toClient[k].ack <= server.lastClientCommand
                     /\ \A j \in k .. Len(toClient) : toClient[k].ack <= toClient[j].ack

\* The window is of the file that is sent, is never larger than the buffer,
\* and what was read is in its slot.
WindowOf(s) ==
  /\ s.currentBlock <= size[s.downloadName] + 1
  /\ s.currentBlock - s.clientBlock <= W
  /\ \A n \in s.clientBlock .. s.currentBlock - 1 : s.blocks[n % W] = Block(s.downloadName, n)

Window == server.download => server.downloadName # None /\ WindowOf(server)

\* Who was dropped is sent nothing more.
Gone == server.dropped # "no" => server.downloadName = None /\ ~server.download

----------------------------------------------------------------------------
(* ... and what holds as long as no stale block can be taken for another:  *)
(* of the sizes z, the server s, the client c and the messages L.          *)

Last(c) == c.commands[Len(c.commands)]
WwwDl(sub) == Command("wwwdl", sub)

\* Every command of the client fits the one before it.
Follows(d, e) ==
  /\ d.name = "download" => e = Command("nextdl", 0) \/ e = WwwDl("ack")
  /\ d.name = "nextdl" => e = Command("nextdl", d.arg + 1) \/ e.name \in {"download", "donedl"}
  /\ d = WwwDl("ack") => e = WwwDl("done") \/ e = WwwDl("fail")
  /\ d = WwwDl("done") => e.name \in {"download", "donedl"}
  /\ d = WwwDl("fail") => e.name = "download"
  /\ d.name \in {"donedl", "stopdl"} => e.name \in {"download", "stopdl"}

Shape(c) ==
  /\ Len(c.commands) >= 1
  /\ c.commands[1].name = "download"
  /\ \A i \in 1 .. Len(c.commands) - 1 : Follows(c.commands[i], c.commands[i + 1])

\* The client's state is that in which its last command left it, until it has
\* all files.
Waits(e) == e.name \in {"donedl", "stopdl"} \/ e = WwwDl("fail")

LeftBy(c, e) ==
  /\ e.name = "download" =>
       /\ c.downloadName = e.arg /\ c.block = 0
       /\ ~c.wwwDl /\ ~c.aborting /\ c.web = None
  /\ e.name = "nextdl" =>
       /\ c.downloadName # None /\ c.block = e.arg + 1
       /\ ~c.wwwDl /\ ~c.aborting /\ c.web = None
  /\ e = WwwDl("ack") =>
       /\ c.downloadName # None /\ c.block = 0
       /\ c.wwwDl /\ ~c.aborting /\ c.web # None
  /\ e = WwwDl("fail") =>
       /\ c.downloadName # None /\ c.block = 0
       /\ c.wwwDl /\ c.aborting /\ c.web = None
  /\ e.name \in {"donedl", "stopdl"} =>
       /\ c.downloadName = None
       /\ ~c.wwwDl /\ ~c.aborting /\ c.web = None
  /\ e # WwwDl("done")

AsAsked(c) ==
  /\ ~c.loads => LeftBy(c, Last(c))
  /\ c.loads => /\ c.downloadName = None /\ c.web = None /\ ~c.wwwDl
                /\ Waits(Last(c))

\* Block k under way is of the file the client writes, unless it is of an
\* older one; those come first, and none of them has number 0.
IsBlock(L, k) == L[k].kind = "block"
Live(c, L, k) == IsBlock(L, k) /\ (c.block > 0 \/ \E j \in 1 .. k : IsBlock(L, j) /\ L[j].number = 0)

\* No block under way is one the client will take.
Quiet(c, L) ==
  c.downloadName = None \/ (c.block = 0 /\ \A k \in 1 .. Len(L) : ~Live(c, L, k))

\* What the client has written, and the blocks it may take.
Written(z, c) ==
  c.downloadName # None =>
    /\ c.block <= z[c.downloadName]
    /\ Len(c.file) = c.block
    /\ \A i \in 1 .. Len(c.file) : c.file[i] = Block(c.downloadName, i - 1)

NoFirstBlock(L, k) == \A j \in k + 1 .. Len(L) : IsBlock(L, j) => L[j].number # 0

ExpectedAt(z, c, L, k) ==
  /\ L[k].number >= c.block => /\ L[k].data = Block(c.downloadName, L[k].number)
                               /\ L[k].number <= z[c.downloadName]
  /\ L[k].number < c.block + W
  /\ 2 * L[k].number < Numbers
  /\ L[k].number = z[c.downloadName] => NoFirstBlock(L, k)
  /\ \A i \in L[k].ack + 1 .. Len(c.commands) : c.commands[i].name = "nextdl" =>
       c.commands[i].arg < c.block /\ L[k].number < c.commands[i].arg + W

Expected(z, c, L) ==
  c.downloadName # None => \A k \in 1 .. Len(L) : Live(c, L, k) => ExpectedAt(z, c, L, k)

\* The acknowledgements the server may not have executed when it sent what
\* came last are of one window.
OneWindow(d, e) == d.name = "nextdl" /\ e.name = "nextdl" => d.arg < e.arg /\ e.arg < d.arg + W

InWindow(c) ==
  /\ \A i \in 1 .. Len(c.commands) : c.commands[i].name = "nextdl" => 2 * c.commands[i].arg < Numbers
  /\ \A i \in c.acknowledged + 1 .. Len(c.commands) :
       \A j \in i + 1 .. Len(c.commands) : OneWindow(c.commands[i], c.commands[j])

\* Redirects and gamestates come when no block will be taken, and a gamestate
\* comes last.
LinkOrder(c, L) ==
  /\ c.wwwDl => Quiet(c, L)
  /\ \A k \in 1 .. Len(L) : L[k].kind = "redirect" =>
       Quiet(c, L) /\ \A j \in k + 1 .. Len(L) : ~IsBlock(L, j)
  /\ \A k \in 1 .. Len(L) : L[k].kind = "gamestate" =>
       Waits(Last(c)) /\ \A j \in k + 1 .. Len(L) : L[j].kind = "idle"

ClientSide(z, c, L) ==
  Shape(c) /\ AsAsked(c) /\ Written(z, c) /\ Expected(z, c, L) /\ InWindow(c) /\ LinkOrder(c, L)

----------------------------------------------------------------------------
(* The server and the commands it has not executed.                        *)

Pending(s, c) == s.lastClientCommand + 1 .. Len(c.commands)

NoRedirects(s, c, L) ==
  ~s.redirects =>
    /\ ~c.wwwDl
    /\ \A k \in 1 .. Len(L) : L[k].kind # "redirect"
    /\ \A i \in 1 .. Len(c.commands) : c.commands[i].name # "wwwdl"

\* While a file is sent block by block: first K acknowledgements that are not
\* executed; the client still receives the file, ...
Begins(s) == s.clientBlock >= 1 /\ s.xmitBlock >= 1

Receiving(z, s, c, L, K) ==
  /\ s.lastClientCommand + K = Len(c.commands)
  /\ c.downloadName = s.downloadName
  /\ c.block = s.clientBlock + K
  /\ \A k \in 1 .. Len(L) : Live(c, L, k) =>
       /\ L[k].number < s.currentBlock
       /\ L[k].number = z[s.downloadName] => Begins(s)

\* ... or has all of it, and no block 0 of it will come again.
Received(z, s, c, L, K) ==
  /\ s.lastClientCommand + K < Len(c.commands)
  /\ K >= 1 /\ s.clientBlock + K = z[s.downloadName] + 1
  /\ Begins(s)
  /\ Quiet(c, L)

Unexecuted(s, c, K) ==
  /\ \A i \in 1 .. K : c.commands[s.lastClientCommand + i] = Command("nextdl", s.clientBlock + i - 1)
  /\ \A i \in s.lastClientCommand + K + 1 .. Len(c.commands) :
       c.commands[i].name \in {"download", "donedl", "stopdl"}

Sending(z, s, c, L) ==
  s.download =>
    /\ ~s.fallback /\ ~s.wwwing /\ ~c.wwwDl
    /\ s.xmitBlock <= s.currentBlock
    /\ 2 * s.clientBlock < Numbers + 2
    /\ \A k \in 1 .. Len(L) : L[k].kind # "redirect"
    /\ \E K \in 0 .. Len(c.commands) - s.lastClientCommand :
         /\ Unexecuted(s, c, K)
         /\ s.clientBlock + K <= s.currentBlock
         /\ Receiving(z, s, c, L, K) \/ Received(z, s, c, L, K)

\* While none is sent so.
NotSending(s, c, L) ==
  ~s.download =>
    /\ Quiet(c, L)
    /\ \A i \in Pending(s, c) : c.commands[i].name # "nextdl"
    /\ s.downloadName # None /\ ~s.wwwing =>
         /\ s.lastClientCommand >= 1
         /\ c.commands[s.lastClientCommand] = Command("download", s.downloadName)

\* When a file is closed, and what the client may have asked for since.
Gamestates(c, L) == c.loads \/ \E k \in 1 .. Len(L) : L[k].kind = "gamestate"

Closed(s, c, L) ==
  /\ s.lastClientCommand >= 1 =>
       LET e == c.commands[s.lastClientCommand]
       IN  /\ Waits(e) \/ e = WwwDl("done") => s.downloadName = None
           /\ s.wwwing <=> e = WwwDl("ack")
  /\ s.lastClientCommand = 0 => ~s.wwwing
  /\ s.lastClientCommand < Len(c.commands)
       /\ c.commands[s.lastClientCommand + 1].name \in {"download", "donedl", "stopdl"} =>
       s.downloadName = None
  /\ Gamestates(c, L) => /\ s.downloadName = None
                         /\ \A i \in Pending(s, c) : c.commands[i].name = "stopdl"

\* After it asked for the gamestate the client does not go on without one.
Unanswered(s, c) ==
  \A i \in Pending(s, c) :
    /\ c.commands[i].name = "donedl" =>
         \A j \in i + 1 .. Len(c.commands) : c.commands[j].name = "stopdl"
    /\ c.commands[i] = WwwDl("fail") => i = Len(c.commands)

\* The server knows of the redirect when the client's answer comes, and when a
\* web download failed there is none until the next file is opened.
RedirectKnown(s, c, L) ==
  \/ \E i \in Pending(s, c) : c.commands[i].name = "wwwdl"
  \/ ~s.fallback /\ (c.web # None \/ \E k \in 1 .. Len(L) : L[k].kind = "redirect")

FallenBack(s, c, L) ==
  \/ s.lastClientCommand = Len(c.commands) /\ Last(c) = WwwDl("fail") /\ c.aborting
  \/ /\ ~c.wwwDl /\ c.web = None
     /\ \A k \in 1 .. Len(L) : L[k].kind = "idle"
     /\ Len(c.commands) <= s.lastClientCommand + 1
     /\ \A i \in Pending(s, c) : c.commands[i].name = "download"
     /\ c.loads \/ Last(c).name = "download"

Redirecting(s, c, L) ==
  /\ RedirectKnown(s, c, L) => s.wwwDl
  /\ s.fallback => FallenBack(s, c, L)

ServerSide(z, s, c, L) ==
  Sending(z, s, c, L) /\ NotSending(s, c, L) /\ Closed(s, c, L) /\ Unanswered(s, c)
    /\ Redirecting(s, c, L)

Fresh(z, s, c, L) ==
  /\ ClientSide(z, c, L)
  /\ NoRedirects(s, c, L)
  /\ s.dropped = "no" => ServerSide(z, s, c, L)
  /\ s.dropped \notin {"broken download", "unexpected wwwdl"}

IInv == /\ Types
        /\ Acknowledged
        /\ Window
        /\ Gone
        /\ NoStaleBlocks => Fresh(size, server, client, toClient)
----------------------------------------------------------------------------
(* Operators.                                                              *)

\* The window has at least one block.
LEMMA WindowNumber == W \in Nat \ {0} /\ W = MAX_DOWNLOAD_WINDOW
BY DownloadAssumption DEF W

\* The first elements of a set of numbers: for every number less than the set's
\* cardinality, an element that has as many smaller ones.
LEMMA RankExists ==
  ASSUME NEW S \in SUBSET Nat, IsFiniteSet(S), NEW k \in 0 .. Cardinality(S) - 1
  PROVE  \E f \in S : Cardinality({g \in S : g < f}) = k
<1> DEFINE Below(f) == {g \in S : g < f}
           T == {f \in S : Cardinality(Below(f)) >= k}
<1>1. Cardinality(S) \in Nat /\ S # {}
  BY FS_CardinalityType, FS_EmptySet
<1>0. \A f, g \in S : f \in Nat /\ g \in Nat /\ (g # f <=> g < f \/ f < g)
  OBVIOUS
<1>2. \A f \in S : IsFiniteSet(Below(f)) /\ Cardinality(Below(f)) \in Nat
  BY FS_Subset, FS_CardinalityType
<1>3. PICK m \in S : \A i \in S : i <= m BY <1>1, FiniteGreatest
<1>4. m \in T
  <2>1. Below(m) = S \ {m}
    <3>1. \A i \in S : i < m <=> i # m BY <1>0, <1>3
    <3> QED BY <3>1
  <2>2. Cardinality(S \ {m}) = Cardinality(S) - 1 BY FS_RemoveElement
  <2> QED BY <1>1, <2>1, <2>2
<1>5. T \in SUBSET Nat OBVIOUS
<1>6. PICK f \in T : \A i \in T : f <= i
  <2> HIDE DEF T
  <2> QED BY <1>4, <1>5, LeastExists
<1>7. f \in S /\ f \in Nat /\ Cardinality(Below(f)) >= k BY <1>5
<1>8. ASSUME Cardinality(Below(f)) > k PROVE FALSE
  <2>1. IsFiniteSet(Below(f)) /\ Below(f) # {} /\ Below(f) \in SUBSET Nat
    <3>1. Below(f) # {}
      <4>1. Cardinality(Below(f)) # 0 BY <1>2, <1>7, <1>8
      <4> HIDE DEF Below
      <4> QED BY <4>1, FS_EmptySet
    <3> QED BY <1>2, <1>7, <3>1
  <2>2. PICK h \in Below(f) : \A i \in Below(f) : i <= h
    <3> HIDE DEF Below
    <3> QED BY <2>1, FiniteGreatest
  <2>3. h \in S /\ h < f /\ h \in Nat OBVIOUS
  <2>4. Below(h) = Below(f) \ {h} 
    <3>1. \A i \in S : i < h => i < f BY <1>0, <1>7, <2>3
    <3>2. \A i \in S : i < f /\ i # h => i < h BY <1>0, <1>7, <2>2, <2>3
    <3>3. \A i \in S : i < h => i # h BY <1>0
    <3> QED BY <3>1, <3>2, <3>3
  <2>5. Cardinality(Below(f) \ {h}) = Cardinality(Below(f)) - 1
    <3> HIDE DEF Below
    <3> QED BY <2>1, <2>2, FS_RemoveElement
  <2>6. Cardinality(Below(h)) >= k BY <1>2, <1>7, <1>8, <2>4, <2>5
  <2>7. h \in T BY <2>3, <2>6
  <2> QED BY <1>6, <1>7, <2>3, <2>7
<1>9. Cardinality(Below(f)) = k
  <2> HIDE DEF Below
  <2> QED BY <1>2, <1>7, <1>8
<1> QED BY <1>7, <1>9

\* A short is the number that was written, or a negative one.
LEMMA ShortType ==
  ASSUME NEW n \in Nat
  PROVE  /\ Short(n) \in -Numbers .. Numbers
         /\ n < Numbers => Short(n) = IF 2 * n < Numbers THEN n ELSE n - Numbers
<1>1. Numbers \in Nat \ {0} BY DownloadAssumption
<1> DEFINE r == n % Numbers
<1>2. r \in 0 .. Numbers - 1 BY <1>1
<1>3. n < Numbers => r = n BY <1>1
<1> HIDE DEF r
<1>4. Short(n) = IF 2 * r < Numbers THEN r ELSE r - Numbers BY DEF Short, r
<1> QED BY <1>1, <1>2, <1>3, <1>4

\* What Sent adds comes last; the others keep their order.
LEMMA SentLink ==
  ASSUME Types, NEW m \in Messages
  PROVE  /\ Sent(m) \in Seq(Messages)
         /\ Len(Sent(m)) <= MaxInFlight
         /\ \E d \in {0, 1} :
              /\ d <= Len(toClient)
              /\ Len(Sent(m)) = Len(toClient) - d + 1
              /\ \A k \in 1 .. Len(toClient) - d : Sent(m)[k] = toClient[k + d]
              /\ Sent(m)[Len(Sent(m))] = m
<1> DEFINE L == toClient
<1>1. L \in Seq(Messages) /\ Len(L) <= MaxInFlight /\ Len(L) \in Nat /\ MaxInFlight \in Nat \ {0}
  BY DownloadAssumption DEF Types
<1>2. Sent(m) = Append(IF Len(L) < MaxInFlight THEN L ELSE Tail(L), m) BY DEF Sent
<1> HIDE DEF L
<1>3. CASE Len(L) < MaxInFlight
  <2>1. Sent(m) = Append(L, m) BY <1>2, <1>3
  <2>2. /\ Append(L, m) \in Seq(Messages) /\ Len(Append(L, m)) = Len(L) + 1
        /\ \A k \in 1 .. Len(L) : Append(L, m)[k] = L[k]
        /\ Append(L, m)[Len(L) + 1] = m
    BY <1>1, AppendProperties
  <2>3. Len(Sent(m)) <= MaxInFlight BY <1>1, <1>3, <2>1, <2>2
  <2>4. \A k \in 1 .. Len(L) - 0 : Sent(m)[k] = L[k + 0] BY <1>1, <2>1, <2>2
  <2> QED BY <1>1, <2>1, <2>2, <2>3, <2>4 DEF L
<1>4. CASE ~(Len(L) < MaxInFlight)
  <2> DEFINE T == Tail(L)
  <2>1. L # <<>> BY <1>1, <1>4
  <2>2. T \in Seq(Messages) /\ Len(T) = Len(L) - 1 /\ \A k \in 1 .. Len(T) : T[k] = L[k + 1]
    BY <1>1, <2>1, HeadTailProperties
  <2>3. Sent(m) = Append(T, m) BY <1>2, <1>4
  <2> HIDE DEF T
  <2>4. /\ Append(T, m) \in Seq(Messages) /\ Len(Append(T, m)) = Len(T) + 1
        /\ \A k \in 1 .. Len(T) : Append(T, m)[k] = T[k]
        /\ Append(T, m)[Len(T) + 1] = m
    BY <2>2, AppendProperties
  <2>5. Len(L) = MaxInFlight /\ Len(L) >= 1 BY <1>1, <1>4
  <2>6. \A k \in 1 .. Len(L) - 1 : Sent(m)[k] = L[k + 1] BY <1>1, <2>2, <2>3, <2>4
  <2>7. Len(Sent(m)) = Len(L) - 1 + 1 BY <1>1, <2>2, <2>3, <2>4
  <2>8. Sent(m)[Len(Sent(m))] = m BY <1>1, <2>2, <2>3, <2>4
  <2>9. Sent(m) \in Seq(Messages) BY <2>3, <2>4
  <2> QED BY <1>1, <2>5, <2>6, <2>7, <2>8, <2>9 DEF L
<1> QED BY <1>3, <1>4

----------------------------------------------------------------------------
(* The server.                                                             *)

\* A file that is opened has an empty window.
LEMMA OpenedHolds ==
  ASSUME Types, NEW s \in Servers, s.downloadName \in Files
  PROVE  /\ Opened(s) \in Servers
         /\ WindowOf(Opened(s))
         /\ Opened(s) = [s EXCEPT !.download = TRUE, !.wwwDl = FALSE, !.fallback = FALSE,
                            !.clientBlock = 0, !.xmitBlock = 0, !.currentBlock = 0, !.eof = FALSE]
<1>1. Opened(s) \in Servers BY DEF Opened, Servers
<1>2. WindowOf(Opened(s))
  <2>1. size[s.downloadName] \in Nat BY DEF Types
  <2>2. /\ Opened(s).currentBlock = 0 /\ Opened(s).clientBlock = 0
        /\ Opened(s).downloadName = s.downloadName
    BY DEF Opened, Servers
  <2>3. 0 .. 0 - 1 = {} OBVIOUS
  <2> QED BY <2>1, <2>2, <2>3, WindowNumber DEF WindowOf
<1> QED BY <1>1, <1>2 DEF Opened

\* Filling the window only adds to it: what is in it keeps its slot.
LEMMA FilledHolds ==
  ASSUME Types, NEW s \in Servers, s.downloadName \in Files, WindowOf(s)
  PROVE  /\ Filled(s) \in Servers
         /\ WindowOf(Filled(s))
         /\ Filled(s) = [s EXCEPT !.currentBlock = Filled(s).currentBlock,
                                  !.eof = Filled(s).eof, !.blocks = Filled(s).blocks]
         /\ s.currentBlock <= Filled(s).currentBlock
<1> DEFINE last == size[s.downloadName]
           end  == IF s.clientBlock + W <= last THEN s.clientBlock + W ELSE last + 1
           N(k) == {n \in s.currentBlock .. end - 1 : n % W = k}
           bl   == [k \in 0 .. W - 1 |->
                      IF N(k) = {} THEN s.blocks[k] ELSE Block(s.downloadName, Max(N(k)))]
           e    == end = last + 1
<1>1. CASE s.eof
  <2>1. Filled(s) = s BY <1>1 DEF Filled
  <2>2. s = [s EXCEPT !.currentBlock = s.currentBlock, !.eof = s.eof, !.blocks = s.blocks]
    BY DEF Servers
  <2>3. s.currentBlock \in Nat BY DEF Servers
  <2>4. s.currentBlock <= s.currentBlock BY <2>3
  <2> QED BY <2>1, <2>2, <2>4
<1>2. CASE ~s.eof
  <2>1. /\ s.currentBlock \in Nat /\ s.clientBlock \in Nat /\ s.blocks \in [0 .. W - 1 -> Blocks]
        /\ last \in 1 .. MaxBlocks /\ last \in Nat /\ MaxBlocks \in Nat
    <3>1. s.currentBlock \in Nat /\ s.clientBlock \in Nat /\ s.blocks \in [0 .. W - 1 -> Blocks]
      BY DEF Servers
    <3>2. MaxBlocks \in Nat BY DownloadAssumption
    <3>3. last \in 1 .. MaxBlocks BY DEF Types
    <3> QED BY <3>1, <3>2, <3>3
  <2>2. s.currentBlock <= last + 1 /\ s.currentBlock - s.clientBlock <= W
        /\ \A n \in s.clientBlock .. s.currentBlock - 1 : s.blocks[n % W] = Block(s.downloadName, n)
    BY DEF WindowOf
  <2>3. end \in Nat /\ s.currentBlock <= end /\ end <= last + 1 /\ end - s.clientBlock <= W
    <3> DEFINE c == s.clientBlock
               b == s.currentBlock
    <3>1. c \in Nat /\ b \in Nat /\ last \in Nat /\ W \in Nat BY <2>1, WindowNumber
    <3>2. b <= last + 1 /\ b - c <= W BY <2>2
    <3>3. end = IF c + W <= last THEN c + W ELSE last + 1 OBVIOUS
    <3> HIDE DEF c, b, last, end
    <3>4. CASE c + W <= last
      <4>1. end = c + W BY <3>3, <3>4
      <4>2. end \in Nat /\ end <= last + 1 /\ end - c <= W BY <3>1, <3>4, <4>1
      <4>3. b <= end BY <3>1, <3>2, <4>1
      <4> QED BY <4>2, <4>3 DEF c, b
    <3>5. CASE ~(c + W <= last)
      <4>1. end = last + 1 BY <3>3, <3>5
      <4>2. end \in Nat /\ end <= last + 1 /\ end - c <= W BY <3>1, <3>5, <4>1
      <4>3. b <= end BY <3>2, <4>1
      <4> QED BY <4>2, <4>3 DEF c, b
    <3> QED BY <3>4, <3>5 DEF c, b
  <2>4. Filled(s) = [s EXCEPT !.currentBlock = end, !.eof = e, !.blocks = bl]
    BY <1>2, <2>1 DEF Filled, Servers
  <2> HIDE DEF end, last
  <2>5. ASSUME NEW k \in 0 .. W - 1, N(k) # {}
        PROVE  Max(N(k)) \in N(k) /\ \A n \in N(k) : n <= Max(N(k))
    <3>1. N(k) \in SUBSET Nat /\ \A n \in N(k) : n <= end - 1 BY <2>1, <2>3
    <3>2. end - 1 \in Nat
      <4>1. PICK n \in N(k) : TRUE BY <2>5
      <4> QED BY <2>1, <2>3, <4>1
    <3>3. \E n \in N(k) : \A i \in N(k) : i <= n
      <4> HIDE DEF N
      <4> QED BY <2>5, <3>1, <3>2, GreatestExists
    <3> QED BY <3>1, <3>3 DEF Max
  <2>6. bl \in [0 .. W - 1 -> Blocks]
    <3> SUFFICES ASSUME NEW k \in 0 .. W - 1 PROVE bl[k] \in Blocks OBVIOUS
    <3>1. CASE N(k) = {} BY <2>1, <3>1
    <3>2. CASE N(k) # {}
      <4>1. Max(N(k)) \in 0 .. MaxBlocks
        <5>1. Max(N(k)) \in N(k) BY <2>5, <3>2
        <5>2. end - 1 <= MaxBlocks BY <2>1, <2>3 DEF last
        <5> QED BY <2>1, <2>3, <5>1, <5>2
      <4> QED BY <3>2, <4>1 DEF Block, Blocks
    <3> QED BY <3>1, <3>2
  <2>7. ASSUME NEW n \in s.clientBlock .. end - 1 PROVE bl[n % W] = Block(s.downloadName, n)
    <3>0. n \in Nat /\ n \in Int /\ W \in Nat \ {0} BY <2>1, <2>3, WindowNumber
    <3>1. n \in Nat /\ n % W \in 0 .. W - 1 BY <3>0, SlotType
    <3>2. CASE n < s.currentBlock
      <4>1. N(n % W) = {}
        <5> SUFFICES ASSUME NEW m \in N(n % W) PROVE FALSE OBVIOUS
        <5>1. m \in s.currentBlock .. end - 1 /\ m % W = n % W OBVIOUS
        <5>i. end \in Int /\ s.currentBlock \in Int /\ s.clientBlock \in Int /\ W \in Int
          BY <2>1, <2>3, WindowNumber
        <5>n. n \in Int /\ n >= s.clientBlock BY <5>i
        <5>m. m \in Int /\ s.currentBlock <= m /\ m < end BY <5>1, <5>i
        <5>e. end - s.clientBlock <= W BY <2>3
        <5>2. m \in Int /\ n < m /\ m - n < W BY <3>2, <5>i, <5>n, <5>m, <5>e
        <5> QED BY <3>0, <5>1, <5>2, SlotsApart
      <4>2. s.blocks[n % W] = Block(s.downloadName, n) BY <2>1, <2>2, <3>1, <3>2
      <4> QED BY <3>1, <4>1, <4>2
    <3>3. CASE ~(n < s.currentBlock)
      <4>1. n \in N(n % W) BY <2>1, <2>3, <3>1, <3>3
      <4>2. Max(N(n % W)) = n
        <5>1. Max(N(n % W)) \in N(n % W) /\ n <= Max(N(n % W)) BY <2>5, <3>1, <4>1
        <5> DEFINE m == Max(N(n % W))
        <5>2. m \in s.currentBlock .. end - 1 /\ m % W = n % W /\ n <= m BY <5>1
        <5> HIDE DEF m
        <5>3. m \in Int /\ m - n < W BY <2>1, <2>3, <3>0, <5>2
        <5>4. ~(n < m) BY <3>0, <5>2, <5>3, SlotsApart
        <5>5. m = n BY <3>0, <5>2, <5>3, <5>4
        <5> QED BY <5>5 DEF m
      <4> QED BY <3>1, <4>1, <4>2
    <3> QED BY <3>2, <3>3
  <2>8. e \in BOOLEAN OBVIOUS
  <2> HIDE DEF bl, e, N
  <2>9. Filled(s) \in Servers BY <2>3, <2>4, <2>6, <2>8 DEF Servers
  <2>10. Filled(s).currentBlock = end /\ Filled(s).eof = e /\ Filled(s).blocks = bl
         /\ Filled(s).clientBlock = s.clientBlock /\ Filled(s).downloadName = s.downloadName
    BY <2>4 DEF Servers
  <2>11. WindowOf(Filled(s)) BY <2>3, <2>7, <2>10 DEF WindowOf, last
  <2> QED BY <2>3, <2>4, <2>9, <2>10, <2>11
<1> QED BY <1>1, <1>2 DEF Servers

\* The two ways of SV_WriteDownloadToClient, a redirect or a block of the window.
RedirectOf(s) == [kind |-> "redirect", ack |-> s.lastClientCommand, web |-> s.downloadName]
BlockOf(s, n) == [kind |-> "block", ack |-> s.lastClientCommand, number |-> Short(n),
                  data |-> s.blocks[n % W]]

RedirectSent ==
  /\ ~server.download /\ server.redirects /\ ~server.fallback
  /\ server' = [server EXCEPT !.wwwDl = TRUE]
  /\ toClient' = Sent(RedirectOf(server))

BlockSent ==
  /\ server'.download
  /\ \/ /\ server.download
        /\ server'.clientBlock = server.clientBlock
        /\ server'.fallback = server.fallback /\ server'.wwwDl = server.wwwDl
        /\ server.currentBlock <= server'.currentBlock
     \/ /\ ~server.download /\ (server.redirects => server.fallback)
        /\ server'.clientBlock = 0 /\ ~server'.fallback /\ ~server'.wwwDl
  /\ \/ /\ UNCHANGED toClient
        /\ server'.xmitBlock = IF server.download THEN server.xmitBlock ELSE 0
     \/ \E n \in {IF server.download THEN server.xmitBlock ELSE 0, server'.clientBlock} :
          /\ n \in Nat /\ n # server'.currentBlock /\ server'.clientBlock # server'.currentBlock
          /\ server'.xmitBlock = n + 1
          /\ toClient' = Sent(BlockOf(server', n))

\* What it keeps in both.
WriteKeeps ==
  /\ server.downloadName # None /\ ~server.wwwing /\ UNCHANGED <<size, client>>
  /\ server'.downloadName = server.downloadName /\ server'.redirects = server.redirects
  /\ server'.wwwing = server.wwwing /\ server'.dropped = server.dropped
  /\ server'.lastClientCommand = server.lastClientCommand

\* What the sending of a block or a redirect does.
LEMMA WriteStep ==
  ASSUME Types, Window, NEW late \in BOOLEAN, SV_WriteDownloadToClient(late)
  PROVE  server' \in Servers /\ Window' /\ WriteKeeps /\ (RedirectSent \/ BlockSent)
<1> DEFINE b == IF server.download THEN server ELSE Opened(server)
           f == Filled(b)
           s == IF f.xmitBlock = f.currentBlock /\ late
                THEN [f EXCEPT !.xmitBlock = f.clientBlock] ELSE f
           redirect == ~server.download /\ server.redirects /\ ~server.fallback
           none == s.clientBlock = s.currentBlock \/ s.xmitBlock = s.currentBlock
<1>1. /\ server.downloadName # None /\ ~server.wwwing /\ UNCHANGED <<size, client>>
      /\ redirect => /\ server' = [server EXCEPT !.wwwDl = TRUE]
                     /\ toClient' = Sent(RedirectOf(server))
      /\ ~redirect /\ none => server' = f /\ UNCHANGED toClient
      /\ ~redirect /\ ~none => /\ server' = [s EXCEPT !.xmitBlock = s.xmitBlock + 1]
                               /\ toClient' = Sent([kind |-> "block", ack |-> server.lastClientCommand,
                                                    number |-> Short(s.xmitBlock),
                                                    data |-> s.blocks[s.xmitBlock % W]])
  BY Zenon DEF SV_WriteDownloadToClient, RedirectOf
<1>2. server \in Servers /\ server.downloadName \in Files
  BY <1>1 DEF Types, Servers
<1>3. /\ b \in Servers /\ WindowOf(b) /\ b.downloadName = server.downloadName /\ b.download
      /\ b.redirects = server.redirects /\ b.wwwing = server.wwwing /\ b.dropped = server.dropped
      /\ b.lastClientCommand = server.lastClientCommand
      /\ server.download => b = server
      /\ ~server.download => /\ b.clientBlock = 0 /\ b.xmitBlock = 0 /\ ~b.fallback /\ ~b.wwwDl
  <2>1. CASE server.download BY <1>2, <2>1 DEF Window
  <2>2. CASE ~server.download
    <3>1. b = Opened(server) BY <2>2
    <3>2. Opened(server) \in Servers /\ WindowOf(Opened(server)) BY <1>2, OpenedHolds
    <3> QED BY <1>2, <2>2, <3>1, <3>2 DEF Opened, Servers
  <2> QED BY <2>1, <2>2
<1>x. b.xmitBlock = IF server.download THEN server.xmitBlock ELSE 0 BY <1>3
<1> HIDE DEF b
<1>4. /\ f \in Servers /\ WindowOf(f) /\ f.downloadName = b.downloadName /\ f.download
      /\ f.redirects = b.redirects /\ f.wwwing = b.wwwing /\ f.dropped = b.dropped
      /\ f.lastClientCommand = b.lastClientCommand /\ f.clientBlock = b.clientBlock
      /\ f.xmitBlock = b.xmitBlock /\ f.fallback = b.fallback /\ f.wwwDl = b.wwwDl
      /\ b.currentBlock <= f.currentBlock
  <2>1. /\ Filled(b) \in Servers /\ WindowOf(Filled(b)) /\ b.currentBlock <= Filled(b).currentBlock
        /\ Filled(b) = [b EXCEPT !.currentBlock = Filled(b).currentBlock,
                                 !.eof = Filled(b).eof, !.blocks = Filled(b).blocks]
    BY <1>2, <1>3, FilledHolds
  <2> HIDE DEF f
  <2>2. f = [b EXCEPT !.currentBlock = Filled(b).currentBlock,
                                 !.eof = Filled(b).eof, !.blocks = Filled(b).blocks]
    BY <2>1 DEF f
  <2>3. /\ f.downloadName = b.downloadName /\ f.download
        /\ f.redirects = b.redirects /\ f.wwwing = b.wwwing /\ f.dropped = b.dropped
        /\ f.lastClientCommand = b.lastClientCommand /\ f.clientBlock = b.clientBlock
        /\ f.xmitBlock = b.xmitBlock /\ f.fallback = b.fallback /\ f.wwwDl = b.wwwDl
    BY <1>3, <2>2 DEF Servers
  <2>4. f \in Servers /\ WindowOf(f) /\ b.currentBlock <= f.currentBlock BY <2>1 DEF f
  <2> QED BY <2>3, <2>4
<1> HIDE DEF f
<1>5. CASE redirect
  <2>1. server' = [server EXCEPT !.wwwDl = TRUE] /\ toClient' = Sent(RedirectOf(server))
    BY <1>1, <1>5
  <2>2. server' \in Servers BY <1>2, <2>1 DEF Servers
  <2>3. Window' BY <1>2, <1>5, <2>1 DEF Window, Servers
  <2>4. WriteKeeps BY <1>1, <1>2, <2>1 DEF WriteKeeps, Servers
  <2> QED BY <1>5, <2>1, <2>2, <2>3, <2>4 DEF RedirectSent
<1>6. CASE ~redirect /\ none
  <2>1. server' = f /\ UNCHANGED toClient BY <1>1, <1>6
  <2>2. Window'
    BY <1>1, <1>3, <1>4, <2>1 DEF Window, WindowOf
  <2>3. WriteKeeps BY <1>1, <1>3, <1>4, <2>1 DEF WriteKeeps
  <2>4. BlockSent BY <1>3, <1>4, <1>6, <1>x, <2>1 DEF BlockSent
  <2> QED BY <1>4, <2>1, <2>2, <2>3, <2>4
<1>7. CASE ~redirect /\ ~none
  <2> DEFINE n == s.xmitBlock
  <2>1. /\ n \in {b.xmitBlock, f.clientBlock} /\ n \in Nat
        /\ n # f.currentBlock /\ f.clientBlock # f.currentBlock
        /\ s \in Servers /\ s.blocks = f.blocks
    BY <1>4, <1>7 DEF Servers
  <2>2. server' = [f EXCEPT !.xmitBlock = n + 1]
    <3>1. server' = [s EXCEPT !.xmitBlock = s.xmitBlock + 1] BY <1>1, <1>7
    <3> QED BY <1>4, <3>1 DEF Servers
  <2>3. toClient' = Sent([kind |-> "block", ack |-> server.lastClientCommand,
                          number |-> Short(n), data |-> s.blocks[n % W]])
    BY <1>1, <1>7
  <2> HIDE DEF n, s
  <2>4. /\ server' \in Servers /\ server'.xmitBlock = n + 1 /\ server'.blocks = f.blocks
        /\ server'.currentBlock = f.currentBlock /\ server'.clientBlock = f.clientBlock
        /\ server'.downloadName = f.downloadName /\ server'.download
        /\ server'.lastClientCommand = f.lastClientCommand
        /\ server'.redirects = f.redirects /\ server'.wwwing = f.wwwing
        /\ server'.dropped = f.dropped /\ server'.fallback = f.fallback /\ server'.wwwDl = f.wwwDl
    <3> DEFINE x == n + 1
    <3>1. x \in Nat BY <2>1
    <3>2. server' = [f EXCEPT !.xmitBlock = x] BY <2>2
    <3>3. x = n + 1 OBVIOUS
    <3> HIDE DEF x
    <3>4. server' \in Servers BY <1>4, <3>1, <3>2 DEF Servers
    <3>5. server'.xmitBlock = x /\ server'.blocks = f.blocks
          /\ server'.currentBlock = f.currentBlock /\ server'.clientBlock = f.clientBlock
          /\ server'.downloadName = f.downloadName /\ server'.download
          /\ server'.lastClientCommand = f.lastClientCommand
      BY <1>4, <3>2 DEF Servers
    <3>6. server'.redirects = f.redirects /\ server'.wwwing = f.wwwing
          /\ server'.dropped = f.dropped /\ server'.fallback = f.fallback /\ server'.wwwDl = f.wwwDl
      BY <1>4, <3>2 DEF Servers
    <3> QED BY <3>3, <3>4, <3>5, <3>6
  <2>5. Window' BY <1>1, <1>3, <1>4, <2>4 DEF Window, WindowOf
  <2>6. WriteKeeps BY <1>1, <1>3, <1>4, <2>4 DEF WriteKeeps
  <2>7. toClient' = Sent(BlockOf(server', n))
    BY <1>3, <1>4, <2>1, <2>3, <2>4 DEF BlockOf
  <2>8. BlockSent
    <3>1. n \in {IF server.download THEN server.xmitBlock ELSE 0, server'.clientBlock}
      BY <1>x, <2>1, <2>4
    <3>2. \E m \in {IF server.download THEN server.xmitBlock ELSE 0, server'.clientBlock} :
          /\ m \in Nat /\ m # server'.currentBlock /\ server'.clientBlock # server'.currentBlock
          /\ server'.xmitBlock = m + 1
          /\ toClient' = Sent(BlockOf(server', m))
      BY <2>1, <2>4, <2>7, <3>1
    <3> QED BY <1>3, <1>4, <1>7, <2>4, <3>2 DEF BlockSent
  <2> QED BY <2>4, <2>5, <2>6, <2>8
<1> QED BY <1>5, <1>6, <1>7

\* What SV_ClientCommand does for each command: its own effect on the server.
NextOf(s) == [s EXCEPT !.lastClientCommand = s.lastClientCommand + 1]

CommandStep(c) ==
  /\ c.name = "download" => server' = [NextOf(server) EXCEPT !.downloadName = c.arg,
                                                             !.download = FALSE]
  /\ c.name = "nextdl" =>
       IF c.arg # server.clientBlock
       THEN server' = [NextOf(server) EXCEPT !.dropped = "broken download",
                                             !.downloadName = None, !.download = FALSE]
       ELSE IF Empty(server.blocks[c.arg % W])
       THEN server' = [NextOf(server) EXCEPT !.downloadName = None, !.download = FALSE]
       ELSE server' = [NextOf(server) EXCEPT !.clientBlock = server.clientBlock + 1]
  /\ c.name = "stopdl" => server' = [NextOf(server) EXCEPT !.downloadName = None,
                                                           !.download = FALSE]
  /\ c.name = "donedl" => server' = NextOf(server)
  /\ c.name = "wwwdl" =>
       IF ~server.wwwDl \/ (c.arg # "ack" /\ ~server.wwwing)
       THEN server' = [NextOf(server) EXCEPT !.dropped = "unexpected wwwdl",
                                             !.downloadName = None, !.download = FALSE]
       ELSE IF c.arg = "ack" THEN server' = [NextOf(server) EXCEPT !.wwwing = TRUE]
       ELSE server' = [NextOf(server) EXCEPT !.downloadName = None, !.download = FALSE,
                         !.wwwing = FALSE, !.fallback = @ \/ c.arg = "fail"]

\* What the execution of the client's next command does.
LEMMA CommandEffect ==
  ASSUME Types, SV_ClientCommand
  PROVE  LET c == client.commands[server.lastClientCommand + 1]
         IN  /\ server.dropped = "no" /\ server.lastClientCommand < Len(client.commands)
             /\ server.lastClientCommand + 1 \in 1 .. Len(client.commands)
             /\ UNCHANGED <<size, client>>
             /\ c \in ClientCommands
             /\ NextOf(server) \in Servers
             /\ CommandStep(c)
             /\ toClient' = IF c.name = "donedl" \/ (c = WwwDl("fail") /\ server'.dropped = "no")
                            THEN Sent([kind |-> "gamestate", ack |-> server.lastClientCommand])
                            ELSE toClient
<1> DEFINE c == client.commands[server.lastClientCommand + 1]
           s == [server EXCEPT !.lastClientCommand = @ + 1]
           e == CASE c.name = "download" -> [s EXCEPT !.downloadName = c.arg, !.download = FALSE]
                  [] c.name = "nextdl"   -> SV_NextDownload_f(s, c.arg)
                  [] c.name = "stopdl"   -> SV_CloseDownload(s)
                  [] c.name = "wwwdl"    -> SV_WWWDownload_f(s, c.arg)
                  [] c.name = "donedl"   -> s
<1>1. /\ server.dropped = "no" /\ server.lastClientCommand < Len(client.commands)
      /\ UNCHANGED <<size, client>>
      /\ server' = e
      /\ toClient' = IF c.name = "donedl" \/ (c = Command("wwwdl", "fail") /\ e.dropped = "no")
                     THEN Sent([kind |-> "gamestate", ack |-> server.lastClientCommand])
                     ELSE toClient
  BY DEF SV_ClientCommand
<1>2. /\ server.lastClientCommand \in Nat /\ client.commands \in Seq(ClientCommands)
      /\ server \in Servers
  BY DEF Types, Servers, Clients
<1>3. server.lastClientCommand + 1 \in 1 .. Len(client.commands) BY <1>1, <1>2
<1>4. c \in ClientCommands BY <1>2, <1>3
<1>5. s = NextOf(server) /\ s \in Servers
  <2> DEFINE n == server.lastClientCommand + 1
  <2>1. n \in Nat /\ s = [server EXCEPT !.lastClientCommand = n] BY <1>2
  <2>2. NextOf(server) = [server EXCEPT !.lastClientCommand = n] BY DEF NextOf
  <2> HIDE DEF n
  <2>3. s \in Servers BY <1>2, <2>1 DEF Servers
  <2> QED BY <2>1, <2>2, <2>3
<1>6. /\ s.clientBlock = server.clientBlock /\ s.blocks = server.blocks
      /\ s.wwwDl = server.wwwDl /\ s.wwwing = server.wwwing
  BY <1>2, <1>5 DEF NextOf, Servers
<1>7. CommandStep(c)
  <2> HIDE DEF s, c
  <2>1. CASE c.name = "download"
    <3>1. server' = [s EXCEPT !.downloadName = c.arg, !.download = FALSE] BY <1>1, <2>1
    <3> QED BY <1>5, <2>1, <3>1 DEF CommandStep
  <2>2. CASE c.name = "nextdl"
    <3>1. server' = SV_NextDownload_f(s, c.arg) BY <1>1, <2>2
    <3> QED BY <1>5, <1>6, <2>2, <3>1
            DEF CommandStep, SV_NextDownload_f, Dropped, SV_CloseDownload
  <2>3. CASE c.name = "stopdl"
    <3>1. server' = SV_CloseDownload(s) BY <1>1, <2>3
    <3> QED BY <1>5, <2>3, <3>1 DEF CommandStep, SV_CloseDownload
  <2>4. CASE c.name = "wwwdl"
    <3>1. server' = SV_WWWDownload_f(s, c.arg) BY <1>1, <2>4
    <3>2. CASE ~s.wwwDl \/ (c.arg # "ack" /\ ~s.wwwing)
      <4>1. server' = Dropped(s, "unexpected wwwdl") BY <3>1, <3>2 DEF SV_WWWDownload_f
      <4> QED BY <1>5, <1>6, <2>4, <3>2, <4>1 DEF CommandStep, Dropped
    <3>3. CASE s.wwwDl /\ c.arg = "ack"
      <4>1. server' = [s EXCEPT !.wwwing = TRUE] BY <3>1, <3>3 DEF SV_WWWDownload_f
      <4> QED BY <1>5, <1>6, <2>4, <3>3, <4>1 DEF CommandStep
    <3>4. CASE s.wwwDl /\ c.arg # "ack" /\ s.wwwing
      <4>1. server' = [SV_CloseDownload(s) EXCEPT !.wwwing = FALSE,
                                                  !.fallback = @ \/ c.arg = "fail"]
        BY <3>1, <3>4 DEF SV_WWWDownload_f
      <4>2. server' = [s EXCEPT !.downloadName = None, !.download = FALSE,
                         !.wwwing = FALSE, !.fallback = @ \/ c.arg = "fail"]
        BY <1>5, <4>1 DEF SV_CloseDownload, Servers
      <4> QED BY <1>5, <1>6, <2>4, <3>4, <4>2 DEF CommandStep
    <3> QED BY <3>2, <3>3, <3>4
  <2>5. CASE c.name = "donedl"
    <3>1. server' = s BY <1>1, <2>5
    <3> QED BY <1>5, <2>5, <3>1 DEF CommandStep
  <2>6. c.name \in {"download", "nextdl", "stopdl", "wwwdl", "donedl"}
    BY <1>4 DEF ClientCommands, c
  <2> QED BY <2>1, <2>2, <2>3, <2>4, <2>5, <2>6
<1> HIDE DEF c
<1>8. toClient' = IF c.name = "donedl" \/ (c = WwwDl("fail") /\ server'.dropped = "no")
                  THEN Sent([kind |-> "gamestate", ack |-> server.lastClientCommand])
                  ELSE toClient
  <2> HIDE DEF e, s
  <2> QED BY <1>1 DEF WwwDl
<1> QED BY <1>1, <1>3, <1>4, <1>5, <1>7, <1>8 DEF c

\* A command keeps the server's types, its window and who was dropped.
LEMMA CommandKeeps ==
  ASSUME Types, Window, Gone, SV_ClientCommand
  PROVE  /\ server' \in Servers /\ Window' /\ Gone'
         /\ server'.lastClientCommand = server.lastClientCommand + 1
         /\ server'.redirects = server.redirects
<1> DEFINE c == client.commands[server.lastClientCommand + 1]
           n == NextOf(server)
<1>1. /\ server.dropped = "no" /\ UNCHANGED <<size, client>>
      /\ c \in ClientCommands /\ n \in Servers /\ CommandStep(c)
  BY CommandEffect
<1>2. server \in Servers /\ size \in [Files -> 1 .. MaxBlocks] /\ size' = size
  BY <1>1 DEF Types
<1> HIDE DEF c
<1>3. /\ n.lastClientCommand = server.lastClientCommand + 1 /\ n.redirects = server.redirects
      /\ n.dropped = "no" /\ n.download = server.download
      /\ n.downloadName = server.downloadName /\ n.clientBlock = server.clientBlock
      /\ n.currentBlock = server.currentBlock /\ n.blocks = server.blocks
      /\ n.fallback = server.fallback /\ n.wwwing = server.wwwing /\ n.wwwDl = server.wwwDl
  BY <1>1, <1>2 DEF NextOf, Servers
<1>4. CASE c.name = "download"
  <2>1. server' = [n EXCEPT !.downloadName = c.arg, !.download = FALSE] /\ c.arg \in Files
    BY <1>1, <1>4 DEF CommandStep, ClientCommands
  <2> HIDE DEF n
  <2>2. server' \in Servers BY <1>1, <2>1 DEF Servers
  <2>3. ~server'.download /\ server'.dropped = "no" /\ server'.redirects = n.redirects
        /\ server'.lastClientCommand = n.lastClientCommand
    BY <1>1, <1>3, <2>1 DEF Servers
  <2> QED BY <1>3, <2>2, <2>3 DEF Window, Gone
<1>5. CASE /\ c.name = "nextdl" /\ c.arg = server.clientBlock
           /\ ~Empty(server.blocks[c.arg % W])
  <2> DEFINE b == server.clientBlock + 1
  <2>1. server' = [n EXCEPT !.clientBlock = b]
    BY <1>1, <1>5 DEF CommandStep
  <2>0. server.clientBlock \in Nat /\ server.currentBlock \in Nat BY <1>2 DEF Servers
  <2>2. b \in Nat /\ b > server.clientBlock /\ b = server.clientBlock + 1 BY <2>0
  <2> HIDE DEF n, b
  <2>3. server' \in Servers BY <1>1, <2>1, <2>2 DEF Servers
  <2>4. /\ server'.download = n.download /\ server'.downloadName = n.downloadName
        /\ server'.dropped = n.dropped /\ server'.redirects = n.redirects
        /\ server'.lastClientCommand = n.lastClientCommand /\ server'.clientBlock = b
        /\ server'.currentBlock = n.currentBlock /\ server'.blocks = n.blocks
    BY <1>1, <2>1 DEF Servers
  <2>5. Gone' BY <1>1, <1>3, <2>4 DEF Gone
  <2>6. Window'
    <3> SUFFICES ASSUME server.download PROVE server'.downloadName # None /\ WindowOf(server)'
      BY <1>3, <2>4 DEF Window
    <3>1. server.downloadName # None /\ WindowOf(server) BY DEF Window
    <3> QED BY <1>2, <1>3, <2>0, <2>2, <2>4, <3>1, WindowNumber DEF WindowOf
  <2> QED BY <1>3, <2>3, <2>4, <2>5, <2>6
<1>6. ASSUME NEW d \in {"no", "broken download", "unexpected wwwdl"}, NEW w \in BOOLEAN,
             NEW f \in BOOLEAN,
             server' = [n EXCEPT !.dropped = d, !.downloadName = None, !.download = FALSE,
                                 !.wwwing = w, !.fallback = f]
      PROVE  /\ server' \in Servers /\ Window' /\ Gone'
             /\ server'.lastClientCommand = server.lastClientCommand + 1
             /\ server'.redirects = server.redirects
  <2> HIDE DEF n
  <2>1. server' \in Servers BY <1>1, <1>6 DEF Servers
  <2>2. ~server'.download /\ server'.downloadName = None /\ server'.redirects = n.redirects
        /\ server'.lastClientCommand = n.lastClientCommand
    BY <1>1, <1>6 DEF Servers
  <2> QED BY <1>3, <2>1, <2>2 DEF Window, Gone
<1>7. CASE c.name = "nextdl" /\ ~(/\ c.arg = server.clientBlock
                                  /\ ~Empty(server.blocks[c.arg % W]))
  <2>1. \/ server' = [n EXCEPT !.dropped = "broken download", !.downloadName = None,
                               !.download = FALSE]
        \/ server' = [n EXCEPT !.downloadName = None, !.download = FALSE]
    BY <1>1, <1>7 DEF CommandStep
  <2> HIDE DEF n
  <2>2. n.wwwing \in BOOLEAN /\ n.fallback \in BOOLEAN BY <1>1 DEF Servers
  <2>3. CASE server' = [n EXCEPT !.dropped = "broken download", !.downloadName = None,
                                 !.download = FALSE]
    <3>1. server' = [n EXCEPT !.dropped = "broken download", !.downloadName = None,
                              !.download = FALSE, !.wwwing = n.wwwing, !.fallback = n.fallback]
      BY <1>1, <2>3 DEF Servers
    <3> QED BY <1>6, <2>2, <3>1 DEF n
  <2>4. CASE server' = [n EXCEPT !.downloadName = None, !.download = FALSE]
    <3>1. server' = [n EXCEPT !.dropped = "no", !.downloadName = None,
                              !.download = FALSE, !.wwwing = n.wwwing, !.fallback = n.fallback]
      BY <1>1, <1>3, <2>4 DEF Servers
    <3> QED BY <1>6, <2>2, <3>1 DEF n
  <2> QED BY <2>1, <2>3, <2>4
<1>8. CASE c.name = "stopdl"
  <2>1. server' = [n EXCEPT !.downloadName = None, !.download = FALSE]
    BY <1>1, <1>8 DEF CommandStep
  <2> HIDE DEF n
  <2>2. server' = [n EXCEPT !.dropped = "no", !.downloadName = None, !.download = FALSE,
                              !.wwwing = n.wwwing, !.fallback = n.fallback]
    BY <1>1, <1>3, <2>1 DEF Servers
  <2>3. n.wwwing \in BOOLEAN /\ n.fallback \in BOOLEAN BY <1>1 DEF Servers
  <2> QED BY <1>6, <2>2, <2>3 DEF n
<1>9. CASE c.name = "donedl"
  <2>1. server' = n BY <1>1, <1>9 DEF CommandStep
  <2> HIDE DEF n
  <2>2. Gone' BY <1>3, <2>1 DEF Gone
  <2>3. Window' BY <1>2, <1>3, <2>1 DEF Window, WindowOf
  <2> QED BY <1>1, <1>3, <2>1, <2>2, <2>3
<1>10. CASE c.name = "wwwdl" /\ ~(~server.wwwDl \/ (c.arg # "ack" /\ ~server.wwwing))
            /\ c.arg = "ack"
  <2>1. server' = [n EXCEPT !.wwwing = TRUE] BY <1>1, <1>10 DEF CommandStep
  <2> HIDE DEF n
  <2>2. server' \in Servers BY <1>1, <2>1 DEF Servers
  <2>3. /\ server'.download = n.download /\ server'.downloadName = n.downloadName
        /\ server'.dropped = n.dropped /\ server'.redirects = n.redirects
        /\ server'.lastClientCommand = n.lastClientCommand /\ server'.clientBlock = n.clientBlock
        /\ server'.currentBlock = n.currentBlock /\ server'.blocks = n.blocks
    BY <1>1, <2>1 DEF Servers
  <2>4. Gone' BY <1>3, <2>3 DEF Gone
  <2>5. Window' BY <1>2, <1>3, <2>3 DEF Window, WindowOf
  <2> QED BY <1>3, <2>2, <2>3, <2>4, <2>5
<1>11. CASE c.name = "wwwdl" /\ (~server.wwwDl \/ (c.arg # "ack" /\ ~server.wwwing))
  <2>1. server' = [n EXCEPT !.dropped = "unexpected wwwdl", !.downloadName = None,
                               !.download = FALSE]
    BY <1>1, <1>11 DEF CommandStep
  <2> HIDE DEF n
  <2>2. server' = [n EXCEPT !.dropped = "unexpected wwwdl", !.downloadName = None,
                            !.download = FALSE, !.wwwing = n.wwwing, !.fallback = n.fallback]
    BY <1>1, <2>1 DEF Servers
  <2>3. n.wwwing \in BOOLEAN /\ n.fallback \in BOOLEAN BY <1>1 DEF Servers
  <2> QED BY <1>6, <2>2, <2>3 DEF n
<1>12. CASE c.name = "wwwdl" /\ ~(~server.wwwDl \/ (c.arg # "ack" /\ ~server.wwwing))
            /\ c.arg # "ack"
  <2> DEFINE f == n.fallback \/ c.arg = "fail"
  <2>1. server' = [n EXCEPT !.downloadName = None, !.download = FALSE,
                            !.wwwing = FALSE, !.fallback = f]
    BY <1>1, <1>12 DEF CommandStep, Servers
  <2>2. f \in BOOLEAN OBVIOUS
  <2> HIDE DEF n, f
  <2>3. server' = [n EXCEPT !.dropped = "no", !.downloadName = None, !.download = FALSE,
                            !.wwwing = FALSE, !.fallback = f]
    BY <1>1, <1>3, <2>1 DEF Servers
  <2> QED BY <1>6, <2>2, <2>3 DEF n
<1> QED BY <1>1, <1>4, <1>5, <1>7, <1>8, <1>9, <1>10, <1>11, <1>12 DEF ClientCommands

----------------------------------------------------------------------------
(* The client.                                                             *)

\* What two states of the client have in common when neither its files nor the
\* messages of the server matter.
SameTransfer(c, r) ==
  /\ r.acknowledged = c.acknowledged /\ r.wwwDl = c.wwwDl /\ r.aborting = c.aborting
  /\ r.web = c.web /\ r.loads = c.loads /\ r.gaveUp = c.gaveUp

\* A command is added, and nothing else changes.
LEMMA AddedHolds ==
  ASSUME NEW c \in Clients, NEW name, NEW arg, Command(name, arg) \in ClientCommands
  PROVE  /\ Added(c, name, arg) \in Clients
         /\ Added(c, name, arg) = [c EXCEPT !.commands = Append(c.commands, Command(name, arg))]
         /\ Added(c, name, arg).commands = Append(c.commands, Command(name, arg))
         /\ Added(c, name, arg).downloadName = c.downloadName
         /\ Added(c, name, arg).block = c.block /\ Added(c, name, arg).file = c.file
         /\ Added(c, name, arg).list = c.list
         /\ SameTransfer(c, Added(c, name, arg))
<1> DEFINE M == Append(c.commands, Command(name, arg))
           r == Added(c, name, arg)
<1>1. M \in Seq(ClientCommands) BY DEF Clients
<1>2. r = [c EXCEPT !.commands = M] BY DEF Added
<1> HIDE DEF M, r
<1>3. r \in Clients BY <1>1, <1>2 DEF Clients
<1>4. r.commands = M /\ r.downloadName = c.downloadName /\ r.block = c.block /\ r.file = c.file
      /\ r.list = c.list /\ SameTransfer(c, r)
  BY <1>2 DEF Clients, SameTransfer
<1> QED BY <1>2, <1>3, <1>4 DEF M, r

\* The next file is asked for, or the gamestate.
AskedForFile(c, r, f) ==
  /\ f \in Files /\ r.downloadName = f /\ r.block = 0 /\ r.file = <<>>
  /\ r.commands = Append(c.commands, Command("download", f))

AskedForGamestate(c, r) ==
  /\ r.downloadName = None /\ r.block = c.block /\ r.file = c.file
  /\ r.commands = Append(c.commands, Command("donedl", None))

\* The next file is asked for or, when there is none, the gamestate.
LEMMA NextHolds ==
  ASSUME NEW c \in Clients
  PROVE  /\ Com_NextDownload(c) \in Clients
         /\ SameTransfer(c, Com_NextDownload(c))
         /\ \/ AskedForGamestate(c, Com_NextDownload(c)) /\ c.list = <<>>
            \/ \E f \in Files : AskedForFile(c, Com_NextDownload(c), f)
<1>1. CASE c.list = <<>>
  <2> DEFINE d == [c EXCEPT !.downloadName = None]
  <2>1. Com_NextDownload(c) = Added(d, "donedl", None) BY <1>1 DEF Com_NextDownload
  <2>2. d \in Clients /\ d.commands = c.commands /\ d.block = c.block /\ d.file = c.file
        /\ d.downloadName = None /\ SameTransfer(c, d)
    BY DEF Clients, SameTransfer
  <2>3. Command("donedl", None) \in ClientCommands BY DEF Command, ClientCommands
  <2> HIDE DEF d
  <2>4. /\ Added(d, "donedl", None) \in Clients
        /\ Added(d, "donedl", None).commands = Append(d.commands, Command("donedl", None))
        /\ Added(d, "donedl", None).downloadName = d.downloadName
        /\ Added(d, "donedl", None).block = d.block /\ Added(d, "donedl", None).file = d.file
        /\ SameTransfer(d, Added(d, "donedl", None))
    BY <2>2, <2>3, AddedHolds
  <2> QED BY <1>1, <2>1, <2>2, <2>4 DEF AskedForGamestate, SameTransfer
<1>2. CASE c.list # <<>>
  <2> DEFINE f == Head(c.list)
             l == Tail(c.list)
             d == [c EXCEPT !.downloadName = f, !.list = l, !.block = 0, !.file = <<>>]
  <2>1. Com_NextDownload(c) = Added(d, "download", f) BY <1>2 DEF Com_NextDownload, Clients
  <2>2. c.list \in Seq(Files) BY DEF Clients
  <2>3. f \in Files /\ l \in Seq(Files) BY <1>2, <2>2, HeadTailProperties
  <2>4. <<>> \in Seq(Blocks) /\ 0 \in Nat OBVIOUS
  <2> HIDE DEF f, l
  <2>5. d \in Clients BY <2>3, <2>4 DEF Clients
  <2>6. d.commands = c.commands /\ d.block = 0 /\ d.file = <<>> /\ d.downloadName = f
        /\ SameTransfer(c, d)
    BY DEF Clients, SameTransfer
  <2>7. Command("download", f) \in ClientCommands BY <2>3 DEF Command, ClientCommands
  <2> HIDE DEF d
  <2>8. /\ Added(d, "download", f) \in Clients
        /\ Added(d, "download", f).commands = Append(d.commands, Command("download", f))
        /\ Added(d, "download", f).downloadName = d.downloadName
        /\ Added(d, "download", f).block = d.block /\ Added(d, "download", f).file = d.file
        /\ SameTransfer(d, Added(d, "download", f))
    BY <2>5, <2>7, AddedHolds
  <2> QED BY <2>1, <2>3, <2>6, <2>8 DEF AskedForFile, SameTransfer
<1> QED BY <1>1, <1>2

\* A gamestate ends the downloads, or a new round of them begins.
LEMMA InitDownloadsHolds ==
  ASSUME Types, NEW c \in Clients
  PROVE  LET r == Com_InitDownloads(c)
         IN  /\ r \in Clients
             /\ r.acknowledged = c.acknowledged /\ r.gaveUp = c.gaveUp
             /\ ~r.wwwDl /\ ~r.aborting /\ r.web = None
             /\ \/ /\ r.loads /\ r.downloadName = None
                   /\ r.commands = c.commands /\ r.block = c.block /\ r.file = c.file
                \/ r.loads = c.loads /\ \E f \in Files : AskedForFile(c, r, f)
<1> DEFINE missing == {f \in Files : c.stored[f] # Content(f)}
           bad  == c.badChecksum \cup (c.redirected \cap missing)
           list == [n \in 1 .. Cardinality(missing) |->
                      CHOOSE f \in missing : Cardinality({g \in missing : g < f}) = n - 1]
           i    == [c EXCEPT !.wwwDl = FALSE, !.aborting = FALSE, !.web = None,
                             !.downloadName = None, !.redirected = {},
                             !.badChecksum = bad, !.list = list]
           r    == Com_InitDownloads(c)
<1>1. r = IF missing = {} THEN [i EXCEPT !.loads = TRUE] ELSE Com_NextDownload(i)
  BY DEF Com_InitDownloads, Clients
<1>2. /\ missing \in SUBSET Files /\ IsFiniteSet(missing) /\ Cardinality(missing) \in Nat
      /\ Files \in SUBSET Nat
  <2>1. NumFiles \in Nat BY DownloadAssumption
  <2>2. Files \in SUBSET Nat /\ IsFiniteSet(Files) BY <2>1, FS_Interval DEF Files
  <2> QED BY <2>2, FS_Subset, FS_CardinalityType
<1>3. bad \in SUBSET Files BY <1>2 DEF Clients
<1> HIDE DEF missing
<1>4. /\ list \in Seq(Files) /\ (missing # {} => list # <<>>)
  <2>1. ASSUME NEW n \in 1 .. Cardinality(missing)
        PROVE  (CHOOSE f \in missing : Cardinality({g \in missing : g < f}) = n - 1) \in Files
    <3>1. n - 1 \in 0 .. Cardinality(missing) - 1 BY <1>2
    <3>2. \E f \in missing : Cardinality({g \in missing : g < f}) = n - 1
      BY <1>2, <3>1, RankExists
    <3> QED BY <1>2, <3>2
  <2>2. list \in [1 .. Cardinality(missing) -> Files] BY <2>1
  <2>3. list \in Seq(Files) /\ Len(list) = Cardinality(missing)
    <3> HIDE DEF list
    <3> QED BY <1>2, <2>2
  <2>4. missing # {} => Cardinality(missing) # 0 BY <1>2, FS_EmptySet
  <2> HIDE DEF list
  <2> QED BY <1>2, <2>3, <2>4
<1> HIDE DEF bad, list
<1>5. /\ i \in Clients /\ i.commands = c.commands /\ i.block = c.block /\ i.file = c.file
      /\ i.downloadName = None /\ i.acknowledged = c.acknowledged /\ i.gaveUp = c.gaveUp
      /\ ~i.wwwDl /\ ~i.aborting /\ i.web = None /\ i.loads = c.loads /\ i.list = list
  <2>1. {} \in SUBSET ({None} \cup Files) OBVIOUS
  <2>2. i \in Clients BY <1>3, <1>4, <2>1 DEF Clients
  <2> QED BY <2>2 DEF Clients
<1> HIDE DEF i
<1>6. CASE missing = {}
  <2>1. r = [i EXCEPT !.loads = TRUE] BY <1>1, <1>6
  <2> HIDE DEF r
  <2>2. r \in Clients BY <1>5, <2>1 DEF Clients
  <2>3. /\ r.commands = i.commands /\ r.block = i.block /\ r.file = i.file
        /\ r.downloadName = i.downloadName /\ r.acknowledged = i.acknowledged
        /\ r.gaveUp = i.gaveUp /\ r.wwwDl = i.wwwDl /\ r.aborting = i.aborting
        /\ r.web = i.web /\ r.loads
    BY <1>5, <2>1 DEF Clients
  <2>4. /\ r \in Clients
        /\ r.acknowledged = c.acknowledged /\ r.gaveUp = c.gaveUp
        /\ ~r.wwwDl /\ ~r.aborting /\ r.web = None
        /\ r.loads /\ r.downloadName = None
        /\ r.commands = c.commands /\ r.block = c.block /\ r.file = c.file
    BY <1>5, <2>2, <2>3
  <2> QED BY <2>4 DEF r
<1>7. CASE missing # {}
  <2>1. r = Com_NextDownload(i) BY <1>1, <1>7
  <2>2. /\ Com_NextDownload(i) \in Clients
        /\ SameTransfer(i, Com_NextDownload(i))
        /\ \/ AskedForGamestate(i, Com_NextDownload(i)) /\ i.list = <<>>
           \/ \E f \in Files : AskedForFile(i, Com_NextDownload(i), f)
    BY <1>5, NextHolds
  <2> HIDE DEF r
  <2>3. /\ r \in Clients /\ SameTransfer(i, r) /\ \E f \in Files : AskedForFile(i, r, f)
    BY <1>4, <1>5, <1>7, <2>1, <2>2
  <2>4. \E f \in Files : AskedForFile(c, r, f) BY <1>5, <2>3 DEF AskedForFile
  <2>5. /\ r.acknowledged = c.acknowledged /\ r.gaveUp = c.gaveUp
        /\ ~r.wwwDl /\ ~r.aborting /\ r.web = None /\ r.loads = c.loads
    BY <1>5, <2>3 DEF SameTransfer
  <2> QED BY <2>3, <2>4, <2>5 DEF r
<1> QED BY <1>6, <1>7

\* What a message may do to the client.
Becomes(name, block, file, commands, wwwDl, aborting, web) ==
  /\ client'.downloadName = name /\ client'.block = block /\ client'.file = file
  /\ client'.commands = commands /\ client'.wwwDl = wwwDl /\ client'.aborting = aborting
  /\ client'.web = web

Ignored(m) ==
  /\ m.kind \in {"idle", "block", "redirect"}
  /\ m.kind \in {"block", "redirect"} => client.downloadName # None
  /\ m.kind = "block" => m.number # client.block
  /\ Becomes(client.downloadName, client.block, client.file, client.commands,
             client.wwwDl, client.aborting, client.web)

Entered(m) ==
  /\ m.kind = "gamestate"
  /\ ~client'.wwwDl /\ ~client'.aborting /\ client'.web = None
  /\ \/ client'.loads /\ client'.downloadName = None /\ client'.commands = client.commands
     \/ ~client'.loads /\ \E f \in Files : AskedForFile(client, client', f)

Unwanted(m) ==
  /\ m.kind \in {"block", "redirect"}
  /\ client.downloadName = None
  /\ Becomes(None, client.block, client.file, Append(client.commands, Command("stopdl", None)),
             client.wwwDl, client.aborting, client.web)

Referred(m) ==
  LET acked == Append(client.commands, WwwDl("ack"))
  IN  /\ m.kind = "redirect" /\ client.downloadName # None /\ ~client.wwwDl
      /\ \/ Becomes(client.downloadName, client.block, client.file,
                    Append(acked, WwwDl("fail")), TRUE, TRUE, None)
         \/ Becomes(client.downloadName, client.block, client.file,
                    acked, TRUE, client.aborting, m.web)

MovedOn(acked) ==
  \/ /\ client'.downloadName = None
     /\ client'.commands = Append(acked, Command("donedl", None))
  \/ \E f \in Files :
       /\ client'.downloadName = f /\ client'.block = 0 /\ client'.file = <<>>
       /\ client'.commands = Append(acked, Command("download", f))

Taken(m) ==
  LET acked == Append(client.commands, Command("nextdl", client.block))
  IN  /\ m.kind = "block" /\ client.downloadName # None /\ m.number = client.block
      /\ \/ /\ ~Empty(m.data)
            /\ Becomes(client.downloadName, client.block + 1, Append(client.file, m.data),
                       acked, client.wwwDl, client.aborting, client.web)
         \/ /\ Empty(m.data)
            /\ client'.wwwDl = client.wwwDl /\ client'.aborting = client.aborting
            /\ client'.web = client.web
            /\ MovedOn(acked)

\* Commands are only added.
CommandsGrow == Len(client.commands) <= Len(client'.commands)

\* A sequence to which an element is appended is longer by one.
LEMMA AppendGrows ==
  ASSUME NEW S, NEW s \in Seq(S), NEW e \in S
  PROVE  /\ Append(s, e) \in Seq(S) /\ Len(Append(s, e)) = Len(s) + 1
         /\ Len(s) <= Len(Append(s, e))
<1>1. Append(s, e) \in Seq(S) /\ Len(Append(s, e)) = Len(s) + 1 BY AppendProperties
<1>2. Len(s) \in Nat OBVIOUS
<1> QED BY <1>1, <1>2

\* What the parsing of a message does.
LEMMA ParseStep ==
  ASSUME Types, NEW i \in Link, NEW fails \in BOOLEAN, CL_ParseServerMessage(i, fails)
  PROVE  /\ client' \in Clients
         /\ UNCHANGED <<size, server>> /\ toClient' = SubSeq(toClient, i + 1, Len(toClient))
         /\ ~client.loads
         /\ client'.acknowledged = toClient[i].ack
         /\ CommandsGrow
         /\ \/ client'.gaveUp
            \/ /\ client'.gaveUp = client.gaveUp
               /\ ~Entered(toClient[i]) => ~client'.loads
               /\ LET m == toClient[i]
                  IN  Ignored(m) \/ Entered(m) \/ Unwanted(m) \/ Referred(m) \/ Taken(m)
<1> DEFINE m == toClient[i]
           fl == IF fails THEN client.failures - 1 ELSE client.failures
           c == [client EXCEPT !.acknowledged = m.ack, !.failures = fl]
<1>1. /\ ~client.loads
      /\ fails => client.failures > 0 /\ m.kind \in {"block", "redirect"}
      /\ toClient' = SubSeq(toClient, i + 1, Len(toClient))
      /\ \/ m.kind = "gamestate" /\ client' = Com_InitDownloads(c)
         \/ m.kind = "idle" /\ client' = c
         \/ /\ m.kind \in {"block", "redirect"}
            /\ IF client.downloadName = None
               THEN /\ ~fails
                    /\ Len(client.commands) < MaxCommands
                    /\ client' = Added(c, "stopdl", None)
               ELSE client' = IF m.kind = "redirect" THEN Redirected(c, m.web, fails)
                              ELSE Parsed(c, m, fails)
      /\ UNCHANGED <<size, server>>
  <2>1. c = [client EXCEPT !.acknowledged = m.ack,
                           !.failures = IF fails THEN @ - 1 ELSE @]
    BY DEF Types, Clients
  <2> HIDE DEF c
  <2> QED BY <2>1, Zenon DEF CL_ParseServerMessage
<1>2. /\ m \in Messages /\ client \in Clients /\ client.failures \in Nat
      /\ client.commands \in Seq(ClientCommands) /\ client.file \in Seq(Blocks)
  BY DEF Types, Clients, Link
<1>3. /\ m.ack \in Nat
      /\ m.kind = "block" => m.data \in Blocks
      /\ m.kind = "redirect" => m.web \in Files
      /\ m.kind \in {"block", "redirect", "gamestate", "idle"}
  BY <1>2 DEF Messages
<1>4. fl \in Nat BY <1>1, <1>2
<1> HIDE DEF m, fl
<1>5. /\ c \in Clients /\ c.downloadName = client.downloadName /\ c.block = client.block
      /\ c.file = client.file /\ c.commands = client.commands /\ c.wwwDl = client.wwwDl
      /\ c.aborting = client.aborting /\ c.web = client.web /\ c.loads = client.loads
      /\ c.acknowledged = m.ack /\ c.gaveUp = client.gaveUp
  <2>1. c \in Clients BY <1>2, <1>3, <1>4 DEF Clients
  <2> QED BY <1>2, <2>1 DEF Clients
<1> HIDE DEF c
<1> DEFINE Good == /\ client' \in Clients
                   /\ client'.acknowledged = m.ack
                   /\ CommandsGrow
                   /\ \/ client'.gaveUp
                      \/ /\ client'.gaveUp = client.gaveUp
                         /\ ~Entered(m) => ~client'.loads
                         /\ Ignored(m) \/ Entered(m) \/ Unwanted(m) \/ Referred(m) \/ Taken(m)
<1> SUFFICES Good BY <1>1 DEF m
<1>6. CASE m.kind = "gamestate"
  <2>1. client' = Com_InitDownloads(c) BY <1>1, <1>6
  <2> DEFINE r == Com_InitDownloads(c)
  <2>2. /\ r \in Clients
        /\ r.acknowledged = c.acknowledged /\ r.gaveUp = c.gaveUp
        /\ ~r.wwwDl /\ ~r.aborting /\ r.web = None
        /\ \/ /\ r.loads /\ r.downloadName = None
              /\ r.commands = c.commands /\ r.block = c.block /\ r.file = c.file
           \/ r.loads = c.loads /\ \E f \in Files : AskedForFile(c, r, f)
    BY <1>5, InitDownloadsHolds
  <2> HIDE DEF r
  <2>3. client' = r BY <2>1 DEF r
  <2>4. Entered(m)
    BY <1>1, <1>5, <1>6, <2>2, <2>3 DEF Entered, AskedForFile
  <2>5. CommandsGrow
    <3>1. CASE r.commands = c.commands BY <1>2, <1>5, <2>3, <3>1 DEF CommandsGrow
    <3>2. ASSUME NEW f \in Files, AskedForFile(c, r, f) PROVE CommandsGrow
      <4>1. client'.commands = Append(client.commands, Command("download", f))
        BY <1>5, <2>3, <3>2 DEF AskedForFile
      <4>2. Command("download", f) \in ClientCommands BY DEF Command, ClientCommands
      <4> QED BY <1>2, <4>1, <4>2, AppendGrows DEF CommandsGrow
    <3> QED BY <2>2, <3>1, <3>2
  <2> QED BY <1>5, <2>2, <2>3, <2>4, <2>5
<1>7. CASE m.kind = "idle"
  <2>1. client' = c BY <1>1, <1>7
  <2>2. Ignored(m) BY <1>5, <1>7, <2>1 DEF Ignored, Becomes
  <2>3. CommandsGrow BY <1>2, <1>5, <2>1 DEF CommandsGrow
  <2> QED BY <1>1, <1>5, <2>1, <2>2, <2>3
<1>8. CASE m.kind \in {"block", "redirect"} /\ client.downloadName = None
  <2> DEFINE r == Added(c, "stopdl", None)
  <2>1. client' = r BY <1>1, <1>8
  <2>2. Command("stopdl", None) \in ClientCommands BY DEF Command, ClientCommands
  <2>3. /\ r \in Clients /\ r.commands = Append(c.commands, Command("stopdl", None))
        /\ r.downloadName = c.downloadName /\ r.block = c.block /\ r.file = c.file
        /\ SameTransfer(c, r)
    BY <1>5, <2>2, AddedHolds
  <2> HIDE DEF r
  <2>4. Unwanted(m) BY <1>5, <1>8, <2>1, <2>3 DEF Unwanted, Becomes, SameTransfer
  <2>5. CommandsGrow BY <1>2, <1>5, <2>1, <2>2, <2>3, AppendGrows DEF CommandsGrow
  <2>6. client'.acknowledged = m.ack /\ ~client'.loads /\ client'.gaveUp = client.gaveUp
    BY <1>1, <1>5, <2>1, <2>3 DEF SameTransfer
  <2> QED BY <2>1, <2>3, <2>4, <2>5, <2>6
<1>9. CASE m.kind = "redirect" /\ client.downloadName # None
  <2>1. client' = Redirected(c, m.web, fails) BY <1>1, <1>9
  <2> DEFINE d == [c EXCEPT !.wwwDl = TRUE]
             a == Added(d, "wwwdl", "ack")
             g == Added(a, "wwwdl", "fail")
  <2>2. Redirected(c, m.web, fails) =
          IF c.wwwDl THEN c
          ELSE IF c.downloadName \in c.badChecksum \/ fails
               THEN [g EXCEPT !.aborting = TRUE, !.web = None]
               ELSE [a EXCEPT !.web = m.web]
    BY DEF Redirected, WebFails
  <2>3. /\ d \in Clients /\ d.commands = c.commands /\ d.downloadName = c.downloadName
        /\ d.block = c.block /\ d.file = c.file /\ d.wwwDl = TRUE /\ d.aborting = c.aborting
        /\ d.loads = c.loads /\ d.gaveUp = c.gaveUp /\ d.acknowledged = c.acknowledged
    BY <1>5 DEF Clients
  <2>4. WwwDl("ack") \in ClientCommands /\ WwwDl("fail") \in ClientCommands
        /\ WwwDl("ack") = Command("wwwdl", "ack") /\ WwwDl("fail") = Command("wwwdl", "fail")
    BY DEF Command, ClientCommands, WwwDl
  <2> HIDE DEF d
  <2>5. /\ a \in Clients /\ a.commands = Append(d.commands, WwwDl("ack"))
        /\ a.downloadName = d.downloadName /\ a.block = d.block /\ a.file = d.file
        /\ SameTransfer(d, a)
    <3>1. Command("wwwdl", "ack") \in ClientCommands BY <2>4
    <3>2. /\ Added(d, "wwwdl", "ack") \in Clients
          /\ Added(d, "wwwdl", "ack").commands = Append(d.commands, Command("wwwdl", "ack"))
          /\ Added(d, "wwwdl", "ack").downloadName = d.downloadName
          /\ Added(d, "wwwdl", "ack").block = d.block /\ Added(d, "wwwdl", "ack").file = d.file
          /\ SameTransfer(d, Added(d, "wwwdl", "ack"))
      BY <2>3, <3>1, AddedHolds
    <3> QED BY <2>4, <3>2
  <2> HIDE DEF a
  <2>6. /\ g \in Clients /\ g.commands = Append(a.commands, WwwDl("fail"))
        /\ g.downloadName = a.downloadName /\ g.block = a.block /\ g.file = a.file
        /\ SameTransfer(a, g)
    <3>1. Command("wwwdl", "fail") \in ClientCommands BY <2>4
    <3>2. /\ Added(a, "wwwdl", "fail") \in Clients
          /\ Added(a, "wwwdl", "fail").commands = Append(a.commands, Command("wwwdl", "fail"))
          /\ Added(a, "wwwdl", "fail").downloadName = a.downloadName
          /\ Added(a, "wwwdl", "fail").block = a.block /\ Added(a, "wwwdl", "fail").file = a.file
          /\ SameTransfer(a, Added(a, "wwwdl", "fail"))
      BY <2>5, <3>1, AddedHolds
    <3> QED BY <2>4, <3>2
  <2> HIDE DEF g
  <2>7. CASE client' = c
    <3>1. Ignored(m) BY <1>5, <1>9, <2>7 DEF Ignored, Becomes
    <3>2. CommandsGrow BY <1>2, <1>5, <2>7 DEF CommandsGrow
    <3> QED BY <1>1, <1>5, <2>7, <3>1, <3>2
  <2>8. CASE ~c.wwwDl /\ client' = [g EXCEPT !.aborting = TRUE, !.web = None]
    <3>1. client' \in Clients BY <2>6, <2>8 DEF Clients
    <3>2. /\ client'.aborting = TRUE /\ client'.web = None /\ client'.wwwDl = g.wwwDl
          /\ client'.downloadName = g.downloadName /\ client'.block = g.block
          /\ client'.file = g.file /\ client'.commands = g.commands /\ client'.loads = g.loads
          /\ client'.gaveUp = g.gaveUp /\ client'.acknowledged = g.acknowledged
      BY <2>6, <2>8 DEF Clients
    <3>3. Referred(m)
      <4> DEFINE q == Append(client.commands, WwwDl("ack"))
      <4>1. client'.commands = Append(q, WwwDl("fail")) BY <1>5, <2>3, <2>5, <2>6, <3>2
      <4>2. /\ client'.downloadName = client.downloadName /\ client'.block = client.block
            /\ client'.file = client.file /\ client'.wwwDl = TRUE
        BY <1>5, <2>3, <2>5, <2>6, <3>2 DEF SameTransfer
      <4>3. ~client.wwwDl BY <1>5, <2>8
      <4> QED BY <1>9, <3>2, <4>1, <4>2, <4>3 DEF Referred, Becomes
    <3>4. CommandsGrow
      <4> DEFINE q == Append(client.commands, WwwDl("ack"))
      <4>1. q \in Seq(ClientCommands) /\ Len(q) = Len(client.commands) + 1
        BY <1>2, <2>4, AppendGrows
      <4>2. client'.commands = Append(q, WwwDl("fail")) BY <1>5, <2>3, <2>5, <2>6, <3>2
      <4> HIDE DEF q
      <4>3. Len(client'.commands) = Len(q) + 1 BY <2>4, <4>1, <4>2, AppendGrows
      <4>4. Len(client.commands) \in Nat BY <1>2
      <4> QED BY <4>1, <4>3, <4>4 DEF CommandsGrow
    <3>5. client'.acknowledged = m.ack /\ ~client'.loads /\ client'.gaveUp = client.gaveUp
      BY <1>1, <1>5, <2>3, <2>5, <2>6, <3>2 DEF SameTransfer
    <3> QED BY <3>1, <3>3, <3>4, <3>5
  <2>9. CASE ~c.wwwDl /\ client' = [a EXCEPT !.web = m.web]
    <3>0. m.web \in Files BY <1>3, <1>9
    <3>1. client' \in Clients BY <2>5, <2>9, <3>0 DEF Clients
    <3>2. /\ client'.aborting = a.aborting /\ client'.web = m.web /\ client'.wwwDl = a.wwwDl
          /\ client'.downloadName = a.downloadName /\ client'.block = a.block
          /\ client'.file = a.file /\ client'.commands = a.commands /\ client'.loads = a.loads
          /\ client'.gaveUp = a.gaveUp /\ client'.acknowledged = a.acknowledged
      BY <2>5, <2>9 DEF Clients
    <3>3. Referred(m)
      BY <1>5, <1>9, <2>3, <2>5, <2>9, <3>2 DEF Referred, Becomes, SameTransfer
    <3>4. CommandsGrow
      BY <1>2, <1>5, <2>3, <2>4, <2>5, <3>2, AppendGrows DEF CommandsGrow
    <3>5. client'.acknowledged = m.ack /\ ~client'.loads /\ client'.gaveUp = client.gaveUp
      BY <1>1, <1>5, <2>3, <2>5, <3>2 DEF SameTransfer
    <3> QED BY <3>1, <3>3, <3>4, <3>5
  <2> QED BY <2>1, <2>2, <2>7, <2>8, <2>9
<1>10. CASE m.kind = "block" /\ client.downloadName # None
  <2>1. client' = Parsed(c, m, fails) BY <1>1, <1>10
  <2> DEFINE n == client.block + 1
             x == Command("nextdl", client.block)
             d == [c EXCEPT !.block = n]
             w == Added(d, "nextdl", client.block)
             e == [c EXCEPT !.gaveUp = TRUE]
             g == Added(e, "stopdl", None)
             f == Append(client.file, m.data)
             o == [w EXCEPT !.stored[c.downloadName] = c.file]
  <2>2. Parsed(c, m, fails) =
          IF m.number # c.block THEN c
          ELSE IF fails THEN Com_NextDownload(g)
          ELSE IF Empty(m.data) THEN Com_NextDownload(o)
          ELSE [w EXCEPT !.file = Append(w.file, m.data)]
    <3>1. w = Added([c EXCEPT !.block = @ + 1], "nextdl", c.block) BY <1>5 DEF Clients
    <3> HIDE DEF w, g
    <3>2. g = Added([c EXCEPT !.gaveUp = TRUE], "stopdl", None) BY DEF g
    <3>3. [w EXCEPT !.file = Append(@, m.data)] = [w EXCEPT !.file = Append(w.file, m.data)]
      OBVIOUS
    <3> QED BY <3>1, <3>2, <3>3 DEF Parsed
  <2>3. n \in Nat /\ client.block \in Nat BY <1>2 DEF Clients
  <2>4. x \in ClientCommands /\ Command("stopdl", None) \in ClientCommands
    BY <2>3 DEF Command, ClientCommands
  <2> HIDE DEF n
  <2>5. /\ d \in Clients /\ d.commands = c.commands /\ d.downloadName = c.downloadName
        /\ d.block = n /\ d.file = c.file /\ SameTransfer(c, d)
    BY <1>5, <2>3 DEF Clients, SameTransfer
  <2>6. e \in Clients /\ e.commands = c.commands /\ e.gaveUp /\ e.acknowledged = c.acknowledged
    BY <1>5 DEF Clients
  <2> HIDE DEF d, e
  <2>7. /\ w \in Clients /\ w.commands = Append(d.commands, x)
        /\ w.downloadName = d.downloadName /\ w.block = d.block /\ w.file = d.file
        /\ SameTransfer(d, w)
    <3> DEFINE b == client.block
               v == Added(d, "nextdl", b)
    <3>1. Command("nextdl", b) \in ClientCommands BY <2>4
    <3>2. w = v /\ x = Command("nextdl", b) OBVIOUS
    <3> HIDE DEF b, w, x
    <3>3. /\ v \in Clients /\ v.commands = Append(d.commands, Command("nextdl", b))
          /\ v.downloadName = d.downloadName /\ v.block = d.block /\ v.file = d.file
          /\ SameTransfer(d, v)
      BY <2>5, <3>1, AddedHolds
    <3> QED BY <3>2, <3>3
  <2>8. /\ g \in Clients /\ g.commands = Append(e.commands, Command("stopdl", None))
        /\ SameTransfer(e, g)
    <3> HIDE DEF g
    <3>1. g = Added(e, "stopdl", None) BY DEF g
    <3>2. Command("stopdl", None) \in ClientCommands BY <2>4
    <3>3. /\ Added(e, "stopdl", None) \in Clients
          /\ Added(e, "stopdl", None).commands = Append(e.commands, Command("stopdl", None))
          /\ SameTransfer(e, Added(e, "stopdl", None))
      BY <2>6, <3>2, AddedHolds
    <3> QED BY <3>1, <3>3
  <2> HIDE DEF w, g, x
  <2>9. CASE client' = c /\ m.number # client.block
    <3>1. Ignored(m) BY <1>5, <1>10, <2>9 DEF Ignored, Becomes
    <3>2. CommandsGrow BY <1>2, <1>5, <2>9 DEF CommandsGrow
    <3> QED BY <1>1, <1>5, <2>9, <3>1, <3>2
  <2>10. ASSUME NEW b \in Clients, b.commands \in Seq(ClientCommands),
                Len(client.commands) <= Len(b.commands), client' = Com_NextDownload(b)
         PROVE  CommandsGrow
    <3>1. \E z \in ClientCommands : client'.commands = Append(b.commands, z)
      <4>1. \/ AskedForGamestate(b, Com_NextDownload(b))
            \/ \E h \in Files : AskedForFile(b, Com_NextDownload(b), h)
        BY <2>10, NextHolds
      <4>2. Command("donedl", None) \in ClientCommands
            /\ \A h \in Files : Command("download", h) \in ClientCommands
        BY DEF Command, ClientCommands
      <4> QED BY <2>10, <4>1, <4>2 DEF AskedForGamestate, AskedForFile
    <3>2. PICK z \in ClientCommands : client'.commands = Append(b.commands, z) BY <3>1
    <3>3. Len(client'.commands) = Len(b.commands) + 1 BY <2>10, <3>2, AppendGrows
    <3>4. Len(client.commands) \in Nat /\ Len(b.commands) \in Nat BY <1>2, <2>10
    <3> QED BY <2>10, <3>3, <3>4 DEF CommandsGrow
  <2>11. CASE client' = Com_NextDownload(g)
    <3>1. client' \in Clients /\ SameTransfer(g, client') BY <2>8, <2>11, NextHolds
    <3>2. client'.gaveUp /\ client'.acknowledged = m.ack
      BY <1>5, <2>6, <2>8, <3>1 DEF SameTransfer
    <3>3. CommandsGrow
      <4>1. g.commands \in Seq(ClientCommands) /\ Len(client.commands) <= Len(g.commands)
        BY <1>2, <1>5, <2>4, <2>6, <2>8, AppendGrows
      <4> QED BY <2>8, <2>10, <2>11, <4>1
    <3> QED BY <3>1, <3>2, <3>3
  <2>12. CASE client' = Com_NextDownload(o) /\ Empty(m.data) /\ m.number = client.block
    <3>1. o \in Clients /\ o.commands = w.commands /\ SameTransfer(w, o)
      <4> DEFINE st == [w.stored EXCEPT ![c.downloadName] = c.file]
      <4>1. o = [w EXCEPT !.stored = st] BY <2>7 DEF Clients
      <4>2. st \in [Files -> Seq(Blocks)] BY <1>2, <1>5, <2>7 DEF Clients
      <4> HIDE DEF st, o
      <4>3. o \in Clients BY <2>7, <4>1, <4>2 DEF Clients
      <4> QED BY <2>7, <4>1, <4>3 DEF Clients, SameTransfer
    <3> HIDE DEF o
    <3>2. /\ client' \in Clients /\ SameTransfer(o, client')
          /\ \/ AskedForGamestate(o, client')
             \/ \E h \in Files : AskedForFile(o, client', h)
      BY <2>12, <3>1, NextHolds
    <3>3. o.commands = Append(client.commands, x) BY <1>5, <2>5, <2>7, <3>1
    <3>4. Taken(m)
      <4>1. /\ client'.wwwDl = client.wwwDl /\ client'.aborting = client.aborting
            /\ client'.web = client.web
        BY <1>5, <2>5, <2>7, <3>1, <3>2 DEF SameTransfer
      <4>2. MovedOn(o.commands) BY <3>2 DEF MovedOn, AskedForGamestate, AskedForFile
      <4> QED BY <1>10, <2>12, <3>3, <4>1, <4>2 DEF Taken, x
    <3>5. client'.acknowledged = m.ack /\ ~client'.loads /\ client'.gaveUp = client.gaveUp
      BY <1>1, <1>5, <2>5, <2>7, <3>1, <3>2 DEF SameTransfer
    <3>6. CommandsGrow
      <4>1. o.commands \in Seq(ClientCommands) /\ Len(client.commands) <= Len(o.commands)
        BY <1>2, <2>4, <3>3, AppendGrows DEF x
      <4> QED BY <2>10, <2>12, <3>1, <4>1
    <3> QED BY <3>2, <3>4, <3>5, <3>6
  <2>13. CASE /\ client' = [w EXCEPT !.file = Append(w.file, m.data)]
              /\ ~Empty(m.data) /\ m.number = client.block
    <3>1. f \in Seq(Blocks) /\ w.file = client.file
      BY <1>2, <1>3, <1>5, <1>10, <2>5, <2>7, AppendGrows
    <3>2. client' = [w EXCEPT !.file = f] BY <2>13, <3>1
    <3> HIDE DEF f
    <3>3. client' \in Clients BY <2>7, <3>1, <3>2 DEF Clients
    <3>4. /\ client'.file = f /\ client'.aborting = w.aborting /\ client'.web = w.web
          /\ client'.wwwDl = w.wwwDl /\ client'.downloadName = w.downloadName
          /\ client'.block = w.block /\ client'.commands = w.commands /\ client'.loads = w.loads
          /\ client'.gaveUp = w.gaveUp /\ client'.acknowledged = w.acknowledged
      BY <2>7, <3>2 DEF Clients
    <3>5. Taken(m)
      BY <1>5, <1>10, <2>5, <2>7, <2>13, <3>4 DEF Taken, Becomes, SameTransfer, x, f, n
    <3>6. client'.acknowledged = m.ack /\ ~client'.loads /\ client'.gaveUp = client.gaveUp
      BY <1>1, <1>5, <2>5, <2>7, <3>4 DEF SameTransfer
    <3>7. CommandsGrow
      BY <1>2, <1>5, <2>4, <2>5, <2>7, <3>4, AppendGrows DEF CommandsGrow, x
    <3> QED BY <3>3, <3>5, <3>6, <3>7
  <2> HIDE DEF o
  <2> QED BY <1>5, <2>1, <2>2, <2>7, <2>9, <2>11, <2>12, <2>13
<1> HIDE DEF Good
<1> QED BY <1>3, <1>6, <1>7, <1>8, <1>9, <1>10

\* A file fetched from the web is that of the server.
LEMMA ContentType ==
  ASSUME Types, NEW f \in Files
  PROVE  Content(f) \in Seq(Blocks)
<1>1. size[f] \in Nat /\ size[f] <= MaxBlocks /\ MaxBlocks \in Nat
  BY DownloadAssumption DEF Types
<1>2. ASSUME NEW i \in 1 .. size[f] PROVE Block(f, i - 1) \in Blocks
  <2>1. i - 1 \in 0 .. MaxBlocks BY <1>1
  <2> QED BY <2>1 DEF Block, Blocks
<1> QED BY <1>1, <1>2 DEF Content

\* What the end of a web download does to the client.
WebEnded ==
  \/ Becomes(client.downloadName, client.block, client.file,
             Append(client.commands, WwwDl("fail")), client.wwwDl, TRUE, None)
  \/ /\ ~client'.wwwDl /\ client'.aborting = client.aborting /\ client'.web = None
     /\ MovedOn(Append(client.commands, WwwDl("done")))

\* What the end of a web download does.
LEMMA WebStep ==
  ASSUME Types, NEW fails \in BOOLEAN, Com_WebDownloadComplete(fails)
  PROVE  /\ client' \in Clients
         /\ UNCHANGED <<size, server, toClient>>
         /\ client.web # None
         /\ client'.acknowledged = client.acknowledged /\ client'.loads = client.loads
         /\ client'.gaveUp = client.gaveUp
         /\ CommandsGrow
         /\ WebEnded
<1> DEFINE fl == IF fails THEN client.failures - 1 ELSE client.failures
           c == [client EXCEPT !.failures = fl]
           d == Added(c, "wwwdl", "done")
           st == [d.stored EXCEPT ![c.downloadName] = Content(c.web)]
           re == d.redirected \cup {c.downloadName}
           e == [d EXCEPT !.stored = st, !.web = None, !.redirected = re, !.wwwDl = FALSE]
           a == Added(c, "wwwdl", "fail")
           r == [a EXCEPT !.aborting = TRUE, !.web = None]
<1>1. client \in Clients /\ client.commands \in Seq(ClientCommands) /\ client.failures \in Nat
  BY DEF Types, Clients
<1>2. /\ client.web # None
      /\ fails => client.failures > 0
      /\ client' = IF fails THEN WebFails([client EXCEPT !.failures = IF fails THEN @ - 1 ELSE @])
                   ELSE Com_NextDownload(
                      [Added([client EXCEPT !.failures = IF fails THEN @ - 1 ELSE @],
                             "wwwdl", "done") EXCEPT
                         !.stored[[client EXCEPT !.failures = IF fails THEN @ - 1 ELSE @].downloadName]
                           = Content([client EXCEPT !.failures = IF fails THEN @ - 1 ELSE @].web),
                         !.web = None,
                         !.redirected = @ \cup {[client EXCEPT !.failures = IF fails THEN @ - 1 ELSE @].downloadName},
                         !.wwwDl = FALSE])
      /\ UNCHANGED <<size, server, toClient>>
  BY Zenon DEF Com_WebDownloadComplete
<1>3. fl \in Nat BY <1>1, <1>2
<1>4. c = [client EXCEPT !.failures = IF fails THEN @ - 1 ELSE @] BY <1>1 DEF Clients
<1> HIDE DEF fl
<1>5. /\ c \in Clients /\ c.downloadName = client.downloadName /\ c.block = client.block
      /\ c.file = client.file /\ c.commands = client.commands /\ c.wwwDl = client.wwwDl
      /\ c.aborting = client.aborting /\ c.web = client.web /\ c.loads = client.loads
      /\ c.acknowledged = client.acknowledged /\ c.gaveUp = client.gaveUp
  BY <1>1, <1>3 DEF Clients
<1> HIDE DEF c
<1>6. client' = IF fails THEN r ELSE Com_NextDownload(e)
  <2>1. client' = IF fails THEN WebFails(c)
                  ELSE Com_NextDownload([d EXCEPT !.stored[c.downloadName] = Content(c.web),
                         !.web = None, !.redirected = @ \cup {c.downloadName}, !.wwwDl = FALSE])
    BY <1>2, <1>4
  <2>2. e = [d EXCEPT !.stored[c.downloadName] = Content(c.web),
                      !.web = None, !.redirected = @ \cup {c.downloadName}, !.wwwDl = FALSE]
    <3> HIDE DEF d
    <3> QED OBVIOUS
  <2> HIDE DEF e
  <2> QED BY <2>1, <2>2 DEF WebFails
<1>7. WwwDl("done") \in ClientCommands /\ WwwDl("fail") \in ClientCommands
      /\ WwwDl("done") = Command("wwwdl", "done") /\ WwwDl("fail") = Command("wwwdl", "fail")
  BY DEF Command, ClientCommands, WwwDl
<1>8. CASE fails
  <2> HIDE DEF a
  <2>1. /\ a \in Clients /\ a.commands = Append(client.commands, WwwDl("fail"))
        /\ a.downloadName = c.downloadName /\ a.block = c.block /\ a.file = c.file
        /\ SameTransfer(c, a)
    <3>1. Command("wwwdl", "fail") \in ClientCommands BY <1>7
    <3>2. /\ Added(c, "wwwdl", "fail") \in Clients
          /\ Added(c, "wwwdl", "fail").commands = Append(c.commands, Command("wwwdl", "fail"))
          /\ Added(c, "wwwdl", "fail").downloadName = c.downloadName
          /\ Added(c, "wwwdl", "fail").block = c.block /\ Added(c, "wwwdl", "fail").file = c.file
          /\ SameTransfer(c, Added(c, "wwwdl", "fail"))
      BY <1>5, <3>1, AddedHolds
    <3> QED BY <1>5, <1>7, <3>2 DEF a
  <2>2. client' = r BY <1>6, <1>8
  <2>3. client' \in Clients BY <2>1, <2>2 DEF Clients
  <2>4. /\ client'.aborting = TRUE /\ client'.web = None /\ client'.wwwDl = a.wwwDl
        /\ client'.downloadName = a.downloadName /\ client'.block = a.block
        /\ client'.file = a.file /\ client'.commands = a.commands /\ client'.loads = a.loads
        /\ client'.gaveUp = a.gaveUp /\ client'.acknowledged = a.acknowledged
    BY <2>1, <2>2 DEF Clients
  <2>5. WebEnded BY <1>5, <2>1, <2>4 DEF WebEnded, Becomes, SameTransfer
  <2>6. CommandsGrow BY <1>1, <1>7, <2>1, <2>4, AppendGrows DEF CommandsGrow
  <2> QED BY <1>2, <1>5, <2>1, <2>3, <2>4, <2>5, <2>6 DEF SameTransfer
<1>9. CASE ~fails
  <2> HIDE DEF d
  <2>1. /\ d \in Clients /\ d.commands = Append(client.commands, WwwDl("done"))
        /\ d.downloadName = c.downloadName /\ d.block = c.block /\ d.file = c.file
        /\ SameTransfer(c, d)
    <3>1. Command("wwwdl", "done") \in ClientCommands BY <1>7
    <3>2. /\ Added(c, "wwwdl", "done") \in Clients
          /\ Added(c, "wwwdl", "done").commands = Append(c.commands, Command("wwwdl", "done"))
          /\ Added(c, "wwwdl", "done").downloadName = c.downloadName
          /\ Added(c, "wwwdl", "done").block = c.block /\ Added(c, "wwwdl", "done").file = c.file
          /\ SameTransfer(c, Added(c, "wwwdl", "done"))
      BY <1>5, <3>1, AddedHolds
    <3> QED BY <1>5, <1>7, <3>2 DEF d
  <2>2. client' = Com_NextDownload(e) BY <1>6, <1>9
  <2>3. st \in [Files -> Seq(Blocks)]
    <3>1. c.web \in Files BY <1>2, <1>5 DEF Clients
    <3>2. Content(c.web) \in Seq(Blocks) BY <3>1, ContentType
    <3> QED BY <2>1, <3>2 DEF Clients
  <2>4. re \in SUBSET ({None} \cup Files) BY <1>5, <2>1 DEF Clients
  <2> HIDE DEF st, re
  <2>5. e \in Clients BY <2>1, <2>3, <2>4 DEF Clients
  <2>6. /\ e.commands = d.commands /\ e.downloadName = d.downloadName
        /\ e.aborting = d.aborting /\ e.web = None /\ e.wwwDl = FALSE /\ e.loads = d.loads
        /\ e.gaveUp = d.gaveUp /\ e.acknowledged = d.acknowledged
    BY <2>1 DEF Clients
  <2> HIDE DEF e
  <2>7. /\ client' \in Clients /\ SameTransfer(e, client')
        /\ AskedForGamestate(e, client') \/ \E f \in Files : AskedForFile(e, client', f)
    BY <2>2, <2>5, NextHolds
  <2>8. MovedOn(e.commands) BY <2>7 DEF MovedOn, AskedForGamestate, AskedForFile
  <2>9. WebEnded
    <3>1. e.commands = Append(client.commands, WwwDl("done")) BY <2>1, <2>6
    <3>2. client'.wwwDl = FALSE /\ client'.aborting = client.aborting /\ client'.web = None
      BY <1>5, <2>1, <2>6, <2>7 DEF SameTransfer
    <3> QED BY <2>8, <3>1, <3>2 DEF WebEnded
  <2>10. CommandsGrow
    <3>1. e.commands \in Seq(ClientCommands) /\ Len(e.commands) = Len(client.commands) + 1
      BY <1>1, <1>7, <2>1, <2>6, AppendGrows
    <3>2. \E z \in ClientCommands : client'.commands = Append(e.commands, z)
      <4>1. Command("donedl", None) \in ClientCommands
            /\ \A h \in Files : Command("download", h) \in ClientCommands
        BY DEF Command, ClientCommands
      <4> QED BY <2>8, <4>1 DEF MovedOn
    <3>3. Len(client'.commands) = Len(e.commands) + 1 BY <3>1, <3>2, AppendGrows
    <3>4. Len(client.commands) \in Nat BY <1>1
    <3> QED BY <3>1, <3>3, <3>4 DEF CommandsGrow
  <2> QED BY <1>2, <1>5, <2>1, <2>6, <2>7, <2>9, <2>10 DEF SameTransfer
<1> QED BY <1>8, <1>9

----------------------------------------------------------------------------
(* The messages under way after a step.                                    *)

\* The first d messages are gone, and at most one came behind the others.
LinkStep(d) ==
  /\ d \in 0 .. Len(toClient)
  /\ \A k \in 1 .. Len(toClient) - d : toClient'[k] = toClient[k + d]
  /\ Len(toClient') \in {Len(toClient) - d, Len(toClient) - d + 1}

\* A message is sent.
LEMMA SendStep ==
  ASSUME Types, NEW m \in Messages, toClient' = Sent(m)
  PROVE  /\ toClient' \in Seq(Messages) /\ Len(toClient') <= MaxInFlight
         /\ \E d \in {0, 1} : LinkStep(d) /\ Len(toClient') = Len(toClient) - d + 1
         /\ toClient'[Len(toClient')] = m
<1>1. /\ Sent(m) \in Seq(Messages)
      /\ Len(Sent(m)) <= MaxInFlight
      /\ \E d \in {0, 1} :
           /\ d <= Len(toClient)
           /\ Len(Sent(m)) = Len(toClient) - d + 1
           /\ \A k \in 1 .. Len(toClient) - d : Sent(m)[k] = toClient[k + d]
           /\ Sent(m)[Len(Sent(m))] = m
  BY SentLink
<1>2. PICK d \in {0, 1} :
           /\ d <= Len(toClient)
           /\ Len(Sent(m)) = Len(toClient) - d + 1
           /\ \A k \in 1 .. Len(toClient) - d : Sent(m)[k] = toClient[k + d]
           /\ Sent(m)[Len(Sent(m))] = m
  BY <1>1
<1>3. Len(toClient) \in Nat BY DEF Types
<1>4. d \in 0 .. Len(toClient) BY <1>2, <1>3
<1>5. LinkStep(d) BY <1>2, <1>4 DEF LinkStep
<1> QED BY <1>1, <1>2, <1>5

\* A message is received: those before it are lost.
LEMMA ReceiveStep ==
  ASSUME Types, NEW i \in Link, toClient' = SubSeq(toClient, i + 1, Len(toClient))
  PROVE  /\ toClient' \in Seq(Messages) /\ Len(toClient') <= MaxInFlight
         /\ LinkStep(i) /\ Len(toClient') = Len(toClient) - i
<1> DEFINE L == toClient
           n == Len(toClient)
           R == SubSeq(L, i + 1, n)
<1>1. L \in Seq(Messages) /\ n \in Nat /\ n <= MaxInFlight /\ i \in 1 .. n /\ n = Len(L)
      /\ MaxInFlight \in Nat
  BY DownloadAssumption DEF Types, Link
<1> HIDE DEF L, n
<1>2. ASSUME NEW k \in i + 1 .. n PROVE L[k] \in Messages BY <1>1
<1>3. R \in Seq(Messages) /\ Len(R) = n - i /\ \A k \in 1 .. n - i : R[k] = L[k + i]
  <2>1. R = [k \in 1 .. n - i |-> L[k + i]]
    <3>1. R = [k \in 1 .. (n - (i + 1) + 1) |-> L[(i + 1) + k - 1]] BY <1>1
    <3>2. n - (i + 1) + 1 = n - i BY <1>1
    <3>3. \A k \in 1 .. n - i : (i + 1) + k - 1 = k + i BY <1>1
    <3> QED BY <3>1, <3>2, <3>3
  <2>2. n - i \in Nat BY <1>1
  <2>3. \A k \in 1 .. n - i : L[k + i] \in Messages
    <3> SUFFICES ASSUME NEW k \in 1 .. n - i PROVE L[k + i] \in Messages OBVIOUS
    <3>1. k + i \in i + 1 .. n BY <1>1
    <3> QED BY <1>2, <3>1
  <2> HIDE DEF R
  <2>4. R \in [1 .. n - i -> Messages] BY <2>1, <2>3
  <2>5. R \in Seq(Messages) /\ Len(R) = n - i BY <2>2, <2>4
  <2> QED BY <2>1, <2>5
<1>4. toClient' = R BY DEF R, L, n
<1> HIDE DEF R
<1> QED BY <1>1, <1>3, <1>4 DEF LinkStep, L, n

\* What is acknowledged grows along the link and is not more than was executed.
LEMMA AcknowledgedSent ==
  ASSUME Types, Acknowledged, NEW m \in Messages, toClient' = Sent(m),
         m.ack = server.lastClientCommand, client' = client,
         server'.lastClientCommand \in Nat,
         server.lastClientCommand <= server'.lastClientCommand,
         server'.lastClientCommand <= Len(client.commands)
  PROVE  Acknowledged'
<1>1. PICK d \in {0, 1} : LinkStep(d) /\ Len(toClient') = Len(toClient) - d + 1
  BY SendStep
<1>2. toClient'[Len(toClient')] = m BY SendStep
<1> DEFINE n == Len(toClient)
           a == client.acknowledged
           s == server.lastClientCommand
<1>3. /\ n \in Nat /\ a \in Nat /\ s \in Nat /\ a <= s /\ d \in Int
      /\ \A k \in 1 .. n : toClient[k].ack \in Nat
  <2>1. server \in Servers /\ client \in Clients /\ toClient \in Seq(Messages) BY DEF Types
  <2>2. s \in Nat BY <2>1 DEF Servers
  <2>3. a \in Nat BY <2>1 DEF Clients
  <2>4. a <= s BY DEF Acknowledged
  <2>5. \A k \in 1 .. n : toClient[k].ack \in Nat BY <2>1 DEF Messages
  <2>6. n \in Nat BY <2>1
  <2> QED BY <2>2, <2>3, <2>4, <2>5, <2>6
<1>4. \A k \in 1 .. n : /\ a <= toClient[k].ack /\ toClient[k].ack <= s
                        /\ \A j \in k .. n : toClient[k].ack <= toClient[j].ack
  BY DEF Acknowledged, Link
<1>5. /\ d \in 0 .. n /\ Len(toClient') = n - d + 1
      /\ \A k \in 1 .. n - d : toClient'[k] = toClient[k + d]
  BY <1>1 DEF LinkStep
<1>6. ASSUME NEW k \in 1 .. n - d + 1
      PROVE  /\ a <= toClient'[k].ack /\ toClient'[k].ack <= s
             /\ \A j \in k .. n - d + 1 : toClient'[k].ack <= toClient'[j].ack
  <2> HIDE DEF a, s, n
  <2>1. CASE k = n - d + 1
    <3>1. toClient'[k] = m BY <1>2, <1>5, <2>1
    <3>2. \A j \in k .. n - d + 1 : j = k BY <1>3, <2>1
    <3>3. m.ack = s BY DEF s
    <3> QED BY <1>3, <3>1, <3>2, <3>3
  <2>2. CASE k # n - d + 1
    <3>1. k \in 1 .. n - d /\ k + d \in 1 .. n BY <1>3, <1>5, <2>2
    <3>2. toClient'[k] = toClient[k + d] BY <1>5, <3>1
    <3>3. a <= toClient[k + d].ack /\ toClient[k + d].ack <= s BY <1>4, <3>1
    <3>4. ASSUME NEW j \in k .. n - d + 1 PROVE toClient'[k].ack <= toClient'[j].ack
      <4>1. CASE j = n - d + 1
        <5>1. toClient'[j] = m BY <1>2, <1>5, <4>1
        <5> QED BY <3>2, <3>3, <5>1 DEF s
      <4>2. CASE j # n - d + 1
        <5>1. j \in 1 .. n - d /\ j + d \in k + d .. n BY <1>3, <1>5, <3>1, <4>2
        <5>2. toClient'[j] = toClient[j + d] BY <1>5, <5>1
        <5> QED BY <1>4, <3>1, <3>2, <5>1, <5>2
      <4> QED BY <4>1, <4>2
    <3> QED BY <3>2, <3>3, <3>4
  <2> QED BY <2>1, <2>2
<1>7. \A k \in 1 .. n - d + 1 : toClient'[k].ack \in Nat
  <2>1. toClient' \in Seq(Messages) BY SendStep
  <2> QED BY <1>5, <2>1 DEF Messages
<1>8. \A k \in 1 .. n - d + 1 : toClient'[k].ack <= server'.lastClientCommand
  <2> SUFFICES ASSUME NEW k \in 1 .. n - d + 1
               PROVE  toClient'[k].ack <= server'.lastClientCommand
    OBVIOUS
  <2>1. toClient'[k].ack \in Nat /\ toClient'[k].ack <= s BY <1>6, <1>7
  <2>2. s <= server'.lastClientCommand OBVIOUS
  <2> QED BY <1>3, <2>1, <2>2
<1>9. a <= server'.lastClientCommand
  <2>1. s <= server'.lastClientCommand OBVIOUS
  <2> QED BY <1>3, <2>1
<1> QED BY <1>5, <1>6, <1>8, <1>9 DEF Acknowledged, Link

\* ... and read.
LEMMA AcknowledgedReceived ==
  ASSUME Types, Acknowledged, NEW i \in Link,
         toClient' = SubSeq(toClient, i + 1, Len(toClient)),
         server' = server, client' \in Clients, client'.acknowledged = toClient[i].ack,
         CommandsGrow
  PROVE  Acknowledged'
<1> DEFINE n == Len(toClient)
<1>1. /\ \A k \in 1 .. n - i : toClient'[k] = toClient[k + i]
      /\ Len(toClient') = n - i /\ n \in Nat /\ i \in 1 .. n
  <2>1. LinkStep(i) /\ Len(toClient') = Len(toClient) - i BY ReceiveStep
  <2> QED BY <2>1 DEF LinkStep, Types, Link
<1>2. \A k \in 1 .. n : /\ toClient[k].ack <= server.lastClientCommand
                        /\ \A j \in k .. n : toClient[k].ack <= toClient[j].ack
  BY DEF Acknowledged, Link
<1> HIDE DEF n
<1>3. \A k \in 1 .. n - i : k + i \in i .. n /\ \A j \in k .. n - i : j \in 1 .. n - i /\ j + i \in k + i .. n
  BY <1>1
<1>4. \A k \in 1 .. n - i : k + i \in 1 .. n BY <1>1
<1>5. server.lastClientCommand <= Len(client'.commands)
  <2>1. /\ server.lastClientCommand \in Nat /\ Len(client.commands) \in Nat
        /\ server.lastClientCommand <= Len(client.commands)
    <3>1. server \in Servers /\ client \in Clients BY DEF Types
    <3>2. server.lastClientCommand \in Nat BY <3>1 DEF Servers
    <3>3. client.commands \in Seq(ClientCommands) BY <3>1 DEF Clients
    <3> QED BY <3>2, <3>3 DEF Acknowledged
  <2>2. Len(client'.commands) \in Nat BY DEF Clients
  <2> QED BY <2>1, <2>2 DEF CommandsGrow
<1> QED BY <1>1, <1>2, <1>3, <1>4, <1>5 DEF Acknowledged, Link

----------------------------------------------------------------------------
(* What always holds.                                                      *)

Always == Types /\ Acknowledged /\ Window /\ Gone

\* All this holds at first.
LEMMA InitAlways == Init => Always
<1> SUFFICES ASSUME Init PROVE Always OBVIOUS
<1> DEFINE bl == [k \in 0 .. W - 1 |-> NoBlock]
           li == [i \in 1 .. NumFiles - 1 |-> i + 1]
           st == [f \in Files |-> <<>>]
           co == <<Command("download", 1)>>
<1>1. server \in Servers
  <2>1. bl \in [0 .. W - 1 -> Blocks]
    <3>1. 0 \in 0 .. MaxBlocks BY DownloadAssumption
    <3>2. NoBlock \in Blocks BY <3>1 DEF NoBlock, Block, Blocks
    <3> QED BY <3>2
  <2>2. /\ server \in [downloadName : {None}, download : {FALSE},
                      clientBlock : {0}, xmitBlock : {0}, currentBlock : {0}, eof : {FALSE},
                      blocks : {bl}, redirects : BOOLEAN,
                      wwwDl : {FALSE}, wwwing : {FALSE}, fallback : {FALSE},
                      lastClientCommand : {0}, dropped : {"no"}]
    BY DEF Init
  <2> HIDE DEF bl
  <2>3. PICK b \in BOOLEAN :
          server = [downloadName |-> None, download |-> FALSE,
                    clientBlock |-> 0, xmitBlock |-> 0, currentBlock |-> 0, eof |-> FALSE,
                    blocks |-> bl, redirects |-> b,
                    wwwDl |-> FALSE, wwwing |-> FALSE, fallback |-> FALSE,
                    lastClientCommand |-> 0, dropped |-> "no"]
    BY <2>2
  <2> QED BY <2>1, <2>3 DEF Servers
<1>2. NumFiles \in Nat \ {0} /\ MaxFailures \in Nat /\ MaxInFlight \in Nat \ {0}
  BY DownloadAssumption
<1>3. li \in Seq(Files)
  <2>1. \A i \in 1 .. NumFiles - 1 : i + 1 \in Files BY <1>2 DEF Files
  <2>2. NumFiles - 1 \in Nat BY <1>2
  <2> QED BY <2>1, <2>2
<1>4. st \in [Files -> Seq(Blocks)] OBVIOUS
<1>5. co \in Seq(ClientCommands) /\ Len(co) = 1 /\ 1 \in Files
  <2>1. 1 \in Files BY <1>2 DEF Files
  <2>2. Command("download", 1) \in ClientCommands BY <2>1 DEF Command, ClientCommands
  <2> QED BY <2>1, <2>2
<1>6. <<>> \in Seq(Blocks) /\ <<>> \in Seq(Messages) /\ 0 \in Nat OBVIOUS
<1>7. client = [downloadName |-> 1, list |-> li,
              block |-> 0, file |-> <<>>, stored |-> st,
              commands |-> co, acknowledged |-> 0,
              wwwDl |-> FALSE, aborting |-> FALSE, web |-> None,
              redirected |-> {}, badChecksum |-> {}, loads |-> FALSE,
              failures |-> MaxFailures, gaveUp |-> FALSE]
  BY DEF Init
<1> HIDE DEF li, st, co
<1>8. client \in Clients BY <1>2, <1>3, <1>4, <1>5, <1>6, <1>7 DEF Clients
<1>9. toClient = <<>> /\ size \in [Files -> 1 .. MaxBlocks] BY DEF Init
<1>10. server.lastClientCommand = 0 /\ ~server.download /\ server.dropped = "no" BY DEF Init
<1>11. client.acknowledged = 0 /\ client.commands = co BY <1>7
<1>12. Types BY <1>1, <1>2, <1>6, <1>8, <1>9 DEF Types
<1>13. Acknowledged
  <2>1. Link = {} BY <1>9 DEF Link
  <2> QED BY <1>5, <1>10, <1>11, <2>1 DEF Acknowledged
<1> QED BY <1>10, <1>12, <1>13 DEF Always, Window, Gone

\* A block or a redirect is sent.
LEMMA SendAlways ==
  ASSUME Always, NEW late \in BOOLEAN, SV_WriteDownloadToClient(late)
  PROVE  Always'
<1> USE DEF Always
<1>1. server' \in Servers /\ Window' /\ WriteKeeps /\ (RedirectSent \/ BlockSent)
  BY WriteStep
<1>2. /\ UNCHANGED <<size, client>> /\ server'.dropped = server.dropped
      /\ server.downloadName # None
      /\ server'.lastClientCommand = server.lastClientCommand
  BY <1>1 DEF WriteKeeps
<1>3. server.dropped = "no" BY <1>2 DEF Gone
<1>4. Gone' BY <1>2, <1>3 DEF Gone
<1>5. /\ server.lastClientCommand \in Nat /\ server.downloadName \in Files /\ server \in Servers
  <2>1. server \in Servers BY DEF Types
  <2> QED BY <1>2, <2>1 DEF Servers
<1>6. ASSUME UNCHANGED toClient PROVE Types' /\ Acknowledged'
  BY <1>1, <1>2, <1>6 DEF Types, Acknowledged, Link
<1>7. ASSUME NEW m \in Messages, m.ack = server.lastClientCommand, toClient' = Sent(m)
      PROVE  Types' /\ Acknowledged'
  <2>1. toClient' \in Seq(Messages) /\ Len(toClient') <= MaxInFlight BY <1>7, SendStep
  <2>2. Types' BY <1>1, <1>2, <2>1 DEF Types
  <2>3. server'.lastClientCommand <= Len(client.commands) BY <1>2 DEF Acknowledged
  <2>4. server.lastClientCommand <= server'.lastClientCommand BY <1>2, <1>5
  <2>5. Acknowledged' BY <1>2, <1>5, <1>7, <2>3, <2>4, AcknowledgedSent
  <2> QED BY <2>2, <2>5
<1>8. CASE RedirectSent
  <2>1. RedirectOf(server) \in Messages /\ RedirectOf(server).ack = server.lastClientCommand
    BY <1>5 DEF RedirectOf, Messages
  <2> QED BY <1>1, <1>4, <1>7, <1>8, <2>1 DEF RedirectSent
<1>9. CASE BlockSent
  <2>1. UNCHANGED toClient \/ \E n \in Nat : toClient' = Sent(BlockOf(server', n))
    BY <1>9 DEF BlockSent
  <2>2. ASSUME NEW n \in Nat
        PROVE  /\ BlockOf(server', n) \in Messages
               /\ BlockOf(server', n).ack = server.lastClientCommand
    <3>1. Short(n) \in -Numbers .. Numbers BY ShortType
    <3>2. n % W \in 0 .. W - 1 BY WindowNumber, SlotType
    <3>3. server'.blocks[n % W] \in Blocks BY <1>1, <3>2 DEF Servers
    <3> QED BY <1>2, <1>5, <3>1, <3>3 DEF BlockOf, Messages
  <2> QED BY <1>1, <1>4, <1>6, <1>7, <2>1, <2>2
<1> QED BY <1>1, <1>8, <1>9

\* An empty message is sent, or the client is dropped.
LEMMA MessagesAlways ==
  ASSUME Always, SV_SendClientMessages
  PROVE  Always'
<1> USE DEF Always
<1>1. server \in Servers /\ client \in Clients BY DEF Types
<1>2. UNCHANGED <<size, client>> BY DEF SV_SendClientMessages
<1>3. server.lastClientCommand \in Nat /\ server.lastClientCommand <= Len(client.commands)
  BY <1>1 DEF Servers, Acknowledged
<1>4. CASE /\ toClient' = Sent([kind |-> "idle", ack |-> server.lastClientCommand])
           /\ UNCHANGED server
  <2> DEFINE m == [kind |-> "idle", ack |-> server.lastClientCommand]
  <2>1. m \in Messages /\ m.ack = server.lastClientCommand BY <1>3 DEF Messages
  <2>2. toClient' = Sent(m) /\ server' = server BY <1>4
  <2> HIDE DEF m
  <2>3. toClient' \in Seq(Messages) /\ Len(toClient') <= MaxInFlight BY <2>1, <2>2, SendStep
  <2>4. Types' BY <1>2, <2>2, <2>3 DEF Types
  <2>5. server.lastClientCommand <= server'.lastClientCommand BY <1>3, <2>2
  <2>6. Acknowledged' BY <1>2, <1>3, <2>1, <2>2, <2>5, AcknowledgedSent
  <2> QED BY <1>2, <2>2, <2>4, <2>6 DEF Window, WindowOf, Gone
<1>5. CASE server' = Dropped(server, "timed out") /\ UNCHANGED toClient
  <2>1. server' = [server EXCEPT !.dropped = "timed out", !.downloadName = None, !.download = FALSE]
    BY <1>5 DEF Dropped
  <2>2. server' \in Servers BY <1>1, <2>1 DEF Servers
  <2>3. /\ ~server'.download /\ server'.downloadName = None
        /\ server'.lastClientCommand = server.lastClientCommand
    BY <1>1, <2>1 DEF Servers
  <2> QED BY <1>2, <1>5, <2>2, <2>3 DEF Types, Acknowledged, Link, Window, Gone
<1> QED BY <1>4, <1>5 DEF SV_SendClientMessages

\* A command is executed.
LEMMA CommandAlways ==
  ASSUME Always, SV_ClientCommand
  PROVE  Always'
<1> USE DEF Always
<1> DEFINE g == [kind |-> "gamestate", ack |-> server.lastClientCommand]
<1>1. /\ UNCHANGED <<size, client>> /\ server.lastClientCommand < Len(client.commands)
      /\ toClient' = Sent(g) \/ toClient' = toClient
  BY CommandEffect
<1>2. /\ server' \in Servers /\ Window' /\ Gone'
      /\ server'.lastClientCommand = server.lastClientCommand + 1
  BY CommandKeeps
<1>3. server \in Servers /\ client \in Clients BY DEF Types
<1>4. server.lastClientCommand \in Nat /\ Len(client.commands) \in Nat
  <2>1. server.lastClientCommand \in Nat BY <1>3 DEF Servers
  <2>2. client.commands \in Seq(ClientCommands) BY <1>3 DEF Clients
  <2> QED BY <2>1, <2>2
<1>5. g \in Messages /\ g.ack = server.lastClientCommand BY <1>4 DEF Messages
<1>6. /\ server'.lastClientCommand \in Nat
      /\ server.lastClientCommand <= server'.lastClientCommand
      /\ server'.lastClientCommand <= Len(client.commands)
  BY <1>1, <1>2, <1>4
<1> HIDE DEF g
<1>7. CASE toClient' = Sent(g)
  <2>1. toClient' \in Seq(Messages) /\ Len(toClient') <= MaxInFlight BY <1>5, <1>7, SendStep
  <2>2. Types' BY <1>1, <1>2, <2>1 DEF Types
  <2>3. Acknowledged' BY <1>1, <1>5, <1>6, <1>7, AcknowledgedSent
  <2> QED BY <1>2, <2>2, <2>3
<1>8. CASE toClient' = toClient
  <2>1. Types' BY <1>1, <1>2, <1>8 DEF Types
  <2>2. Acknowledged'
    <3>1. client.acknowledged \in Nat /\ \A k \in Link : toClient[k].ack \in Nat
      <4>1. toClient \in Seq(Messages) BY DEF Types
      <4> QED BY <1>3, <4>1 DEF Clients, Messages, Link
    <3>2. client.acknowledged <= server.lastClientCommand
          /\ \A k \in Link : toClient[k].ack <= server.lastClientCommand
      BY DEF Acknowledged
    <3>3. client.acknowledged <= server'.lastClientCommand
          /\ \A k \in Link : toClient[k].ack <= server'.lastClientCommand
      BY <1>4, <1>6, <3>1, <3>2
    <3> QED BY <1>1, <1>6, <1>8, <3>3 DEF Acknowledged, Link
  <2> QED BY <1>2, <2>1, <2>2
<1> QED BY <1>1, <1>7, <1>8

\* A message is read.
LEMMA ParseAlways ==
  ASSUME Always, NEW i \in 1 .. Len(toClient), NEW fails \in BOOLEAN,
         CL_ParseServerMessage(i, fails)
  PROVE  Always'
<1> USE DEF Always
<1>1. i \in Link BY DEF Link
<1>2. /\ client' \in Clients
      /\ UNCHANGED <<size, server>> /\ toClient' = SubSeq(toClient, i + 1, Len(toClient))
      /\ client'.acknowledged = toClient[i].ack
      /\ CommandsGrow
  BY <1>1, ParseStep
<1>3. toClient' \in Seq(Messages) /\ Len(toClient') <= MaxInFlight BY <1>1, <1>2, ReceiveStep
<1>4. Types' BY <1>2, <1>3 DEF Types
<1>5. Acknowledged' BY <1>1, <1>2, AcknowledgedReceived
<1>6. Window' /\ Gone' BY <1>2 DEF Window, WindowOf, Gone
<1> QED BY <1>4, <1>5, <1>6

\* A web download ends.
LEMMA WebAlways ==
  ASSUME Always, NEW fails \in BOOLEAN, Com_WebDownloadComplete(fails)
  PROVE  Always'
<1> USE DEF Always
<1>1. /\ client' \in Clients
      /\ UNCHANGED <<size, server, toClient>>
      /\ client'.acknowledged = client.acknowledged
      /\ CommandsGrow
  BY WebStep
<1>2. Types' BY <1>1 DEF Types
<1>3. Acknowledged'
  <2>1. /\ server.lastClientCommand \in Nat /\ Len(client.commands) \in Nat
        /\ Len(client'.commands) \in Nat
    <3>1. server \in Servers /\ client \in Clients BY DEF Types
    <3>2. server.lastClientCommand \in Nat BY <3>1 DEF Servers
    <3>3. client.commands \in Seq(ClientCommands) /\ client'.commands \in Seq(ClientCommands)
      BY <1>1, <3>1 DEF Clients
    <3> QED BY <3>2, <3>3
  <2>2. server.lastClientCommand <= Len(client'.commands)
    BY <1>1, <2>1 DEF CommandsGrow, Acknowledged
  <2> QED BY <1>1, <2>2 DEF Acknowledged, Link
<1>4. Window' /\ Gone' BY <1>1 DEF Window, WindowOf, Gone
<1> QED BY <1>2, <1>3, <1>4

\* Every step keeps it.
LEMMA NextAlways ==
  ASSUME Always, [Next]_vars
  PROVE  Always'
<1>1. CASE UNCHANGED vars
  BY <1>1 DEF Always, Types, Acknowledged, Window, WindowOf, Gone, Link, vars
<1> QED BY <1>1, SendAlways, MessagesAlways, CommandAlways, ParseAlways, WebAlways DEF Next

----------------------------------------------------------------------------
(* Messages that are lost, and messages that are added.                    *)

Sizes == [Files -> 1 .. MaxBlocks]

\* The client's commands, of which the next one may be one more.
LEMMA CommandTypes ==
  ASSUME NEW c \in Clients
  PROVE  /\ Len(c.commands) \in Nat
         /\ \A i \in 1 .. Len(c.commands) : /\ c.commands[i] \in ClientCommands
                                            /\ c.commands[i].name = "nextdl" => c.commands[i].arg \in Nat
<1>1. c.commands \in Seq(ClientCommands) BY DEF Clients
<1>2. \A e \in ClientCommands : e.name = "nextdl" => e.arg \in Nat BY DEF ClientCommands
<1> QED BY <1>1, <1>2

\* What is behind a later number is behind an earlier one.
LEMMA LaterInterval ==
  ASSUME NEW a \in Nat, NEW b \in Nat, NEW m \in Nat, a <= b
  PROVE  b + 1 .. m \subseteq a + 1 .. m
OBVIOUS

\* What matters of a client for the invariant.
Alike(c, d) ==
  /\ d.downloadName = c.downloadName /\ d.block = c.block /\ d.file = c.file
  /\ d.commands = c.commands /\ d.wwwDl = c.wwwDl /\ d.aborting = c.aborting
  /\ d.web = c.web /\ d.loads = c.loads

\* R is L without its first n messages.
Without(L, n, R) ==
  /\ n \in 0 .. Len(L) /\ Len(R) = Len(L) - n
  /\ \A k \in 1 .. Len(R) : R[k] = L[k + n]

\* What is still under way when the first messages are gone.
LEMMA WithoutFacts ==
  ASSUME NEW L \in Seq(Messages), NEW R \in Seq(Messages), NEW n \in Nat, Without(L, n, R),
         NEW c \in Clients, NEW d \in Clients, Alike(c, d)
  PROVE  /\ \A k \in 1 .. Len(R) :
              /\ k + n \in 1 .. Len(L) /\ R[k] = L[k + n]
              /\ \A j \in k + 1 .. Len(R) : j + n \in k + n + 1 .. Len(L) /\ R[j] = L[j + n]
              /\ Live(d, R, k) => Live(c, L, k + n)
              /\ NoFirstBlock(L, k + n) => NoFirstBlock(R, k)
         /\ Quiet(c, L) => Quiet(d, R)
<1>1. Len(L) \in Nat /\ Len(R) \in Nat /\ Len(R) = Len(L) - n
      /\ \A k \in 1 .. Len(R) : R[k] = L[k + n]
  BY DEF Without
<1>2. ASSUME NEW k \in 1 .. Len(R)
      PROVE  /\ k + n \in 1 .. Len(L) /\ R[k] = L[k + n]
             /\ \A j \in k + 1 .. Len(R) : j + n \in k + n + 1 .. Len(L) /\ R[j] = L[j + n]
             /\ \A j \in 1 .. k : j + n \in 1 .. k + n /\ R[j] = L[j + n]
  BY <1>1
<1>3. ASSUME NEW k \in 1 .. Len(R), Live(d, R, k) PROVE Live(c, L, k + n)
  <2>1. IsBlock(L, k + n) BY <1>2, <1>3 DEF Live, IsBlock
  <2>2. CASE d.block > 0 BY <2>1, <2>2 DEF Live, Alike
  <2>3. CASE \E j \in 1 .. k : IsBlock(R, j) /\ R[j].number = 0
    <3>1. PICK j \in 1 .. k : IsBlock(R, j) /\ R[j].number = 0 BY <2>3
    <3>2. j + n \in 1 .. k + n /\ IsBlock(L, j + n) /\ L[j + n].number = 0
      BY <1>2, <3>1 DEF IsBlock
    <3> QED BY <2>1, <3>2 DEF Live
  <2> QED BY <1>3, <2>2, <2>3 DEF Live
<1>4. ASSUME NEW k \in 1 .. Len(R), NoFirstBlock(L, k + n) PROVE NoFirstBlock(R, k)
  BY <1>2, <1>4 DEF NoFirstBlock, IsBlock
<1>5. Quiet(c, L) => Quiet(d, R)
  BY <1>2, <1>3 DEF Quiet, Alike
<1> QED BY <1>2, <1>3, <1>4, <1>5

\* The loss of the first messages keeps the invariant.
LEMMA LossFresh ==
  ASSUME NEW z \in Sizes, NEW s \in Servers, NEW c \in Clients, NEW d \in Clients, Alike(c, d),
         c.acknowledged <= d.acknowledged,
         NEW L \in Seq(Messages), NEW R \in Seq(Messages), NEW n \in Nat, Without(L, n, R),
         Fresh(z, s, c, L)
  PROVE  Fresh(z, s, d, R)
<1>1. \A k \in 1 .. Len(R) :
        /\ k + n \in 1 .. Len(L) /\ R[k] = L[k + n]
        /\ \A j \in k + 1 .. Len(R) : j + n \in k + n + 1 .. Len(L) /\ R[j] = L[j + n]
        /\ Live(d, R, k) => Live(c, L, k + n)
        /\ NoFirstBlock(L, k + n) => NoFirstBlock(R, k)
  BY WithoutFacts
<1>2. Quiet(c, L) => Quiet(d, R) BY WithoutFacts
<1>3. /\ d.downloadName = c.downloadName /\ d.block = c.block /\ d.file = c.file
      /\ d.commands = c.commands /\ d.wwwDl = c.wwwDl /\ d.aborting = c.aborting
      /\ d.web = c.web /\ d.loads = c.loads /\ Last(d) = Last(c)
      /\ Pending(s, d) = Pending(s, c)
  BY DEF Alike, Last, Pending
<1>4. ClientSide(z, d, R)
  <2> USE DEF ClientSide, Fresh
  <2>1. Shape(d) BY <1>3 DEF Shape
  <2>2. AsAsked(d) BY <1>3 DEF AsAsked, LeftBy
  <2>3. Written(z, d) BY <1>3 DEF Written
  <2>4. Expected(z, d, R)
    <3> SUFFICES ASSUME d.downloadName # None, NEW k \in 1 .. Len(R), Live(d, R, k)
                 PROVE  ExpectedAt(z, d, R, k)
      BY DEF Expected
    <3>1. ExpectedAt(z, c, L, k + n) /\ R[k] = L[k + n] BY <1>1, <1>3 DEF Expected
    <3> QED BY <1>1, <1>3, <3>1 DEF ExpectedAt
  <2>5. InWindow(d)
    <3>1. \A i \in d.acknowledged + 1 .. Len(d.commands) : i \in c.acknowledged + 1 .. Len(c.commands)
      <4>1. c.acknowledged \in Nat /\ d.acknowledged \in Nat /\ Len(c.commands) \in Nat
        BY CommandTypes DEF Clients
      <4>3. c.acknowledged <= d.acknowledged OBVIOUS
      <4>4. d.acknowledged + 1 .. Len(c.commands) \subseteq c.acknowledged + 1 .. Len(c.commands)
        BY <4>1, <4>3, LaterInterval
      <4> QED BY <1>3, <4>4
    <3> QED BY <1>3, <3>1 DEF InWindow
  <2>6. LinkOrder(d, R)
    <3>1. d.wwwDl => Quiet(d, R) BY <1>2, <1>3 DEF LinkOrder
    <3>2. ASSUME NEW k \in 1 .. Len(R), R[k].kind = "redirect"
          PROVE  Quiet(d, R) /\ \A j \in k + 1 .. Len(R) : ~IsBlock(R, j)
      <4>1. Quiet(c, L) /\ \A j \in k + n + 1 .. Len(L) : ~IsBlock(L, j)
        BY <1>1, <3>2 DEF LinkOrder
      <4> QED BY <1>1, <1>2, <4>1 DEF IsBlock
    <3>3. ASSUME NEW k \in 1 .. Len(R), R[k].kind = "gamestate"
          PROVE  Waits(Last(d)) /\ \A j \in k + 1 .. Len(R) : R[j].kind = "idle"
      <4>1. Waits(Last(c)) /\ \A j \in k + n + 1 .. Len(L) : L[j].kind = "idle"
        BY <1>1, <3>3 DEF LinkOrder
      <4> QED BY <1>1, <1>3, <4>1
    <3> QED BY <3>1, <3>2, <3>3 DEF LinkOrder
  <2> QED BY <2>1, <2>2, <2>3, <2>4, <2>5, <2>6
<1>5. NoRedirects(s, d, R) BY <1>1, <1>3 DEF NoRedirects, Fresh
<1>6. ASSUME s.dropped = "no" PROVE ServerSide(z, s, d, R)
  <2> USE DEF ServerSide
  <2>0. ServerSide(z, s, c, L) BY <1>6 DEF Fresh
  <2>1. Sending(z, s, d, R)
    <3> SUFFICES ASSUME s.download
                 PROVE  /\ ~s.fallback /\ ~s.wwwing /\ ~d.wwwDl
                        /\ s.xmitBlock <= s.currentBlock
                        /\ 2 * s.clientBlock < Numbers + 2
                        /\ \A k \in 1 .. Len(R) : R[k].kind # "redirect"
                        /\ \E K \in 0 .. Len(d.commands) - s.lastClientCommand :
                             /\ Unexecuted(s, d, K)
                             /\ s.clientBlock + K <= s.currentBlock
                             /\ Receiving(z, s, d, R, K) \/ Received(z, s, d, R, K)
      BY DEF Sending
    <3>1. /\ ~s.fallback /\ ~s.wwwing /\ ~d.wwwDl
          /\ s.xmitBlock <= s.currentBlock
          /\ 2 * s.clientBlock < Numbers + 2
          /\ \A k \in 1 .. Len(R) : R[k].kind # "redirect"
      BY <1>1, <1>3, <2>0 DEF Sending
    <3>2. PICK K \in 0 .. Len(c.commands) - s.lastClientCommand :
            /\ Unexecuted(s, c, K)
            /\ s.clientBlock + K <= s.currentBlock
            /\ Receiving(z, s, c, L, K) \/ Received(z, s, c, L, K)
      BY <2>0 DEF Sending
    <3>3. Unexecuted(s, d, K) BY <1>3, <3>2 DEF Unexecuted
    <3>4. Receiving(z, s, c, L, K) => Receiving(z, s, d, R, K)
      BY <1>1, <1>3 DEF Receiving
    <3>5. Received(z, s, c, L, K) => Received(z, s, d, R, K)
      BY <1>2, <1>3 DEF Received
    <3> QED BY <1>3, <3>1, <3>2, <3>3, <3>4, <3>5
  <2>2. NotSending(s, d, R) BY <1>2, <1>3, <2>0 DEF NotSending
  <2>3. Gamestates(d, R) => Gamestates(c, L) BY <1>1, <1>3 DEF Gamestates
  <2>4. Closed(s, d, R) BY <1>3, <2>0, <2>3 DEF Closed
  <2>5. Unanswered(s, d) BY <1>3, <2>0 DEF Unanswered
  <2>6. RedirectKnown(s, d, R) => RedirectKnown(s, c, L)
    <3>1. (\E k \in 1 .. Len(R) : R[k].kind = "redirect")
            => \E k \in 1 .. Len(L) : L[k].kind = "redirect"
      BY <1>1
    <3> QED BY <1>3, <3>1 DEF RedirectKnown
  <2>7. FallenBack(s, c, L) => FallenBack(s, d, R) BY <1>1, <1>3 DEF FallenBack
  <2>8. Redirecting(s, d, R) BY <2>0, <2>6, <2>7 DEF Redirecting
  <2> QED BY <2>1, <2>2, <2>4, <2>5, <2>8
<1> QED BY <1>4, <1>5, <1>6 DEF Fresh

\* R is L with m behind it.
With(L, m, R) ==
  /\ Len(R) = Len(L) + 1 /\ R[Len(L) + 1] = m
  /\ \A k \in 1 .. Len(L) : R[k] = L[k]

\* No message but a block changes what the client may take.
LEMMA WithFacts ==
  ASSUME NEW L \in Seq(Messages), NEW R \in Seq(Messages), NEW m \in Messages, With(L, m, R),
         NEW c \in Clients
  PROVE  /\ \A k \in 1 .. Len(R) : (k \in 1 .. Len(L) /\ R[k] = L[k]) \/ (k = Len(L) + 1 /\ R[k] = m)
         /\ \A k \in 1 .. Len(L) :
              /\ R[k] = L[k]
              /\ Live(c, R, k) => Live(c, L, k)
              /\ \A j \in k + 1 .. Len(R) :
                   (j \in k + 1 .. Len(L) /\ R[j] = L[j]) \/ (j = Len(L) + 1 /\ R[j] = m)
         /\ m.kind # "block" /\ Quiet(c, L) => Quiet(c, R)
         /\ m.kind # "block" => \A k \in 1 .. Len(R) : Live(c, R, k) => k \in 1 .. Len(L)
<1>1. Len(L) \in Nat /\ Len(R) = Len(L) + 1 /\ R[Len(L) + 1] = m
      /\ \A k \in 1 .. Len(L) : R[k] = L[k]
  BY DEF With
<1>2. \A k \in 1 .. Len(R) : (k \in 1 .. Len(L) /\ R[k] = L[k]) \/ (k = Len(L) + 1 /\ R[k] = m)
  BY <1>1
<1>3. \A k \in 1 .. Len(L) : \A j \in 1 .. k : R[j] = L[j] /\ j \in 1 .. Len(L)
  BY <1>1
<1>4. \A k \in 1 .. Len(L) : Live(c, R, k) => Live(c, L, k)
  BY <1>1, <1>3 DEF Live, IsBlock
<1>5. \A k \in 1 .. Len(L) :
        \A j \in k + 1 .. Len(R) :
          (j \in k + 1 .. Len(L) /\ R[j] = L[j]) \/ (j = Len(L) + 1 /\ R[j] = m)
  BY <1>1
<1>6. m.kind # "block" => \A k \in 1 .. Len(R) : Live(c, R, k) => k \in 1 .. Len(L)
  BY <1>2 DEF Live, IsBlock
<1>7. m.kind # "block" /\ Quiet(c, L) => Quiet(c, R)
  BY <1>4, <1>6 DEF Quiet
<1> QED BY <1>1, <1>2, <1>4, <1>5, <1>6, <1>7

\* What the server sends while it sends no blocks.
MayFollow(s, c, L, m) ==
  /\ m.kind \in {"redirect", "gamestate"} => ~\E k \in 1 .. Len(L) : L[k].kind = "gamestate"
  /\ m.kind = "redirect" =>
       Quiet(c, L) /\ s.redirects /\ ~s.download /\ ~s.fallback /\ s.wwwDl
  /\ m.kind = "gamestate" =>
       /\ Waits(Last(c)) /\ s.downloadName = None
       /\ \A i \in Pending(s, c) : c.commands[i].name = "stopdl"
       /\ s.fallback => s.lastClientCommand = Len(c.commands) /\ Last(c) = WwwDl("fail") /\ c.aborting

\* A message other than a block is sent.
LEMMA OtherFresh ==
  ASSUME NEW z \in Sizes, NEW s \in Servers, NEW c \in Clients,
         NEW L \in Seq(Messages), NEW R \in Seq(Messages), NEW m \in Messages, With(L, m, R),
         m.kind # "block", MayFollow(s, c, L, m), Fresh(z, s, c, L)
  PROVE  Fresh(z, s, c, R)
<1> DEFINE n == Len(L)
<1>1. n \in Nat /\ Len(R) = n + 1 /\ R[n + 1] = m /\ \A k \in 1 .. n : R[k] = L[k]
  BY DEF With
<1>2. \A k \in 1 .. Len(R) : (k \in 1 .. n /\ R[k] = L[k]) \/ (k = n + 1 /\ R[k] = m)
  BY WithFacts
<1>3. \A k \in 1 .. n : /\ Live(c, R, k) => Live(c, L, k)
                        /\ \A j \in k + 1 .. Len(R) :
                             (j \in k + 1 .. n /\ R[j] = L[j]) \/ (j = n + 1 /\ R[j] = m)
  BY WithFacts
<1>4. Quiet(c, L) => Quiet(c, R) BY WithFacts
<1>5. \A k \in 1 .. Len(R) : Live(c, R, k) => k \in 1 .. n BY WithFacts
<1>6. m.kind \in {"redirect", "gamestate", "idle"} BY DEF Messages
<1> HIDE DEF n
<1>7. ClientSide(z, c, R)
  <2>0. ClientSide(z, c, L) BY DEF Fresh
  <2> USE DEF ClientSide
  <2>1. Expected(z, c, R)
    <3> SUFFICES ASSUME c.downloadName # None, NEW k \in 1 .. Len(R), Live(c, R, k)
                 PROVE  ExpectedAt(z, c, R, k)
      BY DEF Expected
    <3>1. k \in 1 .. n /\ Live(c, L, k) /\ R[k] = L[k] BY <1>1, <1>3, <1>5
    <3>2. ExpectedAt(z, c, L, k) BY <2>0, <3>1 DEF Expected, n
    <3>3. NoFirstBlock(L, k) => NoFirstBlock(R, k)
      BY <1>3, <3>1 DEF NoFirstBlock, IsBlock, n
    <3> QED BY <3>1, <3>2, <3>3 DEF ExpectedAt
  <2>2. LinkOrder(c, R)
    <3>1. c.wwwDl => Quiet(c, R) BY <1>4, <2>0 DEF LinkOrder
    <3>2. ASSUME NEW k \in 1 .. Len(R), R[k].kind = "redirect"
          PROVE  Quiet(c, R) /\ \A j \in k + 1 .. Len(R) : ~IsBlock(R, j)
      <4>1. CASE k \in 1 .. n
        <5>1. Quiet(c, L) /\ \A j \in k + 1 .. n : ~IsBlock(L, j)
          BY <1>1, <2>0, <3>2, <4>1 DEF LinkOrder, n
        <5> QED BY <1>3, <1>4, <4>1, <5>1 DEF IsBlock
      <4>2. CASE k = n + 1
        <5>1. Quiet(c, L) BY <1>1, <3>2, <4>2 DEF MayFollow
        <5>2. k + 1 .. Len(R) = {} BY <1>1, <4>2
        <5> QED BY <1>4, <5>1, <5>2
      <4> QED BY <1>2, <4>1, <4>2
    <3>3. ASSUME NEW k \in 1 .. Len(R), R[k].kind = "gamestate"
          PROVE  Waits(Last(c)) /\ \A j \in k + 1 .. Len(R) : R[j].kind = "idle"
      <4>1. CASE k \in 1 .. n
        <5>1. /\ Waits(Last(c)) /\ \A j \in k + 1 .. n : L[j].kind = "idle"
              /\ L[k].kind = "gamestate"
          BY <1>1, <2>0, <3>3, <4>1 DEF LinkOrder, n
        <5>2. m.kind = "idle" BY <1>6, <4>1, <5>1 DEF MayFollow, n
        <5> QED BY <1>3, <4>1, <5>1, <5>2
      <4>2. CASE k = n + 1
        <5>1. Waits(Last(c)) BY <1>1, <3>3, <4>2 DEF MayFollow
        <5>2. k + 1 .. Len(R) = {} BY <1>1, <4>2
        <5> QED BY <5>1, <5>2
      <4> QED BY <1>2, <4>1, <4>2
    <3> QED BY <3>1, <3>2, <3>3 DEF LinkOrder
  <2> QED BY <2>0, <2>1, <2>2
<1>8. NoRedirects(s, c, R)
  <2>1. NoRedirects(s, c, L) BY DEF Fresh
  <2>2. m.kind = "redirect" => s.redirects BY DEF MayFollow
  <2> QED BY <1>2, <2>1, <2>2 DEF NoRedirects, n
<1>9. ASSUME s.dropped = "no" PROVE ServerSide(z, s, c, R)
  <2>0. ServerSide(z, s, c, L) BY <1>9 DEF Fresh
  <2> USE DEF ServerSide
  <2>1. Sending(z, s, c, R)
    <3> SUFFICES ASSUME s.download
                 PROVE  /\ ~s.fallback /\ ~s.wwwing /\ ~c.wwwDl
                        /\ s.xmitBlock <= s.currentBlock
                        /\ 2 * s.clientBlock < Numbers + 2
                        /\ \A k \in 1 .. Len(R) : R[k].kind # "redirect"
                        /\ \E K \in 0 .. Len(c.commands) - s.lastClientCommand :
                             /\ Unexecuted(s, c, K)
                             /\ s.clientBlock + K <= s.currentBlock
                             /\ Receiving(z, s, c, R, K) \/ Received(z, s, c, R, K)
      BY DEF Sending
    <3>1. m.kind # "redirect" BY DEF MayFollow
    <3>2. /\ ~s.fallback /\ ~s.wwwing /\ ~c.wwwDl
          /\ s.xmitBlock <= s.currentBlock
          /\ 2 * s.clientBlock < Numbers + 2
          /\ \A k \in 1 .. n : L[k].kind # "redirect"
      BY <2>0 DEF Sending, n
    <3>3. PICK K \in 0 .. Len(c.commands) - s.lastClientCommand :
            /\ Unexecuted(s, c, K)
            /\ s.clientBlock + K <= s.currentBlock
            /\ Receiving(z, s, c, L, K) \/ Received(z, s, c, L, K)
      BY <2>0 DEF Sending
    <3>4. Receiving(z, s, c, L, K) => Receiving(z, s, c, R, K)
      BY <1>1, <1>3, <1>5 DEF Receiving, n
    <3>5. Received(z, s, c, L, K) => Received(z, s, c, R, K) BY <1>4 DEF Received
    <3> QED BY <1>2, <3>1, <3>2, <3>3, <3>4, <3>5
  <2>2. NotSending(s, c, R) BY <1>4, <2>0 DEF NotSending
  <2>3. Closed(s, c, R)
    <3>1. Gamestates(c, R) => Gamestates(c, L) \/ m.kind = "gamestate"
      BY <1>2 DEF Gamestates, n
    <3>2. Gamestates(c, R) => /\ s.downloadName = None
                              /\ \A i \in Pending(s, c) : c.commands[i].name = "stopdl"
      BY <2>0, <3>1 DEF Closed, MayFollow
    <3> QED BY <2>0, <3>2 DEF Closed
  <2>4. Redirecting(s, c, R)
    <3>1. RedirectKnown(s, c, R) => s.wwwDl
      <4>1. (\E k \in 1 .. Len(R) : R[k].kind = "redirect")
              => m.kind = "redirect" \/ \E k \in 1 .. Len(L) : L[k].kind = "redirect"
        BY <1>2 DEF n
      <4>2. m.kind = "redirect" => s.wwwDl BY DEF MayFollow
      <4> QED BY <2>0, <4>1, <4>2 DEF Redirecting, RedirectKnown
    <3>2. ASSUME s.fallback PROVE FallenBack(s, c, R)
      <4>1. CASE m.kind = "gamestate" BY <3>2, <4>1 DEF MayFollow, FallenBack
      <4>2. CASE m.kind = "redirect" BY <3>2, <4>2 DEF MayFollow
      <4>3. CASE m.kind = "idle"
        <5>1. FallenBack(s, c, L) BY <2>0, <3>2 DEF Redirecting
        <5> QED BY <1>2, <4>3, <5>1 DEF FallenBack, n
      <4> QED BY <1>6, <4>1, <4>2, <4>3
    <3> QED BY <3>1, <3>2 DEF Redirecting
  <2> QED BY <2>0, <2>1, <2>2, <2>3, <2>4
<1> QED BY <1>7, <1>8, <1>9 DEF Fresh

----------------------------------------------------------------------------
(* The server sends.                                                       *)

\* What was sent is behind what is left of the link.
LEMMA SentIs ==
  ASSUME Types, NEW m \in Messages, toClient' = Sent(m)
  PROVE  \E D \in Seq(Messages), n \in {0, 1} : Without(toClient, n, D) /\ With(D, m, toClient')
<1> DEFINE L == toClient
<1>1. L \in Seq(Messages) /\ Len(L) \in Nat /\ MaxInFlight \in Nat \ {0}
  BY DownloadAssumption DEF Types
<1>2. toClient' = Append(IF Len(L) < MaxInFlight THEN L ELSE Tail(L), m) BY DEF Sent
<1> HIDE DEF L
<1>3. ASSUME NEW D \in Seq(Messages), toClient' = Append(D, m) PROVE With(D, m, toClient')
  <2>1. /\ Len(Append(D, m)) = Len(D) + 1 /\ Append(D, m)[Len(D) + 1] = m
        /\ \A k \in 1 .. Len(D) : Append(D, m)[k] = D[k]
    BY AppendProperties
  <2> QED BY <1>3, <2>1 DEF With
<1>4. CASE Len(L) < MaxInFlight
  <2>1. Without(L, 0, L) BY <1>1 DEF Without
  <2> QED BY <1>1, <1>2, <1>3, <1>4, <2>1 DEF L
<1>5. CASE ~(Len(L) < MaxInFlight)
  <2> DEFINE D == Tail(L)
  <2>1. L # <<>> BY <1>1, <1>5
  <2>2. D \in Seq(Messages) /\ Len(D) = Len(L) - 1 /\ \A k \in 1 .. Len(D) : D[k] = L[k + 1]
    BY <1>1, <2>1, HeadTailProperties
  <2>3. toClient' = Append(D, m) BY <1>2, <1>5
  <2> HIDE DEF D
  <2>4. 1 \in 0 .. Len(L) BY <1>1, <1>5
  <2>5. Without(L, 1, D) BY <2>2, <2>4 DEF Without
  <2> QED BY <1>3, <2>2, <2>3, <2>5 DEF L
<1> QED BY <1>4, <1>5

\* A message other than a block is sent.
LEMMA SendFresh ==
  ASSUME Types, NEW m \in Messages, toClient' = Sent(m), m.kind # "block",
         NEW s \in Servers, MayFollow(s, client, toClient, m),
         Fresh(size, s, client, toClient)
  PROVE  Fresh(size, s, client, toClient')
<1> DEFINE z == size
           c == client
           L == toClient
           R == toClient'
<1>1. z \in Sizes /\ c \in Clients /\ L \in Seq(Messages) /\ R \in Seq(Messages)
  <2>1. toClient' \in Seq(Messages) BY SendStep
  <2> QED BY <2>1 DEF Types, Sizes
<1>2. PICK D \in Seq(Messages), n \in {0, 1} : Without(L, n, D) /\ With(D, m, R) BY SentIs
<1>3. n \in Nat /\ \A k \in 1 .. Len(D) : \E j \in 1 .. Len(L) : D[k] = L[j]
  <2>1. Len(L) \in Nat BY <1>1
  <2> QED BY <1>2, <2>1 DEF Without
<1>4. Alike(c, c) /\ c.acknowledged <= c.acknowledged
  <2>1. c.acknowledged \in Nat BY <1>1 DEF Clients
  <2> QED BY <2>1 DEF Alike
<1> HIDE DEF z, c, L, R
<1>5. Fresh(z, s, c, L) BY DEF z, c, L
<1>6. Fresh(z, s, c, D) BY <1>1, <1>2, <1>3, <1>4, <1>5, LossFresh
<1>7. MayFollow(s, c, D, m)
  <2>1. MayFollow(s, c, L, m) BY DEF c, L
  <2>2. Quiet(c, L) => Quiet(c, D) BY <1>1, <1>2, <1>3, <1>4, WithoutFacts
  <2> QED BY <1>3, <2>1, <2>2 DEF MayFollow
<1>8. Fresh(z, s, c, R) BY <1>1, <1>2, <1>6, <1>7, OtherFresh
<1> QED BY <1>8 DEF z, c, R

\* The window is filled, or started again.
SameClient(s, t) ==
  /\ t.downloadName = s.downloadName /\ t.wwwing = s.wwwing /\ t.redirects = s.redirects
  /\ t.lastClientCommand = s.lastClientCommand /\ t.dropped = s.dropped

Refilled(s, t) ==
  /\ SameClient(s, t) /\ s.download /\ t.download
  /\ t.clientBlock = s.clientBlock /\ t.fallback = s.fallback /\ t.wwwDl = s.wwwDl
  /\ s.currentBlock <= t.currentBlock
  /\ t.xmitBlock \in {s.xmitBlock, s.clientBlock}

\* The server's window changes, and nothing the client could know of.
LEMMA RefilledFresh ==
  ASSUME NEW z \in Sizes, NEW s \in Servers, NEW t \in Servers, Refilled(s, t),
         NEW c \in Clients, NEW L \in Seq(Messages), Fresh(z, s, c, L)
  PROVE  Fresh(z, t, c, L)
<1>1. /\ t.downloadName = s.downloadName /\ t.wwwing = s.wwwing /\ t.redirects = s.redirects
      /\ t.lastClientCommand = s.lastClientCommand /\ t.dropped = s.dropped
      /\ s.download /\ t.download
      /\ t.clientBlock = s.clientBlock /\ t.fallback = s.fallback /\ t.wwwDl = s.wwwDl
      /\ s.currentBlock <= t.currentBlock
      /\ t.xmitBlock \in {s.xmitBlock, s.clientBlock}
      /\ Pending(t, c) = Pending(s, c)
  BY DEF Refilled, SameClient, Pending
<1>2. /\ s.currentBlock \in Nat /\ t.currentBlock \in Nat /\ s.clientBlock \in Nat
      /\ s.xmitBlock \in Nat /\ s.lastClientCommand \in Nat
  BY DEF Servers
<1>3. ASSUME t.dropped = "no" PROVE ServerSide(z, t, c, L)
  <2>1. /\ Sending(z, s, c, L) /\ Closed(s, c, L) /\ Unanswered(s, c) /\ Redirecting(s, c, L)
    BY <1>1, <1>3 DEF Fresh, ServerSide
  <2>2. PICK K \in 0 .. Len(c.commands) - s.lastClientCommand :
          /\ Unexecuted(s, c, K)
          /\ s.clientBlock + K <= s.currentBlock
          /\ Receiving(z, s, c, L, K) \/ Received(z, s, c, L, K)
    BY <1>1, <2>1 DEF Sending
  <2>3. s.clientBlock + K <= t.currentBlock /\ t.xmitBlock <= t.currentBlock
    <3>1. s.xmitBlock <= s.currentBlock BY <1>1, <2>1 DEF Sending
    <3>2. K \in Nat BY <2>2
    <3> QED BY <1>1, <1>2, <2>2, <3>1, <3>2
  <2>4. Unexecuted(t, c, K) BY <1>1, <2>2 DEF Unexecuted
  <2>5. Begins(s) => Begins(t) BY <1>1 DEF Begins
  <2>6. Receiving(z, s, c, L, K) => Receiving(z, t, c, L, K)
    <3>1. \A k \in 1 .. Len(L) : L[k].number < s.currentBlock /\ Live(c, L, k) => L[k].number < t.currentBlock
      <4> SUFFICES ASSUME NEW k \in 1 .. Len(L), L[k].number < s.currentBlock, Live(c, L, k)
                   PROVE  L[k].number < t.currentBlock
        OBVIOUS
      <4>1. L[k].number \in Int
        <5>1. L[k] \in Messages /\ L[k].kind = "block" BY DEF Live, IsBlock
        <5>2. Numbers \in Nat BY DownloadAssumption
        <5> QED BY <5>1, <5>2 DEF Messages
      <4> QED BY <1>1, <1>2, <4>1
    <3> QED BY <1>1, <2>5, <3>1 DEF Receiving
  <2>7. Received(z, s, c, L, K) => Received(z, t, c, L, K) BY <1>1, <2>5 DEF Received
  <2>8. Sending(z, t, c, L) BY <1>1, <2>1, <2>2, <2>3, <2>4, <2>6, <2>7 DEF Sending
  <2>9. NotSending(t, c, L) BY <1>1 DEF NotSending
  <2>10. Closed(t, c, L) BY <1>1, <2>1 DEF Closed
  <2>11. Unanswered(t, c) BY <1>1, <2>1 DEF Unanswered
  <2>12. Redirecting(t, c, L)
    BY <1>1, <2>1 DEF Redirecting, RedirectKnown, FallenBack
  <2> QED BY <2>8, <2>9, <2>10, <2>11, <2>12 DEF ServerSide
<1>4. NoRedirects(t, c, L) BY <1>1 DEF Fresh, NoRedirects
<1> QED BY <1>1, <1>3, <1>4 DEF Fresh

\* A file is opened: the client has asked for it, and waits for its first block.
Reopened(s, t) ==
  /\ SameClient(s, t) /\ ~s.download /\ t.download
  /\ s.downloadName # None /\ ~s.wwwing /\ (s.redirects => s.fallback)
  /\ t.clientBlock = 0 /\ t.xmitBlock = 0 /\ ~t.fallback /\ ~t.wwwDl

\* The server opens the file that was asked for.
LEMMA ReopenedFresh ==
  ASSUME NEW z \in Sizes, NEW s \in Servers, NEW t \in Servers, Reopened(s, t),
         NEW c \in Clients, NEW L \in Seq(Messages), Fresh(z, s, c, L),
         s.lastClientCommand <= Len(c.commands)
  PROVE  Fresh(z, t, c, L)
<1>1. /\ t.downloadName = s.downloadName /\ t.wwwing = s.wwwing /\ t.redirects = s.redirects
      /\ t.lastClientCommand = s.lastClientCommand /\ t.dropped = s.dropped
      /\ ~s.download /\ t.download
      /\ s.downloadName # None /\ ~s.wwwing /\ (s.redirects => s.fallback)
      /\ t.clientBlock = 0 /\ t.xmitBlock = 0 /\ ~t.fallback /\ ~t.wwwDl
      /\ Pending(t, c) = Pending(s, c)
  BY DEF Reopened, SameClient, Pending
<1>2. /\ t.currentBlock \in Nat /\ s.lastClientCommand \in Nat /\ Len(c.commands) \in Nat
  BY CommandTypes DEF Servers
<1>3. ASSUME t.dropped = "no" PROVE ServerSide(z, t, c, L)
  <2> DEFINE e == s.lastClientCommand
  <2>1. /\ NotSending(s, c, L) /\ Closed(s, c, L) /\ Unanswered(s, c) /\ Redirecting(s, c, L)
        /\ Shape(c) /\ AsAsked(c) /\ NoRedirects(s, c, L)
    BY <1>1, <1>3 DEF Fresh, ServerSide, ClientSide
  <2>2. /\ Quiet(c, L) /\ \A i \in Pending(s, c) : c.commands[i].name # "nextdl"
        /\ e >= 1 /\ c.commands[e] = Command("download", s.downloadName)
    BY <1>1, <2>1 DEF NotSending
  <2>3. ~Gamestates(c, L) /\ ~c.loads BY <1>1, <2>1 DEF Closed, Gamestates
  <2>4. \A sub : WwwDl(sub) # Command("download", s.downloadName)
        /\ WwwDl(sub).name = "wwwdl" /\ Command("download", s.downloadName).name = "download"
    BY DEF WwwDl, Command
  <2> HIDE DEF e
  <2>5. e = Len(c.commands)
    <3> SUFFICES ASSUME e < Len(c.commands) PROVE FALSE BY <1>2 DEF e
    <3>1. e \in 1 .. Len(c.commands) - 1 /\ e + 1 \in Pending(s, c)
      BY <1>2, <2>2 DEF Pending, e
    <3>2. Follows(c.commands[e], c.commands[e + 1]) BY <2>1, <3>1 DEF Shape
    <3>3. c.commands[e + 1] = Command("nextdl", 0) \/ c.commands[e + 1] = WwwDl("ack")
      BY <2>2, <2>4, <3>2 DEF Follows
    <3>4. c.commands[e + 1] = WwwDl("ack") BY <2>2, <3>1, <3>3 DEF Command
    <3>5. s.redirects
      <4>1. e + 1 \in 1 .. Len(c.commands) BY <1>2, <3>1
      <4> QED BY <2>1, <2>4, <3>4, <4>1 DEF NoRedirects
    <3>6. FallenBack(s, c, L) BY <1>1, <2>1, <3>5 DEF Redirecting
    <3>7. e # Len(c.commands) BY <1>2, <3>1
    <3>8. c.commands[e + 1].name = "download" BY <3>1, <3>6, <3>7 DEF FallenBack, e
    <3> QED BY <2>4, <3>4, <3>8
  <2>6. Last(c) = Command("download", s.downloadName) BY <2>2, <2>5 DEF Last
  <2>7. /\ c.downloadName = s.downloadName /\ c.block = 0
        /\ ~c.wwwDl /\ ~c.aborting /\ c.web = None
    BY <2>1, <2>3, <2>6 DEF AsAsked, LeftBy, Command
  <2>8. \A k \in 1 .. Len(L) : L[k].kind # "redirect"
    <3>1. CASE s.redirects
      <4>1. FallenBack(s, c, L) BY <1>1, <2>1, <3>1 DEF Redirecting
      <4>2. \A k \in 1 .. Len(L) : L[k].kind = "idle" BY <2>4, <2>6, <4>1 DEF FallenBack
      <4> QED BY <4>2
    <3>2. CASE ~s.redirects BY <2>1, <3>2 DEF NoRedirects
    <3> QED BY <3>1, <3>2
  <2>9. \A k \in 1 .. Len(L) : ~Live(c, L, k) BY <1>1, <2>2, <2>7 DEF Quiet
  <2>10. Sending(z, t, c, L)
    <3>1. Unexecuted(t, c, 0)
      <4>1. 1 .. 0 = {} /\ t.lastClientCommand + 0 + 1 .. Len(c.commands) = {}
        BY <1>1, <1>2, <2>5 DEF e
      <4> QED BY <4>1 DEF Unexecuted
    <3>2. Receiving(z, t, c, L, 0)
      BY <1>1, <1>2, <2>5, <2>7, <2>9 DEF Receiving, e
    <3>3. 0 \in 0 .. Len(c.commands) - t.lastClientCommand BY <1>1, <1>2
    <3>4. t.clientBlock + 0 <= t.currentBlock /\ t.xmitBlock <= t.currentBlock
          /\ 2 * t.clientBlock < Numbers + 2
      <4>1. Numbers \in Nat BY DownloadAssumption
      <4> QED BY <1>1, <1>2, <4>1
    <3> QED BY <1>1, <2>7, <2>8, <3>1, <3>2, <3>3, <3>4 DEF Sending
  <2>11. NotSending(t, c, L) BY <1>1 DEF NotSending
  <2>12. Closed(t, c, L) BY <1>1, <2>1 DEF Closed
  <2>13. Unanswered(t, c) BY <1>1, <2>1 DEF Unanswered
  <2>14. ~RedirectKnown(t, c, L)
    <3>1. Pending(s, c) = {} BY <1>2, <2>5 DEF Pending, e
    <3> QED BY <1>1, <2>7, <2>8, <3>1 DEF RedirectKnown
  <2>15. Redirecting(t, c, L) BY <1>1, <2>14 DEF Redirecting
  <2> QED BY <2>10, <2>11, <2>12, <2>13, <2>15 DEF ServerSide
<1>4. NoRedirects(t, c, L) BY <1>1 DEF Fresh, NoRedirects
<1> QED BY <1>1, <1>3, <1>4 DEF Fresh

\* The next block is sent: the client takes it for one of its file only if it
\* is that, and none has number 0 after the client had all of the file.
WindowAt(z, s) ==
  /\ s.currentBlock <= z[s.downloadName] + 1
  /\ s.currentBlock - s.clientBlock <= W
  /\ \A n \in s.clientBlock .. s.currentBlock - 1 : s.blocks[n % W] = Block(s.downloadName, n)

\* A block is sent.
LEMMA BlockFresh ==
  ASSUME NEW z \in Sizes, NEW s \in Servers, NEW t \in Servers, NEW c \in Clients,
         NEW L \in Seq(Messages), NEW R \in Seq(Messages),
         BlockOf(s, s.xmitBlock) \in Messages, With(L, BlockOf(s, s.xmitBlock), R),
         t = [s EXCEPT !.xmitBlock = s.xmitBlock + 1],
         s.download, s.dropped = "no", s.downloadName \in Files,
         s.xmitBlock < s.currentBlock, WindowAt(z, s), W <= z[s.downloadName],
         s.lastClientCommand <= Len(c.commands),
         Fresh(z, s, c, L)
  PROVE  Fresh(z, t, c, R)
<1> DEFINE n  == s.xmitBlock
           m  == BlockOf(s, n)
           q  == m.number
           cb == s.clientBlock
           e  == s.lastClientCommand
           Z  == z[s.downloadName]
           l  == Len(L)
           C  == Len(c.commands)
<1>1. /\ n \in Nat /\ cb \in Nat /\ e \in Nat /\ Z \in Nat /\ l \in Nat /\ C \in Nat
      /\ s.currentBlock \in Nat /\ W \in Nat \ {0} /\ Numbers \in Nat /\ Numbers > 2 * W
  <2>1. z[s.downloadName] \in 1 .. MaxBlocks /\ MaxBlocks \in Nat BY DownloadAssumption DEF Sizes
  <2>2. s.xmitBlock \in Nat /\ s.clientBlock \in Nat /\ s.lastClientCommand \in Nat
        /\ s.currentBlock \in Nat
    BY DEF Servers
  <2>3. Numbers \in Nat /\ Numbers > 2 * W BY DownloadAssumption, WindowNumber
  <2> QED BY <2>1, <2>2, <2>3, WindowNumber, CommandTypes
<1>2. /\ s.currentBlock <= Z + 1 /\ s.currentBlock - cb <= W /\ n < s.currentBlock /\ W <= Z
      /\ \A i \in cb .. s.currentBlock - 1 : s.blocks[i % W] = Block(s.downloadName, i)
      /\ e <= C
  BY DEF WindowAt
<1>b. /\ s.currentBlock <= Z + 1 /\ s.currentBlock - cb <= W /\ n < s.currentBlock /\ W <= Z
  BY <1>2
<1>w. n <= cb + W - 1 /\ n < cb + W
  <2> DEFINE x == s.currentBlock
  <2>1. n \in Int /\ cb \in Int /\ x \in Int /\ W \in Int BY <1>1
  <2>2. x - cb <= W /\ n < x BY <1>b
  <2> HIDE DEF n, cb, x
  <2> QED BY <2>1, <2>2
<1>3. /\ Sending(z, s, c, L) /\ Closed(s, c, L) /\ Unanswered(s, c) /\ Redirecting(s, c, L)
      /\ NoRedirects(s, c, L)
      /\ Shape(c) /\ AsAsked(c) /\ Written(z, c) /\ Expected(z, c, L) /\ InWindow(c)
      /\ LinkOrder(c, L)
  BY DEF Fresh, ServerSide, ClientSide
<1>4. /\ ~s.fallback /\ ~s.wwwing /\ ~c.wwwDl /\ 2 * cb < Numbers + 2
      /\ \A k \in 1 .. l : L[k].kind # "redirect"
      /\ \E K \in 0 .. C - e : /\ Unexecuted(s, c, K)
                               /\ cb + K <= s.currentBlock
                               /\ Receiving(z, s, c, L, K) \/ Received(z, s, c, L, K)
  BY <1>3 DEF Sending
<1>5. PICK K \in 0 .. C - e : /\ Unexecuted(s, c, K)
                              /\ cb + K <= s.currentBlock
                              /\ Receiving(z, s, c, L, K) \/ Received(z, s, c, L, K)
  BY <1>4
<1>6. K \in Nat BY <1>1, <1>5
<1>7. /\ m.kind = "block" /\ m.ack = e /\ q = Short(n) /\ m.data = s.blocks[n % W]
  BY DEF BlockOf
<1>8. /\ q \in Int /\ q <= n /\ 2 * q < Numbers /\ (q >= 0 => q = n) /\ (n >= 1 => q # 0)
  <2>1. n < Numbers
    <3>1. n \in Int /\ cb \in Int /\ W \in Int /\ Numbers \in Int /\ Numbers > 2 * W BY <1>1
    <3>2. n <= cb + W - 1 /\ 2 * cb < Numbers + 2 BY <1>4, <1>w
    <3> HIDE DEF n, cb
    <3> QED BY <3>1, <3>2
  <2>2. q = IF 2 * n < Numbers THEN n ELSE n - Numbers
    <3> HIDE DEF n, m
    <3> QED BY <1>1, <1>7, <2>1, ShortType
  <2>3. n \in Nat /\ Numbers \in Nat BY <1>1
  <2> HIDE DEF n, q
  <2>4. CASE 2 * n < Numbers BY <2>2, <2>3, <2>4
  <2>5. CASE ~(2 * n < Numbers)
    <3>1. q = n - Numbers BY <2>2, <2>5
    <3> QED BY <2>1, <2>3, <3>1
  <2> QED BY <2>4, <2>5
<1>v. q < cb + W
  <2>1. n \in Int /\ q \in Int /\ cb \in Int /\ W \in Int BY <1>1, <1>8
  <2>2. q <= n BY <1>8
  <2> HIDE DEF n, q, cb
  <2> QED BY <2>1, <2>2, <1>w
<1>9. /\ t \in Servers /\ t.xmitBlock = n + 1 /\ t.clientBlock = cb
      /\ t.currentBlock = s.currentBlock /\ t.downloadName = s.downloadName
      /\ t.download /\ t.lastClientCommand = e /\ t.redirects = s.redirects
      /\ t.wwwing = s.wwwing /\ t.dropped = s.dropped /\ t.fallback = s.fallback
      /\ t.wwwDl = s.wwwDl /\ Pending(t, c) = Pending(s, c)
  BY DEF Servers, Pending
<1>10. /\ Len(R) = l + 1 /\ R[l + 1] = m /\ \A k \in 1 .. l : R[k] = L[k]
  BY DEF With
<1>11. \A k \in 1 .. Len(R) : (k \in 1 .. l /\ R[k] = L[k]) \/ (k = l + 1 /\ R[k] = m)
  BY WithFacts
<1>12. \A k \in 1 .. l :
         /\ Live(c, R, k) => Live(c, L, k)
         /\ \A j \in k + 1 .. Len(R) : (j \in k + 1 .. l /\ R[j] = L[j]) \/ (j = l + 1 /\ R[j] = m)
  BY WithFacts
<1> HIDE DEF n, m, q, cb, e, Z, l, C
<1>13. Begins(s) => n >= 1 BY DEF Begins, n
<1>14. Begins(s) => Begins(t) BY <1>1, <1>9 DEF Begins, cb
<1>15. ASSUME Received(z, s, c, L, K) PROVE Quiet(c, R)
  <2>1. Quiet(c, L) /\ Begins(s) BY <1>15 DEF Received
  <2>2. CASE c.downloadName = None BY <2>2 DEF Quiet
  <2>3. CASE c.downloadName # None
    <3>1. c.block = 0 /\ \A k \in 1 .. l : ~Live(c, L, k) BY <2>1, <2>3 DEF Quiet, l
    <3>2. \A j \in 1 .. l : ~(IsBlock(L, j) /\ L[j].number = 0)
      <4> SUFFICES ASSUME NEW j \in 1 .. l, IsBlock(L, j), L[j].number = 0 PROVE FALSE
        OBVIOUS
      <4>1. j \in 1 .. j BY <1>1
      <4>2. Live(c, L, j) BY <4>1 DEF Live
      <4> QED BY <3>1, <4>2
    <3>3. q # 0 BY <1>8, <1>13, <2>1
    <3>4. \A j \in 1 .. Len(R) : ~(IsBlock(R, j) /\ R[j].number = 0)
      BY <1>11, <3>2, <3>3 DEF IsBlock, q
    <3>5. ~(c.block > 0) BY <3>1
    <3>6. \A k \in 1 .. Len(R) : \A j \in 1 .. k : j \in 1 .. Len(R) BY <1>1, <1>10
    <3>7. \A k \in 1 .. Len(R) : ~Live(c, R, k) BY <3>4, <3>5, <3>6 DEF Live
    <3> QED BY <3>1, <3>7 DEF Quiet
  <2> QED BY <2>2, <2>3
<1>16. Expected(z, c, R)
  <2> SUFFICES ASSUME c.downloadName # None, NEW k \in 1 .. Len(R), Live(c, R, k)
               PROVE  ExpectedAt(z, c, R, k)
    BY DEF Expected
  <2>1. Receiving(z, s, c, L, K)
    <3> SUFFICES ASSUME Received(z, s, c, L, K) PROVE FALSE BY <1>5
    <3> QED BY <1>15 DEF Quiet
  <2>2. /\ e + K = C /\ c.downloadName = s.downloadName /\ c.block = cb + K
        /\ \A i \in 1 .. l : Live(c, L, i) => (L[i].number = Z => Begins(s))
    BY <2>1 DEF Receiving, e, C, cb, l, Z
  <2>3. CASE k \in 1 .. l
    <3>1. ExpectedAt(z, c, L, k) /\ R[k] = L[k] /\ Live(c, L, k)
      BY <1>3, <1>10, <1>12, <2>3 DEF Expected, l
    <3>2. L[k].number = Z => NoFirstBlock(R, k)
      <4> SUFFICES ASSUME L[k].number = Z PROVE NoFirstBlock(R, k) OBVIOUS
      <4>1. NoFirstBlock(L, k) BY <2>2, <3>1 DEF ExpectedAt, Z
      <4>2. q # 0 BY <1>8, <1>13, <2>2, <2>3, <3>1
      <4> QED BY <1>12, <2>3, <4>1, <4>2 DEF NoFirstBlock, IsBlock, l, q
    <3> QED BY <2>2, <3>1, <3>2 DEF ExpectedAt, Z
  <2>4. CASE k = l + 1
    <3>1. R[k] = m BY <1>10, <2>4
    <3>2. q >= c.block => m.data = Block(c.downloadName, q) /\ q <= z[c.downloadName]
      <4> SUFFICES ASSUME q >= c.block
                   PROVE  m.data = Block(c.downloadName, q) /\ q <= z[c.downloadName]
        OBVIOUS
      <4>i. /\ n \in Nat /\ cb \in Nat /\ q \in Int /\ Z \in Int /\ s.currentBlock \in Int
        BY <1>1, <1>8
      <4>k. c.block = cb + K BY <2>2
      <4>1. q = n /\ n >= cb
        <5>1. q >= cb + K BY <4>k
        <5>2. q >= 0 => q = n BY <1>8
        <5> QED BY <1>6, <4>i, <5>1, <5>2
      <4>2. n \in cb .. s.currentBlock - 1 /\ n <= Z BY <1>b, <4>i, <4>1
      <4>3. s.blocks[n % W] = Block(s.downloadName, n) BY <1>2, <4>2
      <4> QED BY <1>7, <2>2, <4>1, <4>2, <4>3 DEF Z
    <3>3. q < c.block + W
      <4>1. c.block = cb + K /\ q \in Int /\ cb \in Nat /\ W \in Nat BY <1>1, <1>8, <2>2
      <4> QED BY <1>6, <1>v, <4>1
    <3>4. NoFirstBlock(R, k)
      <4>1. k + 1 .. Len(R) = {} BY <1>1, <1>10, <2>4
      <4> QED BY <4>1 DEF NoFirstBlock
    <3>5. ASSUME NEW i \in m.ack + 1 .. C, c.commands[i].name = "nextdl"
          PROVE  c.commands[i].arg < c.block /\ q < c.commands[i].arg + W
      <4> DEFINE x == i - e
      <4>0. i \in Int /\ e + 1 <= i /\ i <= e + K
        <5>1. i \in e + 1 .. C BY <1>7, <3>5
        <5> QED BY <1>1, <1>6, <2>2, <5>1
      <4>i. e \in Nat /\ cb \in Nat /\ W \in Nat /\ q \in Int BY <1>1, <1>8
      <4>1. x \in 1 .. K /\ e + x = i BY <1>6, <4>i, <4>0
      <4>2. c.commands[i] = Command("nextdl", cb + x - 1)
        <5> HIDE DEF x
        <5> QED BY <1>5, <4>1 DEF Unexecuted, e, cb
      <4>3. c.commands[i].arg = cb + x - 1 BY <4>2 DEF Command
      <4>5. c.block = cb + K BY <2>2
      <4> HIDE DEF x
      <4>6. cb + x - 1 < cb + K /\ q < cb + x - 1 + W BY <1>6, <1>v, <4>i, <4>1
      <4> QED BY <4>3, <4>5, <4>6
    <3> QED BY <1>8, <3>1, <3>2, <3>3, <3>4, <3>5 DEF ExpectedAt, q, C
  <2> QED BY <1>11, <2>3, <2>4
<1>17. Sending(z, t, c, R)
  <2>1. Unexecuted(t, c, K) BY <1>5, <1>9 DEF Unexecuted, cb, e
  <2>2. Receiving(z, s, c, L, K) => Receiving(z, t, c, R, K)
    <3> SUFFICES ASSUME Receiving(z, s, c, L, K) PROVE Receiving(z, t, c, R, K) OBVIOUS
    <3>1. /\ e + K = C /\ c.downloadName = s.downloadName /\ c.block = cb + K
          /\ \A i \in 1 .. l : Live(c, L, i) => /\ L[i].number < s.currentBlock
                                                /\ L[i].number = Z => Begins(s)
      BY DEF Receiving, e, C, cb, l, Z
    <3>i. /\ n \in Int /\ q \in Int /\ cb \in Int /\ Z \in Int /\ W \in Int
          /\ s.currentBlock \in Int
      BY <1>1, <1>8
    <3>2. q < s.currentBlock
      <4>1. q <= n /\ n < s.currentBlock BY <1>8, <1>b
      <4> QED BY <3>i, <4>1
    <3>3. q = Z => Begins(t)
      <4> SUFFICES ASSUME q = Z PROVE Begins(t) OBVIOUS
      <4>1. n = Z /\ n >= W
        <5>1. Z \in Nat /\ (q >= 0 => q = n) BY <1>1, <1>8
        <5>2. n = Z BY <5>1
        <5> QED BY <1>b, <3>i, <5>2
      <4>2. cb >= 1
        <5>1. s.currentBlock - cb <= W /\ n < s.currentBlock BY <1>b
        <5> QED BY <3>i, <4>1, <5>1
      <4> QED BY <1>1, <1>9, <4>2 DEF Begins, cb
    <3>4. \A k \in 1 .. Len(R) : Live(c, R, k) => /\ R[k].number < s.currentBlock
                                                  /\ R[k].number = Z => Begins(t)
      BY <1>11, <1>12, <1>14, <3>1, <3>2, <3>3 DEF q
    <3> QED BY <1>9, <3>1, <3>4 DEF Receiving, e, C, cb, Z
  <2>3. Received(z, s, c, L, K) => Received(z, t, c, R, K)
    BY <1>9, <1>14, <1>15 DEF Received, cb, e
  <2>4. \A k \in 1 .. Len(R) : R[k].kind # "redirect" BY <1>4, <1>7, <1>11
  <2>5. t.xmitBlock <= t.currentBlock BY <1>1, <1>2, <1>9
  <2> QED BY <1>4, <1>5, <1>9, <2>1, <2>2, <2>3, <2>4, <2>5 DEF Sending, cb, e, C
<1>18. /\ s.downloadName # None /\ \A k \in 1 .. Len(R) : R[k].kind # "gamestate"
  <2>1. s.downloadName # None BY DEF Files, None
  <2>2. ~Gamestates(c, L) BY <1>3, <2>1 DEF Closed
  <2> QED BY <1>7, <1>11, <2>1, <2>2 DEF Gamestates, l
<1>19. LinkOrder(c, R)
  <2>1. \A k \in 1 .. Len(R) : R[k].kind # "redirect" BY <1>4, <1>7, <1>11
  <2> QED BY <1>4, <1>18, <2>1 DEF LinkOrder
<1>20. NoRedirects(t, c, R) BY <1>3, <1>7, <1>9, <1>11 DEF NoRedirects, l
<1>21. NotSending(t, c, R) BY <1>9 DEF NotSending
<1>22. Closed(t, c, R)
  <2>1. Gamestates(c, R) => Gamestates(c, L) BY <1>18 DEF Gamestates
  <2> QED BY <1>3, <1>9, <2>1 DEF Closed, e
<1>23. Unanswered(t, c) BY <1>3, <1>9 DEF Unanswered
<1>24. Redirecting(t, c, R)
  <2>1. RedirectKnown(t, c, R) => RedirectKnown(s, c, L)
    <3>1. \A k \in 1 .. Len(R) : R[k].kind # "redirect" BY <1>4, <1>7, <1>11
    <3> QED BY <1>9, <3>1 DEF RedirectKnown
  <2> QED BY <1>3, <1>4, <1>9, <2>1 DEF Redirecting
<1> QED BY <1>3, <1>9, <1>16, <1>17, <1>19, <1>20, <1>21, <1>22, <1>23, <1>24
        DEF Fresh, ServerSide, ClientSide

\* The server sends a redirect, or the next block, or nothing.
LEMMA WriteFresh ==
  ASSUME Always, NEW late \in BOOLEAN, SV_WriteDownloadToClient(late), NoStaleBlocks,
         Fresh(size, server, client, toClient)
  PROVE  Fresh(size, server', client, toClient')
<1> DEFINE s == server
           t == server'
           z == size
           c == client
           L == toClient
           R == toClient'
<1>1. t \in Servers /\ Window' /\ WriteKeeps /\ (RedirectSent \/ BlockSent)
  BY WriteStep DEF Always
<1>2. /\ s.downloadName # None /\ ~s.wwwing /\ size' = size
      /\ t.downloadName = s.downloadName /\ t.redirects = s.redirects
      /\ t.wwwing = s.wwwing /\ t.dropped = s.dropped
      /\ t.lastClientCommand = s.lastClientCommand /\ SameClient(s, t)
  BY <1>1 DEF WriteKeeps, SameClient
<1>3. s.dropped = "no" BY <1>2 DEF Always, Gone
<1>4. /\ s \in Servers /\ c \in Clients /\ L \in Seq(Messages) /\ z \in Sizes
      /\ s.downloadName \in Files /\ s.lastClientCommand \in Nat
      /\ s.lastClientCommand <= Len(c.commands)
  <2>1. s \in Servers BY DEF Always, Types
  <2>2. s.downloadName \in Files /\ s.lastClientCommand \in Nat BY <1>2, <2>1 DEF Servers
  <2> QED BY <2>1, <2>2 DEF Always, Types, Acknowledged, Sizes
<1>5. Fresh(z, s, c, L) OBVIOUS
<1>6. R \in Seq(Messages)
  <2>1. Always' BY SendAlways
  <2> QED BY <2>1 DEF Always, Types
<1>7. CASE RedirectSent
  <2> DEFINE m == RedirectOf(s)
  <2>1. m \in Messages /\ m.kind = "redirect" BY <1>4 DEF RedirectOf, Messages
  <2>2. /\ toClient' = Sent(m) /\ s.redirects /\ ~s.download /\ ~s.fallback
        /\ t = [s EXCEPT !.wwwDl = TRUE]
    BY <1>7 DEF RedirectSent
  <2> HIDE DEF m, s, t
  <2>3. /\ t.wwwDl /\ ~t.download /\ ~t.fallback /\ t.redirects /\ ~t.wwwing
        /\ t.dropped = s.dropped /\ t.lastClientCommand = s.lastClientCommand
        /\ t.downloadName = s.downloadName /\ s.downloadName # None /\ ~s.wwwing
        /\ Pending(t, c) = Pending(s, c)
    BY <1>2, <1>4, <2>2 DEF Servers, Pending
  <2>4. NotSending(s, c, L) /\ Closed(s, c, L) /\ Unanswered(s, c)
    BY <1>3, <1>5 DEF Fresh, ServerSide
  <2>5. Fresh(z, t, c, L)
    <3>1. Sending(z, t, c, L) BY <2>3 DEF Sending
    <3>2. NotSending(t, c, L) BY <2>2, <2>3, <2>4 DEF NotSending
    <3>3. Closed(t, c, L) BY <2>3, <2>4 DEF Closed
    <3>4. Unanswered(t, c) BY <2>3, <2>4 DEF Unanswered
    <3>5. Redirecting(t, c, L) BY <2>3 DEF Redirecting
    <3>6. ClientSide(z, c, L) /\ NoRedirects(t, c, L) BY <1>5, <2>3 DEF Fresh, NoRedirects
    <3> QED BY <1>3, <2>3, <3>1, <3>2, <3>3, <3>4, <3>5, <3>6 DEF Fresh, ServerSide
  <2>6. MayFollow(t, c, L, m)
    <3>1. Quiet(c, L) BY <2>2, <2>4 DEF NotSending
    <3>2. ~Gamestates(c, L) BY <2>3, <2>4 DEF Closed
    <3> QED BY <2>1, <2>3, <3>1, <3>2 DEF MayFollow, Gamestates
  <2>7. Fresh(size, t, client, toClient')
    BY <1>1, <2>1, <2>2, <2>5, <2>6, SendFresh DEF Always, t
  <2> QED BY <2>7 DEF t
<1>8. ASSUME NEW r \in Servers, SameClient(s, r), r.download,
             r.clientBlock = t.clientBlock, r.fallback = t.fallback, r.wwwDl = t.wwwDl,
             r.currentBlock = t.currentBlock, BlockSent,
             r.xmitBlock \in {IF s.download THEN s.xmitBlock ELSE 0, t.clientBlock}
      PROVE  Fresh(z, r, c, L)
  <2> HIDE DEF s, t, z, c, L
  <2>1. CASE s.download
    <3>1. Refilled(s, r) BY <1>8, <2>1 DEF Refilled, BlockSent, s, t
    <3> QED BY <1>4, <1>5, <3>1, RefilledFresh
  <2>2. CASE ~s.download
    <3>1. Reopened(s, r) BY <1>2, <1>8, <2>2 DEF Reopened, BlockSent, s, t
    <3> QED BY <1>4, <1>5, <3>1, ReopenedFresh
  <2> QED BY <2>1, <2>2
<1>9. CASE BlockSent
  <2>1. t.download /\ (s.download => t.clientBlock = s.clientBlock)
    BY <1>9 DEF BlockSent
  <2>2. CASE UNCHANGED toClient /\ t.xmitBlock = IF s.download THEN s.xmitBlock ELSE 0
    <3> HIDE DEF t, s, z, c, L
    <3>1. Fresh(z, t, c, L) BY <1>1, <1>2, <1>8, <1>9, <2>1, <2>2
    <3> QED BY <2>2, <3>1 DEF t, z, c, L
  <2>3. ASSUME NEW n \in Nat, n \in {IF s.download THEN s.xmitBlock ELSE 0, t.clientBlock},
               n # t.currentBlock, t.xmitBlock = n + 1, R = Sent(BlockOf(t, n))
        PROVE  Fresh(z, t, c, R)
    <3> DEFINE r == [t EXCEPT !.xmitBlock = n]
               m == BlockOf(r, r.xmitBlock)
    <3>t. toClient' = Sent(BlockOf(t, n)) BY <2>3
    <3> HIDE DEF t, s, z, c, L, R
    <3>1. /\ r \in Servers /\ r.xmitBlock = n /\ r.download /\ r.downloadName = t.downloadName
          /\ r.clientBlock = t.clientBlock /\ r.currentBlock = t.currentBlock
          /\ r.fallback = t.fallback /\ r.wwwDl = t.wwwDl /\ r.blocks = t.blocks
          /\ r.wwwing = t.wwwing /\ r.redirects = t.redirects
          /\ r.lastClientCommand = t.lastClientCommand /\ r.dropped = t.dropped
      BY <1>1, <2>1 DEF Servers
    <3>2. t = [r EXCEPT !.xmitBlock = r.xmitBlock + 1]
      <4> DEFINE x == n + 1
      <4>1. t.xmitBlock = x BY <2>3
      <4> HIDE DEF x
      <4>2. t = [r EXCEPT !.xmitBlock = x] BY <1>1, <4>1 DEF Servers
      <4> QED BY <3>1, <4>2 DEF x
    <3>3. m = BlockOf(t, n) BY <3>1 DEF BlockOf
    <3> HIDE DEF r
    <3>4. Fresh(z, r, c, L) BY <1>2, <1>8, <1>9, <2>3, <3>1 DEF SameClient
    <3>5. m \in Messages
      <4>1. Short(n) \in -Numbers .. Numbers BY ShortType
      <4>2. n % W \in 0 .. W - 1 BY WindowNumber, SlotType
      <4>3. t.blocks[n % W] \in Blocks BY <1>1, <4>2 DEF Servers
      <4>4. t.lastClientCommand \in Nat BY <1>2, <1>4
      <4> QED BY <3>3, <4>1, <4>3, <4>4 DEF BlockOf, Messages
    <3>6. toClient' = Sent(m) BY <3>t, <3>3
    <3> HIDE DEF m
    <3>7. PICK D \in Seq(Messages), d \in {0, 1} : Without(L, d, D) /\ With(D, m, R)
      BY <3>5, <3>6, SentIs DEF Always, L, R
    <3>8. Alike(c, c) /\ c.acknowledged <= c.acknowledged
      <4>1. c.acknowledged \in Nat BY <1>4 DEF Clients
      <4> QED BY <4>1 DEF Alike
    <3>9. d \in Nat OBVIOUS
    <3>10. Fresh(z, r, c, D) BY <1>4, <3>1, <3>4, <3>7, <3>8, <3>9, LossFresh
    <3>11. WindowAt(z, r) /\ W <= z[r.downloadName] /\ r.downloadName \in Files
      <4>1. size' = size /\ Window' BY <1>1, <1>2
      <4>2. WindowAt(size, server') BY <2>1, <4>1 DEF Window, WindowOf, WindowAt, t
      <4>3. WindowAt(z, r) BY <3>1, <4>2 DEF WindowAt, t, z
      <4>4. W <= z[r.downloadName] /\ r.downloadName \in Files
        <5>1. \A f \in Files : z[f] >= W BY DEF NoStaleBlocks, z
        <5>2. \A f \in Files : z[f] \in Nat BY <1>4 DEF Sizes
        <5> QED BY <1>2, <1>4, <3>1, <5>1, <5>2, WindowNumber
      <4> QED BY <4>3, <4>4
    <3>12. r.xmitBlock < r.currentBlock
      <4>1. Sending(z, r, c, D) BY <1>2, <1>3, <3>1, <3>10 DEF Fresh, ServerSide
      <4>2. r.xmitBlock <= r.currentBlock BY <3>1, <4>1 DEF Sending
      <4>3. r.xmitBlock \in Nat /\ r.currentBlock \in Nat BY <3>1 DEF Servers
      <4> QED BY <2>3, <3>1, <4>2, <4>3
    <3>13. r.dropped = "no" /\ r.lastClientCommand <= Len(c.commands) BY <1>2, <1>3, <1>4, <3>1
    <3> QED BY <1>1, <1>4, <1>6, <3>1, <3>2, <3>5, <3>7, <3>10, <3>11, <3>12, <3>13, BlockFresh DEF m
  <2>4. \/ UNCHANGED toClient /\ t.xmitBlock = IF s.download THEN s.xmitBlock ELSE 0
        \/ \E n \in {IF s.download THEN s.xmitBlock ELSE 0, t.clientBlock} :
             /\ n \in Nat /\ n # t.currentBlock /\ t.xmitBlock = n + 1
             /\ R = Sent(BlockOf(t, n))
    BY <1>9 DEF BlockSent
  <2> QED BY <2>2, <2>3, <2>4
<1> QED BY <1>1, <1>7, <1>9

\* Who downloads nothing is sent a message of its own, who does not answer is
\* dropped.
LEMMA MessagesFresh ==
  ASSUME Always, SV_SendClientMessages, Fresh(size, server, client, toClient)
  PROVE  Fresh(size, server', client, toClient')
<1>1. server \in Servers /\ server.lastClientCommand \in Nat
  <2>1. server \in Servers BY DEF Always, Types
  <2> QED BY <2>1 DEF Servers
<1>2. CASE /\ toClient' = Sent([kind |-> "idle", ack |-> server.lastClientCommand])
           /\ UNCHANGED server
  <2> DEFINE m == [kind |-> "idle", ack |-> server.lastClientCommand]
  <2>1. m \in Messages /\ m.kind = "idle" BY <1>1 DEF Messages
  <2>2. toClient' = Sent(m) /\ server' = server BY <1>2
  <2> HIDE DEF m
  <2>3. MayFollow(server, client, toClient, m) BY <2>1 DEF MayFollow
  <2>4. Fresh(size, server, client, toClient')
    BY <1>1, <2>1, <2>2, <2>3, SendFresh DEF Always
  <2> QED BY <2>2, <2>4
<1>3. CASE server' = Dropped(server, "timed out") /\ UNCHANGED toClient
  <2>1. server'.dropped = "timed out" /\ server'.redirects = server.redirects
    BY <1>1, <1>3 DEF Dropped, Servers
  <2> QED BY <1>3, <2>1 DEF Fresh, NoRedirects
<1> QED BY <1>2, <1>3 DEF SV_SendClientMessages

----------------------------------------------------------------------------
(* The server executes a command.                                          *)

NextCommand(s, c) == c.commands[s.lastClientCommand + 1]

\* What is known of the command that comes next.
LEMMA BeforeCommand ==
  ASSUME NEW z \in Sizes, NEW s \in Servers, NEW t \in Servers, NEW c \in Clients,
         NEW L \in Seq(Messages), Fresh(z, s, c, L), s.dropped = "no",
         s.lastClientCommand < Len(c.commands), s.download => s.downloadName # None,
         t.lastClientCommand = s.lastClientCommand + 1
  PROVE  LET x == NextCommand(s, c)
             e == s.lastClientCommand + 1
         IN  /\ e \in 1 .. Len(c.commands) /\ x \in ClientCommands
             /\ e \in Pending(s, c) /\ Pending(t, c) = e + 1 .. Len(c.commands)
             /\ \A i \in Pending(t, c) : i \in Pending(s, c)
             /\ e < Len(c.commands) => Follows(x, c.commands[e + 1])
             /\ x.name # "stopdl" => ~Gamestates(c, L)
             /\ s.fallback => /\ x.name = "download" /\ e = Len(c.commands)
                              /\ ~c.wwwDl /\ c.web = None
                              /\ \A k \in 1 .. Len(L) : L[k].kind = "idle"
                              /\ c.loads \/ Last(c).name = "download"
             /\ s.wwwing <=> x \in {WwwDl("done"), WwwDl("fail")}
             /\ x.name \in {"download", "donedl", "stopdl"} => s.downloadName = None
             /\ s.download <=> x.name = "nextdl"
             /\ x.name = "wwwdl" => s.wwwDl
<1> DEFINE x == NextCommand(s, c)
           p == s.lastClientCommand
           e == p + 1
           C == Len(c.commands)
<1>1. p \in Nat /\ C \in Nat /\ p < C BY CommandTypes DEF Servers
<1>2. /\ e \in 1 .. C /\ e \in Nat /\ e \in Pending(s, c) /\ Pending(t, c) = e + 1 .. C
      /\ \A i \in Pending(t, c) : i \in Pending(s, c)
  BY <1>1 DEF Pending
<1>3. x \in ClientCommands BY <1>2, CommandTypes DEF NextCommand
<1>4. /\ Sending(z, s, c, L) /\ NotSending(s, c, L) /\ Closed(s, c, L) /\ Unanswered(s, c)
      /\ Redirecting(s, c, L) /\ Shape(c)
  BY DEF Fresh, ServerSide, ClientSide
<1>5. x = c.commands[e] BY DEF NextCommand
<1>6. x.name \in {"download", "nextdl", "stopdl", "donedl", "wwwdl"} BY <1>3 DEF ClientCommands
<1> HIDE DEF x, p, e, C
<1>7. e < C => Follows(x, c.commands[e + 1])
  <2> SUFFICES ASSUME e < C PROVE Follows(x, c.commands[e + 1]) OBVIOUS
  <2>1. e \in 1 .. C - 1 BY <1>1, <1>2
  <2> QED BY <1>4, <1>5, <2>1 DEF Shape, C
<1>8. x.name # "stopdl" => ~Gamestates(c, L) BY <1>2, <1>4, <1>5 DEF Closed
<1>9. s.fallback => /\ x.name = "download" /\ e = C
                    /\ ~c.wwwDl /\ c.web = None
                    /\ \A k \in 1 .. Len(L) : L[k].kind = "idle"
                    /\ c.loads \/ Last(c).name = "download"
  <2> SUFFICES ASSUME s.fallback
               PROVE  /\ x.name = "download" /\ e = C
                      /\ ~c.wwwDl /\ c.web = None
                      /\ \A k \in 1 .. Len(L) : L[k].kind = "idle"
                      /\ c.loads \/ Last(c).name = "download"
    OBVIOUS
  <2>1. FallenBack(s, c, L) BY <1>4 DEF Redirecting
  <2>2. p # C BY <1>1
  <2>3. /\ ~c.wwwDl /\ c.web = None /\ \A k \in 1 .. Len(L) : L[k].kind = "idle"
        /\ C <= e /\ \A i \in Pending(s, c) : c.commands[i].name = "download"
        /\ c.loads \/ Last(c).name = "download"
    BY <2>1, <2>2 DEF FallenBack, p, C, e
  <2>4. e = C BY <1>1, <1>2, <2>3
  <2> QED BY <1>2, <1>5, <2>3, <2>4
<1>10. x.name \in {"download", "donedl", "stopdl"} => s.downloadName = None
  BY <1>1, <1>4, <1>5 DEF Closed, p, C, e
<1>11. s.download <=> x.name = "nextdl"
  <2>1. ~s.download => x.name # "nextdl" BY <1>2, <1>4, <1>5 DEF NotSending
  <2>2. ASSUME s.download PROVE x.name = "nextdl"
    <3>1. PICK K \in 0 .. C - p : Unexecuted(s, c, K)
      BY <1>4, <2>2 DEF Sending, C, p
    <3>2. CASE K = 0
      <4>1. e \in p + K + 1 .. C BY <1>1, <1>2, <3>2 DEF e
      <4>2. x.name \in {"download", "donedl", "stopdl"} BY <1>5, <3>1, <4>1 DEF Unexecuted, p, C
      <4> QED BY <1>10, <2>2, <4>2
    <3>3. CASE K # 0
      <4>1. 1 \in 1 .. K BY <1>1, <3>1, <3>3
      <4>2. c.commands[p + 1] = Command("nextdl", s.clientBlock + 1 - 1)
        BY <3>1, <4>1 DEF Unexecuted, p
      <4> QED BY <1>5, <4>2 DEF Command, e
    <3> QED BY <3>2, <3>3
  <2> QED BY <2>1, <2>2
<1>12. x.name = "wwwdl" => s.wwwDl
  <2> SUFFICES ASSUME x.name = "wwwdl" PROVE s.wwwDl OBVIOUS
  <2>1. RedirectKnown(s, c, L) BY <1>2, <1>5 DEF RedirectKnown
  <2> QED BY <1>4, <2>1 DEF Redirecting
<1>13. s.wwwing <=> x \in {WwwDl("done"), WwwDl("fail")}
  <2>0. /\ WwwDl("done").name = "wwwdl" /\ WwwDl("fail").name = "wwwdl"
        /\ WwwDl("ack") # WwwDl("done") /\ WwwDl("ack") # WwwDl("fail")
        /\ WwwDl("fail") # WwwDl("done") /\ \A a : Command("nextdl", a).name = "nextdl"
    BY DEF WwwDl, Command
  <2>1. CASE p = 0
    <3>1. ~s.wwwing BY <1>4, <2>1 DEF Closed, p
    <3>2. x.name = "download" BY <1>4, <1>5, <2>1 DEF Shape, e
    <3> QED BY <2>0, <3>1, <3>2
  <2>2. CASE p # 0
    <3> DEFINE d == c.commands[p]
    <3>1. p >= 1 /\ p \in 1 .. C - 1 /\ p \in 1 .. C BY <1>1, <2>2
    <3>2. Follows(d, x) BY <1>4, <1>5, <3>1 DEF Shape, C, e
    <3>3. d \in ClientCommands BY <3>1, CommandTypes DEF C
    <3>4. s.wwwing <=> d = WwwDl("ack") BY <1>4, <3>1 DEF Closed, p
    <3> HIDE DEF d
    <3>5. \/ d.name = "download" \/ d.name = "nextdl" \/ d.name \in {"donedl", "stopdl"}
          \/ d = WwwDl("ack") \/ d = WwwDl("done") \/ d = WwwDl("fail")
      BY <3>3 DEF ClientCommands, WwwDl, Command
    <3>6. WwwDl("ack").name = "wwwdl" BY DEF WwwDl, Command
    <3>7. CASE d = WwwDl("ack") BY <3>2, <3>4, <3>7 DEF Follows
    <3>8. CASE d # WwwDl("ack")
      <4>1. d.name = "download" => x # WwwDl("done") /\ x # WwwDl("fail")
        BY <2>0, <3>2 DEF Follows
      <4>2. d.name = "nextdl" => x # WwwDl("done") /\ x # WwwDl("fail")
        BY <2>0, <3>2 DEF Follows
      <4>3. d.name \in {"donedl", "stopdl"} => x # WwwDl("done") /\ x # WwwDl("fail")
        BY <2>0, <3>2 DEF Follows
      <4>4. d = WwwDl("done") \/ d = WwwDl("fail") => x # WwwDl("done") /\ x # WwwDl("fail")
        BY <2>0, <3>2 DEF Follows
      <4> QED BY <3>4, <3>5, <3>8, <4>1, <4>2, <4>3, <4>4
    <3> QED BY <3>7, <3>8
  <2> QED BY <2>1, <2>2
<1> QED BY <1>2, <1>3, <1>7, <1>8, <1>9, <1>10, <1>11, <1>12, <1>13 DEF x, p, e, C

\* Every command but the acknowledgement of a block that is not the last.
Executed(s, c, t) ==
  LET x == NextCommand(s, c)
  IN  /\ t.lastClientCommand = s.lastClientCommand + 1
      /\ ~t.download /\ t.dropped = "no" /\ t.redirects = s.redirects /\ t.wwwDl = s.wwwDl
      /\ t.fallback <=> s.fallback \/ x = WwwDl("fail")
      /\ t.wwwing <=> x = WwwDl("ack")
      /\ t.downloadName = IF x.name = "download" THEN x.arg
                          ELSE IF x = WwwDl("ack") THEN s.downloadName ELSE None

\* A command is executed when no block will be taken.
LEMMA ExecutedFresh ==
  ASSUME NEW z \in Sizes, NEW s \in Servers, NEW t \in Servers, NEW c \in Clients,
         NEW L \in Seq(Messages), Fresh(z, s, c, L), s.dropped = "no",
         s.lastClientCommand < Len(c.commands), s.download => s.downloadName # None,
         Executed(s, c, t), Quiet(c, L),
         \A i \in Pending(t, c) : c.commands[i].name # "nextdl"
  PROVE  Fresh(z, t, c, L)
<1> DEFINE x == NextCommand(s, c)
           e == s.lastClientCommand + 1
           C == Len(c.commands)
<1>1. t.lastClientCommand = e BY DEF Executed
<1>2. /\ e \in 1 .. C /\ x \in ClientCommands
      /\ e \in Pending(s, c) /\ Pending(t, c) = e + 1 .. C
      /\ \A i \in Pending(t, c) : i \in Pending(s, c)
      /\ e < C => Follows(x, c.commands[e + 1])
      /\ x.name # "stopdl" => ~Gamestates(c, L)
      /\ s.fallback => /\ x.name = "download" /\ e = C
                       /\ ~c.wwwDl /\ c.web = None
                       /\ \A k \in 1 .. Len(L) : L[k].kind = "idle"
                       /\ c.loads \/ Last(c).name = "download"
      /\ s.wwwing <=> x \in {WwwDl("done"), WwwDl("fail")}
      /\ x.name \in {"download", "donedl", "stopdl"} => s.downloadName = None
      /\ s.download <=> x.name = "nextdl"
      /\ x.name = "wwwdl" => s.wwwDl
  BY <1>1, BeforeCommand
<1>3. /\ ~t.download /\ t.dropped = "no" /\ t.redirects = s.redirects /\ t.wwwDl = s.wwwDl
      /\ t.fallback <=> s.fallback \/ x = WwwDl("fail")
      /\ t.wwwing <=> x = WwwDl("ack")
      /\ t.downloadName = IF x.name = "download" THEN x.arg
                          ELSE IF x = WwwDl("ack") THEN s.downloadName ELSE None
  BY DEF Executed
<1>4. /\ Closed(s, c, L) /\ Unanswered(s, c) /\ Redirecting(s, c, L)
      /\ Shape(c) /\ AsAsked(c) /\ NoRedirects(s, c, L) /\ ClientSide(z, c, L)
  BY DEF Fresh, ServerSide, ClientSide
<1>5. x = c.commands[e] /\ C \in Nat BY CommandTypes DEF NextCommand
<1>6. e \in Nat /\ e >= 1 /\ e <= C /\ e # 0 BY <1>2, <1>5
<1>7. /\ \A sub : WwwDl(sub).name = "wwwdl"
      /\ WwwDl("ack") # WwwDl("fail") /\ WwwDl("ack") # WwwDl("done")
      /\ WwwDl("fail") # WwwDl("done")
      /\ x.name = "download" => x = Command("download", x.arg)
  BY <1>2 DEF WwwDl, Command, ClientCommands
<1> HIDE DEF x, e, C
<1>8. Sending(z, t, c, L) BY <1>3 DEF Sending
<1>9. NotSending(t, c, L)
  <2>1. ASSUME t.downloadName # None, ~t.wwwing PROVE c.commands[e] = Command("download", t.downloadName)
    BY <1>3, <1>5, <1>7, <2>1
  <2> QED BY <1>1, <1>3, <1>6, <2>1 DEF NotSending
<1>10. Closed(t, c, L)
  <2>1. Waits(x) \/ x = WwwDl("done") => t.downloadName = None
    BY <1>3, <1>7 DEF Waits
  <2>2. e < C /\ c.commands[e + 1].name \in {"download", "donedl", "stopdl"} => t.downloadName = None
    <3> SUFFICES ASSUME e < C, c.commands[e + 1].name \in {"download", "donedl", "stopdl"},
                        x.name = "download" \/ x = WwwDl("ack")
                 PROVE  FALSE
      BY <1>3
    <3>1. Follows(x, c.commands[e + 1]) BY <1>2
    <3>2. c.commands[e + 1] \in {Command("nextdl", 0), WwwDl("ack"), WwwDl("done"), WwwDl("fail")}
      BY <3>1 DEF Follows
    <3> QED BY <3>2 DEF Command, WwwDl
  <2>3. Gamestates(c, L) => /\ t.downloadName = None
                            /\ \A i \in Pending(t, c) : c.commands[i].name = "stopdl"
    <3> SUFFICES ASSUME Gamestates(c, L)
                 PROVE  /\ t.downloadName = None
                        /\ \A i \in Pending(t, c) : c.commands[i].name = "stopdl"
      OBVIOUS
    <3>1. x.name = "stopdl" /\ \A i \in Pending(s, c) : c.commands[i].name = "stopdl"
      BY <1>2, <1>4 DEF Closed
    <3> QED BY <1>2, <1>3, <1>7, <3>1
  <2> QED BY <1>1, <1>3, <1>5, <1>6, <2>1, <2>2, <2>3 DEF Closed, C
<1>11. Unanswered(t, c) BY <1>2, <1>4 DEF Unanswered
<1>12. Redirecting(t, c, L)
  <2>1. RedirectKnown(t, c, L) => t.wwwDl
    <3> SUFFICES ASSUME RedirectKnown(t, c, L) PROVE t.wwwDl OBVIOUS
    <3>1. RedirectKnown(s, c, L) BY <1>2, <1>3 DEF RedirectKnown
    <3> QED BY <1>3, <1>4, <3>1 DEF Redirecting
  <2>2. ASSUME t.fallback PROVE FallenBack(t, c, L)
    <3>1. CASE s.fallback
      <4>1. Len(c.commands) = t.lastClientCommand /\ Pending(t, c) = {}
        BY <1>1, <1>2, <1>6, <3>1 DEF C
      <4>2. Len(c.commands) <= t.lastClientCommand + 1 BY <1>1, <1>6, <4>1
      <4> QED BY <1>2, <3>1, <4>1, <4>2 DEF FallenBack
    <3>2. CASE x = WwwDl("fail")
      <4>1. e = C BY <1>2, <1>4, <1>5, <3>2 DEF Unanswered, C
      <4>2. Last(c) = WwwDl("fail") BY <1>5, <3>2, <4>1 DEF Last, C
      <4>3. ~c.loads BY <1>2, <1>7, <3>2 DEF Gamestates
      <4>4. c.aborting BY <1>4, <4>2, <4>3 DEF AsAsked, LeftBy
      <4> QED BY <1>1, <4>1, <4>2, <4>4 DEF FallenBack, C
    <3> QED BY <1>3, <2>2, <3>1, <3>2
  <2> QED BY <2>1, <2>2 DEF Redirecting
<1>13. NoRedirects(t, c, L) BY <1>3, <1>4 DEF NoRedirects
<1> QED BY <1>3, <1>4, <1>8, <1>9, <1>10, <1>11, <1>12, <1>13 DEF Fresh, ServerSide

\* The acknowledgement of a block behind which there are more.
Confirmed(s, c, t) ==
  /\ t.lastClientCommand = s.lastClientCommand + 1 /\ t.clientBlock = s.clientBlock + 1
  /\ t.download /\ t.dropped = "no" /\ t.redirects = s.redirects /\ t.wwwDl = s.wwwDl
  /\ t.fallback = s.fallback /\ t.wwwing = s.wwwing /\ t.downloadName = s.downloadName
  /\ t.xmitBlock = s.xmitBlock /\ t.currentBlock = s.currentBlock

\* What an acknowledgement is of: the first block that is not acknowledged, and
\* if it is the end of the file, the client has all of it.
LEMMA Confirms ==
  ASSUME NEW z \in Sizes, NEW s \in Servers, NEW c \in Clients,
         NEW L \in Seq(Messages), Fresh(z, s, c, L), s.dropped = "no",
         s.lastClientCommand < Len(c.commands), s.downloadName # None, s.download,
         NextCommand(s, c).name = "nextdl"
  PROVE  /\ NextCommand(s, c) = Command("nextdl", s.clientBlock)
         /\ s.clientBlock \in Nat /\ s.clientBlock < s.currentBlock
         /\ 2 * s.clientBlock < Numbers
         /\ \E K \in Nat : /\ K >= 1 /\ K <= Len(c.commands) - s.lastClientCommand
                           /\ Unexecuted(s, c, K)
                           /\ s.clientBlock + K <= s.currentBlock
                           /\ Receiving(z, s, c, L, K) \/ Received(z, s, c, L, K)
                           /\ s.clientBlock = z[s.downloadName] =>
                                K = 1 /\ Received(z, s, c, L, K)
<1> DEFINE p == s.lastClientCommand
           C == Len(c.commands)
           x == NextCommand(s, c)
<1>1. /\ p \in Nat /\ C \in Nat /\ p < C /\ s.clientBlock \in Nat /\ s.currentBlock \in Nat
      /\ s.downloadName \in Files
  BY CommandTypes DEF Servers
<1>2. /\ Sending(z, s, c, L) /\ Written(z, c) /\ InWindow(c)
  BY DEF Fresh, ServerSide, ClientSide
<1>3. PICK K \in 0 .. C - p : /\ Unexecuted(s, c, K)
                              /\ s.clientBlock + K <= s.currentBlock
                              /\ Receiving(z, s, c, L, K) \/ Received(z, s, c, L, K)
  BY <1>2 DEF Sending
<1>4. x = c.commands[p + 1] BY DEF NextCommand
<1>z. z[s.downloadName] \in Nat BY <1>1, DownloadAssumption DEF Sizes
<1> HIDE DEF p, C, x
<1>5. K >= 1
  <2> SUFFICES ASSUME K = 0 PROVE FALSE BY <1>1, <1>3
  <2>1. p + 1 \in p + K + 1 .. C BY <1>1
  <2>2. x.name \in {"download", "donedl", "stopdl"} BY <1>3, <1>4, <2>1 DEF Unexecuted, p, C
  <2> QED BY <2>2 DEF x
<1>6. x = Command("nextdl", s.clientBlock)
  <2>1. 1 \in 1 .. K BY <1>1, <1>3, <1>5
  <2>2. c.commands[p + 1] = Command("nextdl", s.clientBlock + 1 - 1)
    BY <1>3, <2>1 DEF Unexecuted, p
  <2>3. s.clientBlock + 1 - 1 = s.clientBlock BY <1>1
  <2> QED BY <1>4, <2>2, <2>3
<1>7. 2 * s.clientBlock < Numbers
  <2>1. p + 1 \in 1 .. C BY <1>1
  <2>2. x.name = "nextdl" /\ x.arg = s.clientBlock BY <1>6 DEF Command
  <2> QED BY <1>2, <1>4, <2>1, <2>2 DEF InWindow, C
<1>8. K \in Nat /\ s.clientBlock < s.currentBlock BY <1>1, <1>3, <1>5
<1>9. ASSUME s.clientBlock = z[s.downloadName] PROVE K = 1 /\ Received(z, s, c, L, K)
  <2>1. Received(z, s, c, L, K)
    <3> SUFFICES ASSUME Receiving(z, s, c, L, K) PROVE FALSE BY <1>3
    <3>1. c.downloadName = s.downloadName /\ c.block = s.clientBlock + K BY DEF Receiving
    <3>2. c.block <= z[s.downloadName] BY <1>2, <3>1 DEF Written
    <3> QED BY <1>1, <1>5, <1>8, <1>9, <1>z, <3>1, <3>2
  <2>2. s.clientBlock + K = z[s.downloadName] + 1 BY <2>1 DEF Received
  <2> QED BY <1>1, <1>8, <1>9, <1>z, <2>1, <2>2
<1>10. K <= C - p BY <1>1, <1>3
<1> QED BY <1>1, <1>3, <1>5, <1>6, <1>7, <1>8, <1>9, <1>10 DEF x, C, p

\* A block is acknowledged that is not the end of its file.
LEMMA ConfirmedFresh ==
  ASSUME NEW z \in Sizes, NEW s \in Servers, NEW t \in Servers, NEW c \in Clients,
         NEW L \in Seq(Messages), Fresh(z, s, c, L), s.dropped = "no",
         s.lastClientCommand < Len(c.commands), s.downloadName # None, s.download,
         NextCommand(s, c).name = "nextdl", s.clientBlock # z[s.downloadName],
         Confirmed(s, c, t)
  PROVE  Fresh(z, t, c, L)
<1> DEFINE p == s.lastClientCommand
           e == p + 1
           C == Len(c.commands)
           cb == s.clientBlock
           x == NextCommand(s, c)
<1>1. /\ t.lastClientCommand = e /\ t.clientBlock = cb + 1
      /\ t.download /\ t.dropped = "no" /\ t.redirects = s.redirects /\ t.wwwDl = s.wwwDl
      /\ t.fallback = s.fallback /\ t.wwwing = s.wwwing /\ t.downloadName = s.downloadName
      /\ t.xmitBlock = s.xmitBlock /\ t.currentBlock = s.currentBlock
  BY DEF Confirmed
<1>2. /\ e \in 1 .. C /\ Pending(t, c) = e + 1 .. C
      /\ \A i \in Pending(t, c) : i \in Pending(s, c)
  BY <1>1, BeforeCommand
<1>3. cb \in Nat /\ 2 * cb < Numbers /\ x = Command("nextdl", cb)
  BY Confirms
<1>4. PICK K \in Nat : /\ K >= 1 /\ K <= Len(c.commands) - s.lastClientCommand
                       /\ Unexecuted(s, c, K)
                       /\ s.clientBlock + K <= s.currentBlock
                       /\ Receiving(z, s, c, L, K) \/ Received(z, s, c, L, K)
  BY Confirms
<1>5. /\ Sending(z, s, c, L) /\ Closed(s, c, L) /\ Unanswered(s, c) /\ Redirecting(s, c, L)
      /\ ClientSide(z, c, L) /\ NoRedirects(s, c, L)
  BY DEF Fresh, ServerSide
<1>6. /\ ~s.fallback /\ ~s.wwwing /\ ~c.wwwDl
      /\ s.xmitBlock <= s.currentBlock
      /\ \A k \in 1 .. Len(L) : L[k].kind # "redirect"
  BY <1>5 DEF Sending
<1>7. ~Gamestates(c, L) BY <1>5 DEF Closed
<1>8. p \in Nat /\ C \in Nat /\ s.currentBlock \in Nat /\ z[s.downloadName] \in Nat
      /\ Numbers \in Nat
  <2>1. s.downloadName \in Files BY DEF Servers
  <2>2. z[s.downloadName] \in Nat BY <2>1, DownloadAssumption DEF Sizes
  <2> QED BY <2>2, CommandTypes, DownloadAssumption DEF Servers
<1>9. x = c.commands[e] BY DEF NextCommand
<1> HIDE DEF x, e, C, cb, p
<1>10. e = p + 1 BY DEF e, p
<1> DEFINE k == K - 1
<1>11. /\ k \in Nat /\ K = k + 1 /\ e + k = p + K /\ (cb + 1) + k = cb + K /\ p + K <= C
       /\ k \in 0 .. C - e
  <2>1. K \in Nat /\ K >= 1 /\ K <= C - p BY <1>4 DEF C, p
  <2>2. k \in Nat /\ K = k + 1 BY <2>1
  <2> HIDE DEF k
  <2>3. e + k = p + K /\ (cb + 1) + k = cb + K /\ p + K <= C BY <1>3, <1>8, <1>10, <2>1, <2>2
  <2> QED BY <1>8, <1>10, <2>2, <2>3
<1> HIDE DEF k
<1>12. Unexecuted(t, c, k)
  <2>1. ASSUME NEW i \in 1 .. k PROVE c.commands[e + i] = Command("nextdl", cb + 1 + i - 1)
    <3>1. /\ i + 1 \in 1 .. K /\ p + (i + 1) = e + i /\ cb + (i + 1) - 1 = cb + 1 + i - 1
      BY <1>3, <1>8, <1>10, <1>11
    <3>2. c.commands[p + (i + 1)] = Command("nextdl", cb + (i + 1) - 1)
      BY <1>4, <3>1 DEF Unexecuted, p, cb
    <3> QED BY <3>1, <3>2
  <2>2. e + k + 1 .. C = p + K + 1 .. C BY <1>11
  <2> QED BY <1>1, <1>4, <2>1, <2>2 DEF Unexecuted, p, C, cb
<1>13. Begins(s) => Begins(t) BY <1>1, <1>3 DEF Begins, cb
<1>14. Receiving(z, s, c, L, K) => Receiving(z, t, c, L, k)
  BY <1>1, <1>11, <1>13 DEF Receiving, p, cb, C
<1>15. Received(z, s, c, L, K) => Received(z, t, c, L, k)
  <2> SUFFICES ASSUME Received(z, s, c, L, K) PROVE Received(z, t, c, L, k) OBVIOUS
  <2>1. /\ p + K < C /\ cb + K = z[s.downloadName] + 1 /\ Begins(s) /\ Quiet(c, L)
    BY DEF Received, p, C, cb
  <2>2. k >= 1
    <3>1. cb # z[s.downloadName] BY DEF cb
    <3> QED BY <1>3, <1>8, <1>11, <2>1, <3>1
  <2> QED BY <1>1, <1>11, <1>13, <2>1, <2>2 DEF Received, C
<1>16. Sending(z, t, c, L)
  <2>1. t.clientBlock + k <= t.currentBlock BY <1>1, <1>4, <1>11 DEF cb
  <2>2. 2 * t.clientBlock < Numbers + 2 BY <1>1, <1>3, <1>8
  <2>3. k \in 0 .. Len(c.commands) - t.lastClientCommand BY <1>1, <1>11 DEF C
  <2> QED BY <1>1, <1>4, <1>6, <1>12, <1>14, <1>15, <2>1, <2>2, <2>3 DEF Sending
<1>17. NotSending(t, c, L) BY <1>1 DEF NotSending
<1>18. Closed(t, c, L)
  <2>1. x.name = "nextdl" BY <1>3 DEF Command
  <2>2. ~Waits(x) /\ x # WwwDl("done") /\ x # WwwDl("ack") BY <2>1 DEF Waits, WwwDl, Command
  <2>3. e < C => c.commands[e + 1].name = "nextdl"
    <3> SUFFICES ASSUME e < C PROVE c.commands[e + 1].name = "nextdl" OBVIOUS
    <3>1. k >= 1
      <4>1. CASE Receiving(z, s, c, L, K)
        <5>1. p + K = C BY <4>1 DEF Receiving, p, C
        <5> QED BY <1>8, <1>10, <1>11, <5>1
      <4>2. CASE Received(z, s, c, L, K)
        <5>1. Received(z, t, c, L, k) BY <1>15, <4>2
        <5> QED BY <5>1 DEF Received
      <4> QED BY <1>4, <4>1, <4>2
    <3>2. 1 \in 1 .. k BY <1>11, <3>1
    <3>3. c.commands[e + 1] = Command("nextdl", t.clientBlock + 1 - 1)
      BY <1>1, <1>12, <3>2 DEF Unexecuted
    <3> QED BY <3>3 DEF Command
  <2>4. e >= 1 /\ e # 0 BY <1>8, <1>10
  <2> QED BY <1>1, <1>6, <1>7, <1>9, <2>2, <2>3, <2>4 DEF Closed, C
<1>19. Unanswered(t, c) BY <1>2, <1>5 DEF Unanswered
<1>20. Redirecting(t, c, L)
  <2>1. RedirectKnown(t, c, L) => RedirectKnown(s, c, L) BY <1>1, <1>2 DEF RedirectKnown
  <2> QED BY <1>1, <1>5, <1>6, <2>1 DEF Redirecting
<1>21. NoRedirects(t, c, L) BY <1>1, <1>5 DEF NoRedirects
<1> QED BY <1>1, <1>5, <1>16, <1>17, <1>18, <1>19, <1>20, <1>21 DEF Fresh, ServerSide

\* The server executes the client's next command.
LEMMA CommandFresh ==
  ASSUME Always, SV_ClientCommand, Fresh(size, server, client, toClient)
  PROVE  Fresh(size, server', client, toClient')
<1> DEFINE s == server
           t == server'
           z == size
           c == client
           L == toClient
           R == toClient'
           x == NextCommand(s, c)
           e == s.lastClientCommand + 1
           n == NextOf(s)
           g == [kind |-> "gamestate", ack |-> s.lastClientCommand]
<1>1. /\ s.dropped = "no" /\ s.lastClientCommand < Len(c.commands)
      /\ UNCHANGED <<size, client>>
      /\ n \in Servers /\ CommandStep(x)
      /\ R = IF x.name = "donedl" \/ (x = WwwDl("fail") /\ t.dropped = "no")
             THEN Sent(g) ELSE L
  BY CommandEffect DEF Always, NextCommand
<1>2. t \in Servers /\ t.lastClientCommand = e /\ t.redirects = s.redirects
  BY CommandKeeps DEF Always
<1>3. /\ s \in Servers /\ c \in Clients /\ L \in Seq(Messages) /\ z \in Sizes
      /\ Fresh(z, s, c, L)
      /\ s.download => s.downloadName # None
  <2>1. s.download => s.downloadName # None BY DEF Always, Window
  <2> QED BY <2>1 DEF Always, Types, Sizes
<1>4. /\ e \in 1 .. Len(c.commands) /\ x \in ClientCommands
      /\ e \in Pending(s, c) /\ Pending(t, c) = e + 1 .. Len(c.commands)
      /\ \A i \in Pending(t, c) : i \in Pending(s, c)
      /\ x.name # "stopdl" => ~Gamestates(c, L)
      /\ s.fallback => x.name = "download"
      /\ s.wwwing <=> x \in {WwwDl("done"), WwwDl("fail")}
      /\ s.download <=> x.name = "nextdl"
      /\ x.name = "wwwdl" => s.wwwDl
  <2> HIDE DEF s, t, z, c, L, n
  <2> QED BY <1>1, <1>2, <1>3, BeforeCommand
<1>w. s.download => \A i \in s.clientBlock .. s.currentBlock - 1 :
        s.blocks[i % W] = Block(s.downloadName, i)
  BY DEF Always, Window, WindowOf
<1>5. /\ n.lastClientCommand = e /\ n.redirects = s.redirects
      /\ n.dropped = "no" /\ n.download = s.download
      /\ n.downloadName = s.downloadName /\ n.clientBlock = s.clientBlock
      /\ n.currentBlock = s.currentBlock /\ n.xmitBlock = s.xmitBlock
      /\ n.fallback = s.fallback /\ n.wwwing = s.wwwing /\ n.wwwDl = s.wwwDl
  BY <1>1, <1>3 DEF NextOf, Servers
<1>6. /\ \A sub : WwwDl(sub).name = "wwwdl" /\ WwwDl(sub).arg = sub
      /\ x.name = "wwwdl" => x \in {WwwDl("ack"), WwwDl("done"), WwwDl("fail")}
      /\ x.name \in {"download", "nextdl", "stopdl", "donedl", "wwwdl"}
  BY <1>4 DEF WwwDl, Command, ClientCommands
<1>7. x.name = "nextdl" =>
       IF x.arg # s.clientBlock
       THEN t = [n EXCEPT !.dropped = "broken download", !.downloadName = None, !.download = FALSE]
       ELSE IF Empty(s.blocks[x.arg % W])
       THEN t = [n EXCEPT !.downloadName = None, !.download = FALSE]
       ELSE t = [n EXCEPT !.clientBlock = s.clientBlock + 1]
  BY <1>1 DEF CommandStep
<1>8. /\ x.name = "download" => t = [n EXCEPT !.downloadName = x.arg, !.download = FALSE]
      /\ x.name = "stopdl" => t = [n EXCEPT !.downloadName = None, !.download = FALSE]
      /\ x.name = "donedl" => t = n
      /\ x.name = "wwwdl" =>
           IF ~s.wwwDl \/ (x.arg # "ack" /\ ~s.wwwing)
           THEN t = [n EXCEPT !.dropped = "unexpected wwwdl",
                              !.downloadName = None, !.download = FALSE]
           ELSE IF x.arg = "ack" THEN t = [n EXCEPT !.wwwing = TRUE]
           ELSE t = [n EXCEPT !.downloadName = None, !.download = FALSE,
                              !.wwwing = FALSE, !.fallback = n.fallback \/ x.arg = "fail"]
  BY <1>1, <1>3 DEF CommandStep, NextOf, Servers
<1>e. \A b : Empty(b) <=> b = NoBlock \/ (b.file # None /\ b.n = z[b.file]) BY DEF Empty
<1>m. /\ R = Sent(g) => toClient' = Sent(g)
      /\ Always /\ size = z /\ client = c /\ toClient = L /\ server = s /\ toClient' = R /\ server' = t
  OBVIOUS
<1> HIDE DEF s, t, z, c, L, R, x, n
<1>9. CASE x.name = "nextdl"
  <2>1. s.download /\ s.downloadName # None BY <1>3, <1>4, <1>9
  <2>2. /\ x = Command("nextdl", s.clientBlock)
        /\ s.clientBlock \in Nat /\ s.clientBlock < s.currentBlock
        /\ \E K \in Nat : /\ Unexecuted(s, c, K)
                          /\ s.clientBlock = z[s.downloadName] =>
                               K = 1 /\ Received(z, s, c, L, K)
    BY <1>1, <1>3, <1>9, <2>1, Confirms DEF x
  <2>3. x.arg = s.clientBlock BY <2>2 DEF Command
  <2>4. s.blocks[s.clientBlock % W] = Block(s.downloadName, s.clientBlock)
    <3>1. s.currentBlock \in Nat BY <1>3 DEF Servers
    <3>2. s.clientBlock \in s.clientBlock .. s.currentBlock - 1 BY <2>2, <3>1
    <3> QED BY <1>w, <2>1, <3>2
  <2>5. Empty(s.blocks[x.arg % W]) <=> s.clientBlock = z[s.downloadName]
    <3>1. Empty(Block(s.downloadName, s.clientBlock)) <=> s.clientBlock = z[s.downloadName]
      BY <1>e, <2>1 DEF Block, NoBlock
    <3> QED BY <2>3, <2>4, <3>1
  <2>6. R = L
    <3>1. x.name # "donedl" /\ x # WwwDl("fail") BY <1>6, <1>9
    <3> QED BY <1>1, <3>1
  <2>7. CASE s.clientBlock = z[s.downloadName]
    <3>1. t = [n EXCEPT !.downloadName = None, !.download = FALSE]
      BY <1>7, <1>9, <2>3, <2>5, <2>7
    <3>2. ~s.wwwing /\ ~s.fallback /\ x # WwwDl("fail") /\ x # WwwDl("ack") BY <1>4, <1>6, <1>9
    <3>3. Executed(s, c, t)
      <4>1. /\ t.lastClientCommand = e /\ ~t.download /\ t.downloadName = None
            /\ t.dropped = "no" /\ t.redirects = s.redirects
            /\ t.wwwDl = s.wwwDl /\ t.fallback = s.fallback /\ t.wwwing = s.wwwing
        BY <1>1, <1>5, <3>1 DEF Servers
      <4> QED BY <1>9, <3>2, <4>1 DEF Executed, x
    <3>4. Unexecuted(s, c, 1) /\ Received(z, s, c, L, 1) BY <2>2, <2>7
    <3>5. Quiet(c, L) BY <3>4 DEF Received
    <3>6. \A i \in Pending(t, c) : c.commands[i].name # "nextdl"
      <4>1. \A i \in s.lastClientCommand + 1 + 1 .. Len(c.commands) :
              c.commands[i].name \in {"download", "donedl", "stopdl"}
        BY <3>4 DEF Unexecuted
      <4> QED BY <1>4, <4>1
    <3>7. Fresh(z, t, c, L) BY <1>1, <1>2, <1>3, <3>3, <3>5, <3>6, ExecutedFresh
    <3> QED BY <2>6, <3>7 DEF z, t, c, R
  <2>8. CASE s.clientBlock # z[s.downloadName]
    <3>1. t = [n EXCEPT !.clientBlock = s.clientBlock + 1]
      BY <1>7, <1>9, <2>3, <2>5, <2>8
    <3>2. /\ t.lastClientCommand = e /\ t.download /\ t.downloadName = s.downloadName
          /\ t.dropped = "no" /\ t.redirects = s.redirects
          /\ t.wwwDl = s.wwwDl /\ t.fallback = s.fallback /\ t.wwwing = s.wwwing
          /\ t.xmitBlock = s.xmitBlock /\ t.currentBlock = s.currentBlock
          /\ t.clientBlock = s.clientBlock + 1
      BY <1>1, <1>5, <2>1, <3>1 DEF Servers
    <3>3. Confirmed(s, c, t) BY <3>2 DEF Confirmed
    <3>4. Fresh(z, t, c, L) BY <1>1, <1>2, <1>3, <1>9, <2>1, <2>8, <3>3, ConfirmedFresh DEF x
    <3> QED BY <2>6, <3>4 DEF z, t, c, R
  <2> QED BY <2>7, <2>8
<1>10. CASE x.name # "nextdl"
  <2>1. ~s.download BY <1>4, <1>10
  <2>2. NotSending(s, c, L) /\ Unanswered(s, c) /\ AsAsked(c)
    BY <1>1, <1>3 DEF Fresh, ServerSide, ClientSide
  <2>3. Quiet(c, L) /\ \A i \in Pending(t, c) : c.commands[i].name # "nextdl"
    BY <1>4, <2>1, <2>2 DEF NotSending
  <2>4. WwwDl("ack") # WwwDl("fail") /\ WwwDl("ack") # WwwDl("done") /\ WwwDl("fail") # WwwDl("done")
    BY <1>6
  <2>5. Executed(s, c, t)
    <3>1. CASE x.name \in {"download", "stopdl", "donedl"}
      <4>1. ~s.wwwing /\ x # WwwDl("fail") /\ x # WwwDl("ack") BY <1>4, <1>6, <3>1
      <4>2. /\ t.lastClientCommand = e /\ ~t.download
            /\ t.dropped = "no" /\ t.redirects = s.redirects
            /\ t.wwwDl = s.wwwDl /\ t.fallback = s.fallback /\ t.wwwing = s.wwwing
        BY <1>1, <1>5, <1>8, <2>1, <3>1 DEF Servers
      <4>3. t.downloadName = IF x.name = "download" THEN x.arg ELSE None
        <5>1. x.name = "donedl" => s.downloadName = None
          BY <1>1, <1>2, <1>3, BeforeCommand DEF x
        <5> QED BY <1>1, <1>5, <1>8, <3>1, <5>1 DEF Servers
      <4> QED BY <4>1, <4>2, <4>3 DEF Executed, x
    <3>2. CASE x = WwwDl("ack")
      <4>1. t = [n EXCEPT !.wwwing = TRUE] BY <1>4, <1>6, <1>8, <3>2
      <4>2. /\ t.lastClientCommand = e /\ ~t.download /\ t.downloadName = s.downloadName
            /\ t.dropped = "no" /\ t.redirects = s.redirects
            /\ t.wwwDl = s.wwwDl /\ t.fallback = s.fallback /\ t.wwwing
        BY <1>1, <1>5, <2>1, <4>1 DEF Servers
      <4>3. x.name = "wwwdl" BY <1>6, <3>2
      <4> QED BY <2>4, <3>2, <4>2, <4>3 DEF Executed, x
    <3>3. CASE x \in {WwwDl("done"), WwwDl("fail")}
      <4>1. t = [n EXCEPT !.downloadName = None, !.download = FALSE,
                          !.wwwing = FALSE, !.fallback = n.fallback \/ x.arg = "fail"]
        <5>1. x.name = "wwwdl" /\ x.arg # "ack" /\ s.wwwing /\ s.wwwDl BY <1>4, <1>6, <3>3
        <5> QED BY <1>8, <5>1
      <4>2. /\ t.lastClientCommand = e /\ ~t.download /\ t.downloadName = None
            /\ t.dropped = "no" /\ t.redirects = s.redirects
            /\ t.wwwDl = s.wwwDl /\ ~t.wwwing
        BY <1>1, <1>5, <4>1 DEF Servers
      <4>3. t.fallback <=> s.fallback \/ x = WwwDl("fail")
        <5>1. t.fallback = (n.fallback \/ x.arg = "fail") BY <1>1, <4>1 DEF Servers
        <5>2. x.arg = "fail" <=> x = WwwDl("fail") BY <1>6, <3>3
        <5> QED BY <1>5, <5>1, <5>2
      <4>4. x.name = "wwwdl" BY <1>6, <3>3
      <4> QED BY <2>4, <3>3, <4>2, <4>3, <4>4 DEF Executed, x
    <3> QED BY <1>6, <1>10, <3>1, <3>2, <3>3
  <2>6. Fresh(z, t, c, L) BY <1>1, <1>2, <1>3, <2>3, <2>5, ExecutedFresh
  <2>7. CASE R = L BY <2>6, <2>7 DEF z, t, c, R
  <2>8. CASE (x.name = "donedl" \/ x = WwwDl("fail")) /\ R = Sent(g)
    <3>1. s.lastClientCommand \in Nat /\ Len(c.commands) \in Nat BY <1>3, CommandTypes DEF Servers
    <3>2. g \in Messages /\ g.kind = "gamestate" BY <3>1 DEF Messages
    <3>3. x = c.commands[e] BY DEF x, NextCommand
    <3>4. /\ ~Gamestates(c, L) /\ t.downloadName = None
          /\ t.fallback => x = WwwDl("fail")
      <4>1. x.name # "stopdl" /\ x.name # "download" BY <1>6, <2>8
      <4>2. x # WwwDl("ack") BY <1>6, <2>4, <2>8
      <4> QED BY <1>4, <2>5, <4>1, <4>2 DEF Executed, x
    <3>5. \A i \in Pending(t, c) : c.commands[i].name = "stopdl"
      <4>1. CASE x.name = "donedl" BY <1>4, <2>2, <3>3, <4>1 DEF Unanswered
      <4>2. CASE x = WwwDl("fail")
        <5>1. e = Len(c.commands) BY <1>4, <2>2, <3>3, <4>2 DEF Unanswered
        <5>2. Pending(t, c) = {} BY <1>4, <3>1, <5>1
        <5> QED BY <5>2
      <4> QED BY <2>8, <4>1, <4>2
    <3>6. Waits(Last(c))
      <4>1. CASE e = Len(c.commands) BY <2>8, <3>3, <4>1 DEF Last, Waits
      <4>2. CASE e # Len(c.commands)
        <5>1. Len(c.commands) \in Pending(t, c) BY <1>4, <3>1, <4>2
        <5> QED BY <3>5, <5>1 DEF Last, Waits
      <4> QED BY <4>1, <4>2
    <3>7. t.fallback => /\ t.lastClientCommand = Len(c.commands)
                        /\ Last(c) = WwwDl("fail") /\ c.aborting
      <4> SUFFICES ASSUME t.fallback
                   PROVE  /\ t.lastClientCommand = Len(c.commands)
                          /\ Last(c) = WwwDl("fail") /\ c.aborting
        OBVIOUS
      <4>1. e = Len(c.commands) BY <1>4, <2>2, <3>3, <3>4 DEF Unanswered
      <4>2. Last(c) = WwwDl("fail") BY <3>3, <3>4, <4>1 DEF Last
      <4>3. ~c.loads BY <3>4 DEF Gamestates
      <4>4. c.aborting BY <2>2, <4>2, <4>3 DEF AsAsked, LeftBy
      <4> QED BY <1>2, <4>1, <4>2, <4>4
    <3> HIDE DEF g
    <3>8. MayFollow(t, c, L, g)
      BY <3>2, <3>4, <3>5, <3>6, <3>7 DEF MayFollow, Gamestates
    <3>9. Fresh(size, t, client, toClient')
      <4>1. Types /\ toClient' = Sent(g) /\ g.kind # "block" BY <1>m, <2>8, <3>2 DEF Always
      <4>2. MayFollow(t, client, toClient, g) /\ Fresh(size, t, client, toClient)
        BY <2>6, <3>8 DEF z, c, L
      <4> QED BY <1>2, <3>2, <4>1, <4>2, SendFresh
    <3> QED BY <3>9 DEF t
  <2> QED BY <1>1, <2>7, <2>8
<1> QED BY <1>9, <1>10

----------------------------------------------------------------------------
(* The client goes on.                                                     *)

\* One or two commands are added: x is the first of them, y the last.
Adds(c, d, n, x, y) ==
  /\ n \in {1, 2} /\ (n = 1 => x = y)
  /\ Len(d.commands) = Len(c.commands) + n
  /\ \A i \in 1 .. Len(c.commands) : d.commands[i] = c.commands[i]
  /\ d.commands[Len(c.commands) + 1] = x /\ d.commands[Len(c.commands) + n] = y

\* A command is added, and a second one.
LEMMA AppendAdds ==
  ASSUME NEW c \in Clients, NEW d \in Clients, NEW x \in ClientCommands, NEW y \in ClientCommands
  PROVE  /\ d.commands = Append(c.commands, x) => Adds(c, d, 1, x, x)
         /\ d.commands = Append(Append(c.commands, x), y) => Adds(c, d, 2, x, y)
<1> DEFINE M == c.commands
           N == Append(M, x)
<1>1. M \in Seq(ClientCommands) BY DEF Clients
<1> HIDE DEF M
<1>2. /\ N \in Seq(ClientCommands) /\ Len(N) = Len(M) + 1 /\ N[Len(M) + 1] = x
      /\ \A i \in 1 .. Len(M) : N[i] = M[i]
  BY <1>1, AppendProperties
<1> HIDE DEF N
<1>3. /\ Append(N, y) \in Seq(ClientCommands) /\ Len(Append(N, y)) = Len(N) + 1
      /\ Append(N, y)[Len(N) + 1] = y /\ \A i \in 1 .. Len(N) : Append(N, y)[i] = N[i]
  BY <1>2, AppendProperties
<1>4. Len(M) \in Nat BY <1>1
<1>5. d.commands = N => Adds(c, d, 1, x, x) BY <1>2 DEF Adds, M
<1>6. ASSUME d.commands = Append(N, y) PROVE Adds(c, d, 2, x, y)
  <2>1. Len(N) + 1 = Len(M) + 2 /\ Len(M) + 1 \in 1 .. Len(N)
        /\ \A i \in 1 .. Len(M) : i \in 1 .. Len(N)
    BY <1>2, <1>4
  <2>2. \A i \in 1 .. Len(M) : Append(N, y)[i] = M[i] BY <1>2, <1>3, <2>1
  <2>3. Append(N, y)[Len(M) + 1] = x /\ Append(N, y)[Len(M) + 2] = y BY <1>2, <1>3, <2>1
  <2>4. Len(d.commands) = Len(M) + 2 BY <1>3, <1>6, <2>1
  <2>5. 2 \in {1, 2} /\ (2 = 1 => x = y) OBVIOUS
  <2> QED BY <1>6, <2>2, <2>3, <2>4, <2>5 DEF Adds, M
<1> QED BY <1>5, <1>6 DEF N, M

\* What follows from the form of the commands.
LEMMA AddsFacts ==
  ASSUME NEW s \in Servers, NEW c \in Clients, NEW d \in Clients,
         NEW n, NEW x, NEW y, Adds(c, d, n, x, y),
         s.lastClientCommand <= Len(c.commands), Shape(c)
  PROVE  /\ Last(d) = y
         /\ \A i \in 1 .. Len(d.commands) :
              (i \in 1 .. Len(c.commands) /\ d.commands[i] = c.commands[i])
                \/ (i = Len(c.commands) + 1 /\ d.commands[i] = x)
                \/ (i = Len(c.commands) + n /\ d.commands[i] = y)
         /\ \A i \in Pending(s, d) :
              (i \in Pending(s, c) /\ d.commands[i] = c.commands[i])
                \/ (i = Len(c.commands) + 1 /\ d.commands[i] = x)
                \/ (i = Len(c.commands) + n /\ d.commands[i] = y)
         /\ s.lastClientCommand >= 1 =>
              d.commands[s.lastClientCommand] = c.commands[s.lastClientCommand]
         /\ d.commands[s.lastClientCommand + 1] =
              IF s.lastClientCommand < Len(c.commands)
              THEN c.commands[s.lastClientCommand + 1] ELSE x
         /\ Follows(Last(c), x) /\ (n = 2 => Follows(x, y)) => Shape(d)
<1> DEFINE C == Len(c.commands)
           D == Len(d.commands)
           p == s.lastClientCommand
<1>1. /\ C \in Nat /\ D \in Nat /\ p \in Nat /\ p <= C
      /\ n \in {1, 2} /\ (n = 1 => x = y) /\ D = C + n
      /\ \A i \in 1 .. C : d.commands[i] = c.commands[i]
      /\ d.commands[C + 1] = x /\ d.commands[C + n] = y
      /\ C >= 1
  BY CommandTypes DEF Adds, Servers, Shape
<1> HIDE DEF C, D, p
<1>2. \A i \in 1 .. D : i \in 1 .. C \/ i = C + 1 \/ i = C + n BY <1>1
<1>3. \A i \in p + 1 .. D : i \in p + 1 .. C \/ i = C + 1 \/ i = C + n BY <1>1
<1>4. \A i \in p + 1 .. C : i \in 1 .. C BY <1>1
<1>5. Last(d) = y BY <1>1 DEF Last, D
<1>6. d.commands[p + 1] = IF p < C THEN c.commands[p + 1] ELSE x
  <2>1. CASE p < C
    <3>1. p + 1 \in 1 .. C BY <1>1, <2>1
    <3> QED BY <1>1, <2>1, <3>1
  <2>2. CASE ~(p < C)
    <3>1. p = C BY <1>1, <2>2
    <3> QED BY <1>1, <2>2, <3>1
  <2> QED BY <2>1, <2>2
<1>7. p >= 1 => d.commands[p] = c.commands[p]
  <2>1. p >= 1 => p \in 1 .. C BY <1>1
  <2> QED BY <1>1, <2>1
<1>8. ASSUME Follows(Last(c), x), n = 2 => Follows(x, y) PROVE Shape(d)
  <2>1. ASSUME NEW i \in 1 .. D - 1 PROVE Follows(d.commands[i], d.commands[i + 1])
    <3>1. CASE i < C
      <4>1. i \in 1 .. C - 1 /\ i \in 1 .. C /\ i + 1 \in 1 .. C BY <1>1, <3>1
      <4>2. Follows(c.commands[i], c.commands[i + 1]) BY <4>1 DEF Shape, C
      <4> QED BY <1>1, <4>1, <4>2
    <3>2. CASE i = C
      <4>1. d.commands[i] = Last(c) /\ d.commands[i + 1] = x
        <5>1. i \in 1 .. C BY <1>1, <3>2
        <5>2. d.commands[i] = c.commands[C] BY <1>1, <3>2, <5>1
        <5> QED BY <1>1, <3>2, <5>2 DEF Last, C
      <4> QED BY <1>8, <4>1
    <3>3. CASE i > C
      <4>1. n = 2 /\ i = C + 1 /\ i + 1 = C + 2 BY <1>1, <3>3
      <4> QED BY <1>1, <1>8, <4>1
    <3> QED BY <1>1, <3>1, <3>2, <3>3
  <2>2. D >= 1 /\ 1 \in 1 .. C BY <1>1
  <2>3. c.commands[1].name = "download" BY DEF Shape
  <2>4. d.commands[1].name = "download" BY <1>1, <2>2, <2>3
  <2> QED BY <2>1, <2>2, <2>4 DEF Shape, D
<1> QED BY <1>1, <1>2, <1>3, <1>4, <1>5, <1>6, <1>7, <1>8 DEF Pending, C, D, p

\* One command is added.
LEMMA AddsOne ==
  ASSUME NEW s \in Servers, NEW c \in Clients, NEW d \in Clients,
         NEW x, Adds(c, d, 1, x, x), s.lastClientCommand <= Len(c.commands), Shape(c)
  PROVE  /\ Last(d) = x
         /\ \A i \in 1 .. Len(d.commands) :
              (i \in 1 .. Len(c.commands) /\ d.commands[i] = c.commands[i])
                \/ (i = Len(c.commands) + 1 /\ d.commands[i] = x)
         /\ \A i \in Pending(s, d) :
              (i \in Pending(s, c) /\ d.commands[i] = c.commands[i])
                \/ (i = Len(c.commands) + 1 /\ d.commands[i] = x)
         /\ s.lastClientCommand >= 1 =>
              d.commands[s.lastClientCommand] = c.commands[s.lastClientCommand]
         /\ Follows(Last(c), x) => Shape(d)
<1> DEFINE C == Len(c.commands)
           p == s.lastClientCommand
<1>1. /\ C \in Nat /\ p \in Nat /\ Len(d.commands) = C + 1
      /\ \A i \in 1 .. C : d.commands[i] = c.commands[i]
      /\ d.commands[C + 1] = x
  BY CommandTypes DEF Adds, Servers
<1>2. /\ \A i \in p + 1 .. C + 1 : i \in p + 1 .. C \/ i = C + 1
      /\ \A i \in p + 1 .. C : i \in 1 .. C
  BY <1>1
<1>3. \A i \in Pending(s, d) : (i \in Pending(s, c) /\ d.commands[i] = c.commands[i])
                                \/ (i = C + 1 /\ d.commands[i] = x)
  <2> HIDE DEF C, p
  <2> QED BY <1>1, <1>2 DEF Pending, C, p
<1>4. /\ Last(d) = x
      /\ p >= 1 => d.commands[p] = c.commands[p]
      /\ Follows(Last(c), x) => Shape(d)
  BY AddsFacts
<1>5. \A i \in 1 .. Len(d.commands) :
        (i \in 1 .. C /\ d.commands[i] = c.commands[i]) \/ (i = C + 1 /\ d.commands[i] = x)
  <2> HIDE DEF C
  <2> QED BY <1>1
<1> QED BY <1>3, <1>4, <1>5

\* What has been closed is closed.
LEMMA ClosedKept ==
  ASSUME NEW s \in Servers, NEW c \in Clients, NEW d \in Clients,
         NEW L \in Seq(Messages), NEW R \in Seq(Messages), Shape(c), Closed(s, c, L),
         NEW n, NEW x, NEW y, Adds(c, d, n, x, y), s.lastClientCommand <= Len(c.commands),
         x.name \in {"download", "donedl", "stopdl"} /\ s.lastClientCommand = Len(c.commands)
           => s.downloadName = None,
         Gamestates(d, R) => Gamestates(c, L) /\ x.name = "stopdl" /\ y.name = "stopdl"
  PROVE  Closed(s, d, R)
<1> DEFINE p == s.lastClientCommand
           C == Len(c.commands)
<1>1. /\ p \in Nat /\ C \in Nat /\ p <= C BY CommandTypes DEF Servers
<1>2. /\ \A i \in Pending(s, d) :
           (i \in Pending(s, c) /\ d.commands[i] = c.commands[i])
             \/ (i = C + 1 /\ d.commands[i] = x) \/ (i = C + n /\ d.commands[i] = y)
      /\ p >= 1 => d.commands[p] = c.commands[p]
      /\ d.commands[p + 1] = IF p < C THEN c.commands[p + 1] ELSE x
  BY AddsFacts
<1> HIDE DEF p, C
<1>3. p >= 1 => /\ Waits(d.commands[p]) \/ d.commands[p] = WwwDl("done") => s.downloadName = None
                /\ s.wwwing <=> d.commands[p] = WwwDl("ack")
  BY <1>2 DEF Closed, p
<1>4. d.commands[p + 1].name \in {"download", "donedl", "stopdl"} => s.downloadName = None
  <2>1. CASE p < C BY <1>2, <2>1 DEF Closed, p, C
  <2>2. CASE ~(p < C)
    <3>1. p = C BY <1>1, <2>2
    <3> QED BY <1>2, <2>2, <3>1 DEF p, C
  <2> QED BY <2>1, <2>2
<1>5. Gamestates(d, R) => /\ s.downloadName = None
                          /\ \A i \in Pending(s, d) : d.commands[i].name = "stopdl"
  BY <1>2 DEF Closed
<1>6. p = 0 => ~s.wwwing BY DEF Closed, p
<1> QED BY <1>3, <1>4, <1>5, <1>6 DEF Closed, p

\* When the client's last command asks for something, it has not asked for a
\* gamestate that is not sent.
Busy(e) == e.name \in {"download", "nextdl"} \/ e = WwwDl("ack")

\* Then no command that is not executed asks for a gamestate.
LEMMA BusyAsks ==
  ASSUME NEW s \in Servers, NEW c \in Clients, Shape(c), Unanswered(s, c), Busy(Last(c))
  PROVE  \A i \in Pending(s, c) : c.commands[i].name # "donedl" /\ c.commands[i] # WwwDl("fail")
<1> DEFINE C == Len(c.commands)
<1>1. C \in Nat /\ C >= 1 /\ s.lastClientCommand \in Nat BY CommandTypes DEF Shape, Servers
<1>2. /\ c.commands[C].name # "donedl" /\ c.commands[C].name # "stopdl"
      /\ c.commands[C] # WwwDl("fail")
  BY DEF Busy, Last, WwwDl, Command
<1> HIDE DEF C
<1> SUFFICES ASSUME NEW i \in Pending(s, c)
             PROVE  c.commands[i].name # "donedl" /\ c.commands[i] # WwwDl("fail")
  OBVIOUS
<1>3. i \in Int /\ i <= C BY <1>1 DEF Pending, C
<1>4. c.commands[i].name = "donedl" => i = C \/ c.commands[C].name = "stopdl"
  <2>1. i # C => C \in i + 1 .. C BY <1>1, <1>3
  <2> QED BY <2>1 DEF Unanswered, C
<1>5. c.commands[i] = WwwDl("fail") => i = C BY DEF Unanswered, C
<1> QED BY <1>2, <1>4, <1>5

\* Nor has it then.
LEMMA UnansweredKept ==
  ASSUME NEW s \in Servers, NEW c \in Clients, NEW d \in Clients, Shape(c),
         NEW n, NEW x, NEW y, Adds(c, d, n, x, y), s.lastClientCommand <= Len(c.commands),
         Unanswered(s, c),
         \A i \in Pending(s, c) : c.commands[i] # WwwDl("fail"),
         \/ \A i \in Pending(s, c) : c.commands[i].name # "donedl"
         \/ x.name = "stopdl" /\ y.name = "stopdl",
         n = 2 => x.name # "donedl" /\ x # WwwDl("fail")
  PROVE  Unanswered(s, d)
<1> DEFINE p == s.lastClientCommand
           C == Len(c.commands)
           D == Len(d.commands)
<1>1. p \in Nat /\ C \in Nat /\ p <= C /\ n \in {1, 2} /\ D = C + n /\ (n = 1 => x = y)
  BY CommandTypes DEF Servers, Adds
<1>2. /\ \A i \in Pending(s, d) :
           (i \in Pending(s, c) /\ d.commands[i] = c.commands[i])
             \/ (i = C + 1 /\ d.commands[i] = x) \/ (i = C + n /\ d.commands[i] = y)
      /\ \A i \in 1 .. D :
           (i \in 1 .. C /\ d.commands[i] = c.commands[i])
             \/ (i = C + 1 /\ d.commands[i] = x) \/ (i = C + n /\ d.commands[i] = y)
  BY AddsFacts
<1> SUFFICES ASSUME NEW i \in Pending(s, d)
             PROVE  /\ d.commands[i].name = "donedl" =>
                         \A j \in i + 1 .. D : d.commands[j].name = "stopdl"
                    /\ d.commands[i] = WwwDl("fail") => i = D
  BY DEF Unanswered
<1> HIDE DEF p, C, D
<1>3. CASE i \in Pending(s, c) /\ d.commands[i] = c.commands[i]
  <2>1. d.commands[i] # WwwDl("fail") BY <1>3
  <2>2. ASSUME d.commands[i].name = "donedl", NEW j \in i + 1 .. D
        PROVE  d.commands[j].name = "stopdl"
    <3>1. x.name = "stopdl" /\ y.name = "stopdl"
          /\ \A k \in i + 1 .. C : c.commands[k].name = "stopdl"
      BY <1>3, <2>2 DEF Unanswered, C
    <3>2. i \in Nat /\ j \in Nat /\ j \in 1 .. D /\ (j \in 1 .. C => j \in i + 1 .. C)
      BY <1>1, <1>3, <2>2 DEF Pending, C, p
    <3> QED BY <1>2, <3>1, <3>2
  <2> QED BY <2>1, <2>2
<1>4. CASE i = C + n /\ d.commands[i] = y
  <2>1. i = D /\ i + 1 .. D = {} BY <1>1, <1>4
  <2> QED BY <2>1
<1>5. CASE i = C + 1 /\ d.commands[i] = x
  <2>1. CASE n = 1
    <3>1. i = D /\ i + 1 .. D = {} BY <1>1, <1>5, <2>1
    <3> QED BY <3>1
  <2>2. CASE n = 2 BY <1>5, <2>2
  <2> QED BY <1>1, <2>1, <2>2
<1> QED BY <1>2, <1>3, <1>4, <1>5

\* The client's state tells its last command.
LEMMA LastCommand ==
  ASSUME NEW c \in Clients, Shape(c), AsAsked(c), ~c.loads
  PROVE  /\ Last(c) \in ClientCommands
         /\ c.downloadName = None =>
              /\ Last(c).name \in {"donedl", "stopdl"}
              /\ ~c.wwwDl /\ ~c.aborting /\ c.web = None
         /\ c.downloadName # None /\ ~c.wwwDl =>
              /\ ~c.aborting /\ c.web = None
              /\ \/ c.block = 0 /\ Last(c).name = "download"
                 \/ c.block > 0 /\ Last(c) = Command("nextdl", c.block - 1)
         /\ c.web # None => /\ Last(c) = WwwDl("ack") /\ c.wwwDl /\ ~c.aborting
                            /\ c.downloadName # None /\ c.block = 0
<1> DEFINE e == Last(c)
<1>1. e \in ClientCommands
  <2>1. Len(c.commands) \in 1 .. Len(c.commands) BY CommandTypes DEF Shape
  <2> QED BY <2>1, CommandTypes DEF Last
<1>2. LeftBy(c, e) BY DEF AsAsked
<1>3. \/ e.name = "download" /\ e.arg \in Files
      \/ e.name = "nextdl" /\ e.arg \in Nat /\ e = Command("nextdl", e.arg)
      \/ e = WwwDl("ack") \/ e = WwwDl("done") \/ e = WwwDl("fail")
      \/ e.name \in {"donedl", "stopdl"}
  BY <1>1 DEF ClientCommands, WwwDl, Command
<1>4. e.name = "download" => c.downloadName # None BY <1>2, <1>3 DEF LeftBy, Files, None
<1> HIDE DEF e
<1>5. CASE e.name = "download" BY <1>1, <1>2, <1>4, <1>5 DEF LeftBy, e
<1>6. CASE e.name = "nextdl"
  <2>1. e.arg \in Nat /\ e = Command("nextdl", e.arg) BY <1>3, <1>6 DEF WwwDl, Command
  <2>2. c.downloadName # None /\ c.block = e.arg + 1 /\ ~c.wwwDl /\ ~c.aborting /\ c.web = None
    BY <1>2, <1>6 DEF LeftBy
  <2>3. c.block > 0 /\ c.block - 1 = e.arg BY <2>1, <2>2
  <2> QED BY <1>1, <2>1, <2>2, <2>3 DEF e
<1>7. CASE e = WwwDl("ack") BY <1>1, <1>2, <1>7 DEF LeftBy, e
<1>8. CASE e = WwwDl("fail") BY <1>1, <1>2, <1>8 DEF LeftBy, e
<1>9. CASE e.name \in {"donedl", "stopdl"} BY <1>1, <1>2, <1>9 DEF LeftBy, e
<1>10. e # WwwDl("done") BY <1>2 DEF LeftBy
<1> QED BY <1>3, <1>5, <1>6, <1>7, <1>8, <1>9, <1>10

\* The acknowledgements stay in one window.
LEMMA InWindowKept ==
  ASSUME NEW s \in Servers, NEW c \in Clients, NEW d \in Clients,
         s.lastClientCommand <= Len(c.commands), Shape(c), InWindow(c),
         c.acknowledged <= d.acknowledged,
         NEW n, NEW x, NEW y, Adds(c, d, n, x, y),
         x.name = "nextdl" =>
           /\ 2 * x.arg < Numbers
           /\ \A i \in d.acknowledged + 1 .. Len(c.commands) : OneWindow(c.commands[i], x),
         n = 2 => y.name # "nextdl"
  PROVE  InWindow(d)
<1> DEFINE C == Len(c.commands)
           D == Len(d.commands)
<1>1. C \in Nat /\ n \in {1, 2} /\ D = C + n /\ (n = 1 => x = y)
      /\ c.acknowledged \in Nat /\ d.acknowledged \in Nat
  BY CommandTypes DEF Adds, Clients
<1>2. \A i \in 1 .. D : (i \in 1 .. C /\ d.commands[i] = c.commands[i])
                          \/ (i = C + 1 /\ d.commands[i] = x) \/ (i = C + n /\ d.commands[i] = y)
  BY AddsFacts
<1> HIDE DEF C, D
<1>3. \A i \in 1 .. D : (i \in 1 .. C /\ d.commands[i] = c.commands[i])
                          \/ (i = C + 1 /\ d.commands[i] = x)
                          \/ (i = C + 2 /\ d.commands[i].name # "nextdl")
  BY <1>1, <1>2
<1>4. \A i \in 1 .. D : d.commands[i].name = "nextdl" => 2 * d.commands[i].arg < Numbers
  BY <1>3 DEF InWindow, C
<1>5. ASSUME NEW i \in d.acknowledged + 1 .. D, NEW j \in i + 1 .. D
      PROVE  OneWindow(d.commands[i], d.commands[j])
  <2>1. /\ i \in 1 .. D /\ j \in 1 .. D /\ i \in Nat /\ j \in Nat /\ i < j
        /\ i \in 1 .. C => i \in d.acknowledged + 1 .. C /\ i \in c.acknowledged + 1 .. C
        /\ j \in 1 .. C => j \in i + 1 .. C
    BY <1>1
  <2>2. CASE j \in 1 .. C
    <3>1. i \in 1 .. C BY <1>1, <2>1, <2>2
    <3>2. d.commands[i] = c.commands[i] /\ d.commands[j] = c.commands[j] BY <1>1, <1>3, <2>1, <2>2, <3>1
    <3> QED BY <2>1, <2>2, <3>1, <3>2 DEF InWindow, C
  <2>3. CASE j = C + 1 /\ d.commands[j] = x
    <3>1. i \in 1 .. C /\ d.commands[i] = c.commands[i] BY <1>1, <1>3, <2>1, <2>3
    <3>2. x.name = "nextdl" => OneWindow(c.commands[i], x) BY <2>1, <3>1 DEF C
    <3> QED BY <2>3, <3>1, <3>2 DEF OneWindow
  <2>4. CASE d.commands[j].name # "nextdl" BY <2>4 DEF OneWindow
  <2> QED BY <1>3, <2>1, <2>2, <2>3, <2>4
<1> QED BY <1>4, <1>5 DEF InWindow, D

\* A message is read: what comes behind it is still under way.
Reads(z, s, c, d, L, R, i) ==
  /\ i \in 1 .. Len(L) /\ Without(L, i, R)
  /\ d.acknowledged = L[i].ack /\ c.acknowledged <= L[i].ack
  /\ Fresh(z, s, c, L) /\ ~c.loads
  /\ s.lastClientCommand <= Len(c.commands)
  /\ s.download => s.downloadName # None
  /\ s.dropped # "no" => ~s.download

\* What is behind the message that is read.
LEMMA ReadsFacts ==
  ASSUME NEW z \in Sizes, NEW s \in Servers, NEW c \in Clients, NEW d \in Clients,
         NEW L \in Seq(Messages), NEW R \in Seq(Messages), NEW i, Reads(z, s, c, d, L, R, i)
  PROVE  /\ i \in Nat /\ L[i] \in Messages
         /\ \A k \in 1 .. Len(R) :
              /\ k + i \in 1 .. Len(L) /\ k + i \in i + 1 .. Len(L) /\ R[k] = L[k + i]
              /\ Live(c, R, k) => Live(c, L, k + i)
              /\ NoFirstBlock(L, k + i) => NoFirstBlock(R, k)
              /\ \A j \in k + 1 .. Len(R) : j + i \in k + i + 1 .. Len(L) /\ R[j] = L[j + i]
         /\ Quiet(c, L) => Quiet(c, R)
         /\ L[i].kind = "gamestate" => Waits(Last(c)) /\ \A k \in 1 .. Len(R) : R[k].kind = "idle"
<1>1. /\ i \in 1 .. Len(L) /\ Without(L, i, R) /\ Fresh(z, s, c, L) BY DEF Reads
<1>2. i \in Nat /\ L[i] \in Messages /\ Len(L) \in Nat /\ Len(R) = Len(L) - i
  BY <1>1 DEF Without
<1>3. Alike(c, c) BY DEF Alike
<1>4. /\ \A k \in 1 .. Len(R) :
           /\ k + i \in 1 .. Len(L) /\ R[k] = L[k + i]
           /\ \A j \in k + 1 .. Len(R) : j + i \in k + i + 1 .. Len(L) /\ R[j] = L[j + i]
           /\ Live(c, R, k) => Live(c, L, k + i)
           /\ NoFirstBlock(L, k + i) => NoFirstBlock(R, k)
      /\ Quiet(c, L) => Quiet(c, R)
  BY <1>1, <1>2, <1>3, WithoutFacts
<1>5. \A k \in 1 .. Len(R) : k + i \in i + 1 .. Len(L) BY <1>2
<1>6. L[i].kind = "gamestate" => Waits(Last(c)) /\ \A j \in i + 1 .. Len(L) : L[j].kind = "idle"
  BY <1>1 DEF Fresh, ClientSide, LinkOrder
<1> QED BY <1>2, <1>4, <1>5, <1>6

\* The gamestate comes, and the client has all files ...
LEMMA LoadsFresh ==
  ASSUME NEW z \in Sizes, NEW s \in Servers, NEW c \in Clients, NEW d \in Clients,
         NEW L \in Seq(Messages), NEW R \in Seq(Messages), NEW i, Reads(z, s, c, d, L, R, i),
         L[i].kind = "gamestate", ~d.wwwDl, ~d.aborting, d.web = None,
         d.loads, d.downloadName = None, d.commands = c.commands
  PROVE  Fresh(z, s, d, R)
<1>1. /\ i \in 1 .. Len(L) /\ d.acknowledged = L[i].ack /\ c.acknowledged <= L[i].ack
      /\ Fresh(z, s, c, L) /\ ~c.loads /\ s.lastClientCommand <= Len(c.commands)
      /\ s.download => s.downloadName # None
  BY DEF Reads
<1>2. /\ Waits(Last(c)) /\ \A k \in 1 .. Len(R) : R[k].kind = "idle" BY ReadsFacts
<1>3. ClientSide(z, c, L) /\ NoRedirects(s, c, L) BY <1>1 DEF Fresh
<1>4. Last(d) = Last(c) /\ Pending(s, d) = Pending(s, c) BY DEF Last, Pending
<1>5. ClientSide(z, d, R)
  <2> USE DEF ClientSide
  <2>1. Shape(d) BY <1>3 DEF Shape
  <2>2. AsAsked(d) BY <1>2, <1>4 DEF AsAsked
  <2>3. Written(z, d) BY DEF Written
  <2>4. Expected(z, d, R) BY DEF Expected
  <2>5. InWindow(d)
    <3>1. c.acknowledged \in Nat /\ d.acknowledged \in Nat /\ Len(c.commands) \in Nat
      BY CommandTypes DEF Clients
    <3>2. c.acknowledged <= d.acknowledged BY <1>1
    <3>3. d.acknowledged + 1 .. Len(c.commands) \subseteq c.acknowledged + 1 .. Len(c.commands)
      BY <3>1, <3>2, LaterInterval
    <3> QED BY <1>3, <3>3 DEF InWindow
  <2>6. LinkOrder(d, R) BY <1>2 DEF LinkOrder
  <2> QED BY <2>1, <2>2, <2>3, <2>4, <2>5, <2>6
<1>6. NoRedirects(s, d, R) BY <1>2, <1>3 DEF NoRedirects
<1>7. ASSUME s.dropped = "no" PROVE ServerSide(z, s, d, R)
  <2>1. /\ NotSending(s, c, L) /\ Closed(s, c, L) /\ Unanswered(s, c) /\ Redirecting(s, c, L)
    BY <1>1, <1>7 DEF Fresh, ServerSide
  <2>2. s.downloadName = None /\ \A k \in Pending(s, c) : c.commands[k].name = "stopdl"
    BY <1>1, <2>1 DEF Closed, Gamestates
  <2>3. ~s.download BY <1>1, <2>2
  <2>4. Sending(z, s, d, R) BY <2>3 DEF Sending
  <2>5. NotSending(s, d, R) BY <1>4, <2>2 DEF NotSending, Quiet
  <2>6. Closed(s, d, R) BY <1>4, <2>1, <2>2 DEF Closed
  <2>7. Unanswered(s, d) BY <1>4, <2>1 DEF Unanswered
  <2>8. ~RedirectKnown(s, d, R) BY <1>2, <1>4, <2>2 DEF RedirectKnown
  <2>9. s.fallback => FallenBack(s, d, R)
    <3> SUFFICES ASSUME s.fallback PROVE FallenBack(s, d, R) OBVIOUS
    <3>1. FallenBack(s, c, L) BY <2>1 DEF Redirecting
    <3>2. s.lastClientCommand = Len(c.commands) BY <1>1, <3>1 DEF FallenBack
    <3>3. Pending(s, d) = {} /\ Len(d.commands) <= s.lastClientCommand + 1
      BY <3>2, <1>4, CommandTypes DEF Pending
    <3> QED BY <1>2, <3>3 DEF FallenBack
  <2> QED BY <2>4, <2>5, <2>6, <2>7, <2>8, <2>9 DEF ServerSide, Redirecting
<1> QED BY <1>1, <1>5, <1>6, <1>7 DEF Fresh

\* ... or it asks for a file.
LEMMA EnteredFresh ==
  ASSUME NEW z \in Sizes, NEW s \in Servers, NEW c \in Clients, NEW d \in Clients,
         NEW L \in Seq(Messages), NEW R \in Seq(Messages), NEW i, Reads(z, s, c, d, L, R, i),
         L[i].kind = "gamestate", ~d.wwwDl, ~d.aborting, d.web = None,
         ~d.loads, NEW f \in Files, AskedForFile(c, d, f)
  PROVE  Fresh(z, s, d, R)
<1> DEFINE x == Command("download", f)
           C == Len(c.commands)
<1>1. /\ i \in 1 .. Len(L) /\ d.acknowledged = L[i].ack /\ c.acknowledged <= L[i].ack
      /\ Fresh(z, s, c, L) /\ ~c.loads /\ s.lastClientCommand <= Len(c.commands)
      /\ s.download => s.downloadName # None
  BY DEF Reads
<1>2. /\ Waits(Last(c)) /\ \A k \in 1 .. Len(R) : R[k].kind = "idle" BY ReadsFacts
<1>3. ClientSide(z, c, L) /\ NoRedirects(s, c, L) /\ Shape(c) /\ InWindow(c)
  BY <1>1 DEF Fresh, ClientSide
<1>4. x \in ClientCommands /\ x.name = "download" /\ x.arg = f BY DEF Command, ClientCommands
<1>5. /\ d.downloadName = f /\ d.block = 0 /\ d.file = <<>> /\ f # None
      /\ d.commands = Append(c.commands, x)
  BY DEF AskedForFile, Files, None
<1>6. Adds(c, d, 1, x, x)
  <2> HIDE DEF x
  <2> QED BY <1>4, <1>5, AppendAdds
<1>7. /\ Last(d) = x
      /\ \A k \in 1 .. Len(d.commands) :
           (k \in 1 .. C /\ d.commands[k] = c.commands[k]) \/ d.commands[k] = x
      /\ \A k \in Pending(s, d) :
           (k \in Pending(s, c) /\ d.commands[k] = c.commands[k]) \/ d.commands[k] = x
      /\ s.lastClientCommand >= 1 =>
              d.commands[s.lastClientCommand] = c.commands[s.lastClientCommand]
      /\ Follows(Last(c), x) => Shape(d)
  <2> HIDE DEF x
  <2> QED BY <1>1, <1>3, <1>6, AddsFacts
<1>8. Quiet(d, R)
  <2>1. \A k \in 1 .. Len(R) : ~Live(d, R, k) BY <1>2 DEF Live, IsBlock
  <2> QED BY <1>5, <2>1 DEF Quiet
<1>w. \A e : Waits(e) => Follows(e, x)
  <2> SUFFICES ASSUME NEW e, Waits(e) PROVE Follows(e, x) OBVIOUS
  <2>1. e.name \in {"donedl", "stopdl"} \/ (e = WwwDl("fail") /\ e.name = "wwwdl")
    BY DEF Waits, WwwDl, Command
  <2>2. \A a : a.name \in {"donedl", "stopdl"} => a # WwwDl("ack") /\ a # WwwDl("done") /\ a # WwwDl("fail")
    BY DEF WwwDl, Command
  <2>3. WwwDl("fail") # WwwDl("ack") /\ WwwDl("fail") # WwwDl("done") BY DEF WwwDl, Command
  <2> QED BY <1>4, <2>1, <2>2, <2>3 DEF Follows
<1>a. x # WwwDl("ack") /\ x # WwwDl("done") /\ x # WwwDl("fail") BY DEF WwwDl, Command
<1> HIDE DEF x, C
<1>9. ClientSide(z, d, R)
  <2> USE DEF ClientSide
  <2>1. Shape(d) BY <1>2, <1>7, <1>w
  <2>2. AsAsked(d) BY <1>4, <1>5, <1>7, <1>a DEF AsAsked, LeftBy
  <2>3. Written(z, d)
    <3>1. z[f] \in Nat /\ 0 <= z[f] BY DownloadAssumption DEF Sizes
    <3> QED BY <1>5, <3>1 DEF Written
  <2>4. Expected(z, d, R) BY <1>5, <1>8 DEF Expected, Quiet
  <2>5. InWindow(d)
    <3>1. c.acknowledged <= d.acknowledged /\ (1 = 2 => x.name # "nextdl") BY <1>1
    <3> QED BY <1>1, <1>3, <1>4, <1>6, <3>1, InWindowKept
  <2>6. LinkOrder(d, R) BY <1>2 DEF LinkOrder
  <2> QED BY <2>1, <2>2, <2>3, <2>4, <2>5, <2>6
<1>10. NoRedirects(s, d, R) BY <1>2, <1>3, <1>4, <1>7 DEF NoRedirects, C
<1>11. ASSUME s.dropped = "no" PROVE ServerSide(z, s, d, R)
  <2>1. /\ NotSending(s, c, L) /\ Closed(s, c, L) /\ Unanswered(s, c) /\ Redirecting(s, c, L)
    BY <1>1, <1>11 DEF Fresh, ServerSide
  <2>2. s.downloadName = None /\ \A k \in Pending(s, c) : c.commands[k].name = "stopdl"
    BY <1>1, <2>1 DEF Closed, Gamestates
  <2>3. ~s.download BY <1>1, <2>2
  <2>4. Sending(z, s, d, R) BY <2>3 DEF Sending
  <2>5. \A k \in Pending(s, d) : d.commands[k].name \in {"stopdl", "download"}
    BY <1>4, <1>7, <2>2
  <2>6. NotSending(s, d, R) BY <1>8, <2>2, <2>5 DEF NotSending
  <2>7. ~Gamestates(d, R) BY <1>2 DEF Gamestates
  <2>8. Closed(s, d, R) BY <1>1, <1>3, <1>6, <2>1, <2>2, <2>7, ClosedKept
  <2>9. Unanswered(s, d)
    <3>1. \A sub : WwwDl(sub).name = "wwwdl" BY DEF WwwDl, Command
    <3> QED BY <2>5, <3>1 DEF Unanswered
  <2>10. ~RedirectKnown(s, d, R) BY <1>2, <1>5, <2>5 DEF RedirectKnown
  <2>11. s.fallback => FallenBack(s, d, R)
    <3> SUFFICES ASSUME s.fallback PROVE FallenBack(s, d, R) OBVIOUS
    <3>1. FallenBack(s, c, L) BY <2>1 DEF Redirecting
    <3>2. s.lastClientCommand = C BY <1>1, <3>1 DEF FallenBack, C
    <3>3. Len(d.commands) = C + 1 /\ C \in Nat BY <1>6, CommandTypes DEF Adds, C
    <3>4. Len(d.commands) <= s.lastClientCommand + 1 BY <3>2, <3>3
    <3>5. \A k \in Pending(s, d) : d.commands[k].name = "download"
      <4>1. Pending(s, c) = {} BY <3>2, <3>3 DEF Pending, C
      <4> QED BY <1>4, <1>7, <4>1
    <3> QED BY <1>2, <1>4, <1>7, <3>4, <3>5 DEF FallenBack
  <2> QED BY <2>4, <2>6, <2>8, <2>9, <2>10, <2>11 DEF ServerSide, Redirecting
<1> QED BY <1>1, <1>9, <1>10, <1>11 DEF Fresh

\* A block or a redirect comes of a file the client does not ask for any more.
LEMMA UnwantedFresh ==
  ASSUME NEW z \in Sizes, NEW s \in Servers, NEW c \in Clients, NEW d \in Clients,
         NEW L \in Seq(Messages), NEW R \in Seq(Messages), NEW i, Reads(z, s, c, d, L, R, i),
         L[i].kind \in {"block", "redirect"}, c.downloadName = None, d.downloadName = None,
         d.commands = Append(c.commands, Command("stopdl", None)),
         d.wwwDl = c.wwwDl, d.aborting = c.aborting, d.web = c.web, ~d.loads
  PROVE  Fresh(z, s, d, R)
<1> DEFINE x == Command("stopdl", None)
           C == Len(c.commands)
           p == s.lastClientCommand
<1>1. /\ i \in 1 .. Len(L) /\ d.acknowledged = L[i].ack /\ c.acknowledged <= L[i].ack
      /\ Fresh(z, s, c, L) /\ ~c.loads /\ p <= C
      /\ s.download => s.downloadName # None
  BY DEF Reads
<1>2. /\ i \in Nat
      /\ \A k \in 1 .. Len(R) :
           /\ k + i \in 1 .. Len(L) /\ R[k] = L[k + i]
           /\ \A j \in k + 1 .. Len(R) : j + i \in k + i + 1 .. Len(L) /\ R[j] = L[j + i]
  BY ReadsFacts
<1>3. /\ NoRedirects(s, c, L) /\ Shape(c) /\ InWindow(c) /\ AsAsked(c) /\ LinkOrder(c, L)
  BY <1>1 DEF Fresh, ClientSide
<1>4. x \in ClientCommands /\ x.name = "stopdl" BY DEF Command, ClientCommands
<1>5. /\ Last(c).name \in {"donedl", "stopdl"} /\ ~c.wwwDl /\ ~c.aborting /\ c.web = None
      /\ Last(c) \in ClientCommands
  BY <1>1, <1>3, LastCommand
<1>6. Adds(c, d, 1, x, x)
  <2>1. d.commands = Append(c.commands, x) OBVIOUS
  <2> HIDE DEF x
  <2> QED BY <1>4, <2>1, AppendAdds
<1>7. /\ Last(d) = x
      /\ \A k \in 1 .. Len(d.commands) :
           (k \in 1 .. C /\ d.commands[k] = c.commands[k]) \/ (k = C + 1 /\ d.commands[k] = x)
      /\ \A k \in Pending(s, d) :
           (k \in Pending(s, c) /\ d.commands[k] = c.commands[k]) \/ (k = C + 1 /\ d.commands[k] = x)
      /\ p >= 1 => d.commands[p] = c.commands[p]
      /\ Follows(Last(c), x) => Shape(d)
  <2> HIDE DEF x
  <2> QED BY <1>1, <1>3, <1>6, AddsOne
<1>8. Quiet(d, R) BY DEF Quiet
<1>9. \A a : a.name \in {"donedl", "stopdl"} => a # WwwDl("ack") /\ a # WwwDl("done") /\ a # WwwDl("fail")
  BY DEF WwwDl, Command
<1>10. Len(d.commands) = C + 1 /\ C \in Nat /\ p \in Nat /\ C >= 1
  BY <1>3, <1>6, CommandTypes DEF Adds, Servers, Shape
<1> HIDE DEF x, C, p
<1>11. ClientSide(z, d, R)
  <2> USE DEF ClientSide
  <2>0. Follows(Last(c), x) BY <1>4, <1>5, <1>9 DEF Follows
  <2>1. Shape(d) BY <1>7, <2>0
  <2>2. AsAsked(d) BY <1>4, <1>5, <1>7, <1>9 DEF AsAsked, LeftBy
  <2>3. Written(z, d) BY DEF Written
  <2>4. Expected(z, d, R) BY DEF Expected
  <2>5. InWindow(d)
    <3>1. c.acknowledged <= d.acknowledged /\ (1 = 2 => x.name # "nextdl") BY <1>1
    <3> QED BY <1>1, <1>3, <1>4, <1>6, <3>1, InWindowKept DEF C, p
  <2>6. LinkOrder(d, R)
    <3>1. \A k \in 1 .. Len(R) : R[k].kind = "redirect" => \A j \in k + 1 .. Len(R) : ~IsBlock(R, j)
      BY <1>2, <1>3 DEF LinkOrder, IsBlock
    <3>2. ASSUME NEW k \in 1 .. Len(R), R[k].kind = "gamestate", NEW j \in k + 1 .. Len(R)
          PROVE  R[j].kind = "idle"
      <4>1. k + i \in 1 .. Len(L) /\ L[k + i].kind = "gamestate" BY <1>2, <3>2
      <4>2. j + i \in k + i + 1 .. Len(L) /\ R[j] = L[j + i] BY <1>2
      <4>3. \A m \in k + i + 1 .. Len(L) : L[m].kind = "idle" BY <1>3, <4>1 DEF LinkOrder
      <4> QED BY <4>2, <4>3
    <3>3. Waits(Last(d)) BY <1>4, <1>7 DEF Waits
    <3> QED BY <1>8, <3>1, <3>2, <3>3 DEF LinkOrder
  <2> QED BY <2>1, <2>2, <2>3, <2>4, <2>5, <2>6
<1>12. NoRedirects(s, d, R)
  <2>1. \A k \in 1 .. Len(R) : L[k + i].kind # "redirect" => R[k].kind # "redirect" BY <1>2
  <2> QED BY <1>2, <1>3, <1>4, <1>5, <1>7, <2>1 DEF NoRedirects, C
<1>13. ASSUME s.dropped = "no" PROVE ServerSide(z, s, d, R)
  <2>1. /\ Sending(z, s, c, L) /\ NotSending(s, c, L) /\ Closed(s, c, L) /\ Unanswered(s, c)
        /\ Redirecting(s, c, L)
    BY <1>1, <1>13 DEF Fresh, ServerSide
  <2>2. Sending(z, s, d, R)
    <3> SUFFICES ASSUME s.download
                 PROVE  /\ ~s.fallback /\ ~s.wwwing /\ ~d.wwwDl
                        /\ s.xmitBlock <= s.currentBlock
                        /\ 2 * s.clientBlock < Numbers + 2
                        /\ \A k \in 1 .. Len(R) : R[k].kind # "redirect"
                        /\ \E K \in 0 .. Len(d.commands) - s.lastClientCommand :
                             /\ Unexecuted(s, d, K)
                             /\ s.clientBlock + K <= s.currentBlock
                             /\ Receiving(z, s, d, R, K) \/ Received(z, s, d, R, K)
      BY DEF Sending
    <3>1. /\ ~s.fallback /\ ~s.wwwing /\ ~d.wwwDl
          /\ s.xmitBlock <= s.currentBlock
          /\ 2 * s.clientBlock < Numbers + 2
          /\ \A k \in 1 .. Len(R) : R[k].kind # "redirect"
      BY <1>2, <2>1 DEF Sending
    <3>2. PICK K \in 0 .. C - p :
                /\ Unexecuted(s, c, K)
                /\ s.clientBlock + K <= s.currentBlock
                /\ Receiving(z, s, c, L, K) \/ Received(z, s, c, L, K)
      BY <2>1 DEF Sending, C, p
    <3>3. Received(z, s, c, L, K) BY <1>1, <3>2 DEF Receiving
    <3>4. K \in 0 .. Len(d.commands) - p /\ K \in Nat /\ p + K < C /\ p + K < Len(d.commands)
      <4>1. p + K < C BY <3>3 DEF Received, p, C
      <4> QED BY <1>10, <3>2, <4>1
    <3>5. Unexecuted(s, d, K)
      <4>1. \A k \in 1 .. K : p + k \in 1 .. C /\ p + k # C + 1 /\ p + k \in 1 .. Len(d.commands)
        BY <1>10, <3>4
      <4>2. \A k \in p + K + 1 .. Len(d.commands) :
              k \in 1 .. Len(d.commands) /\ (k \in 1 .. C => k \in p + K + 1 .. C)
        BY <1>10, <3>4
      <4>3. \A k \in 1 .. K : d.commands[p + k] = Command("nextdl", s.clientBlock + k - 1)
        BY <1>7, <3>2, <4>1 DEF Unexecuted, p
      <4>4. \A k \in p + K + 1 .. Len(d.commands) : d.commands[k].name \in {"download", "donedl", "stopdl"}
        BY <1>4, <1>7, <3>2, <4>2 DEF Unexecuted, p, C
      <4> QED BY <4>3, <4>4 DEF Unexecuted, p
    <3>6. Received(z, s, d, R, K) BY <1>8, <3>3, <3>4 DEF Received, p
    <3> QED BY <3>1, <3>2, <3>4, <3>5, <3>6 DEF p
  <2>3. NotSending(s, d, R) BY <1>4, <1>7, <1>8, <2>1 DEF NotSending, p
  <2>4. Closed(s, d, R)
    <3>1. p = C => s.downloadName = None
      <4> SUFFICES ASSUME p = C PROVE s.downloadName = None OBVIOUS
      <4>1. c.commands[p] = Last(c) /\ Waits(Last(c)) BY <1>5 DEF Last, C, Waits
      <4> QED BY <1>10, <2>1, <4>1 DEF Closed, p
    <3>2. Gamestates(d, R) => Gamestates(c, L) BY <1>2 DEF Gamestates
    <3> QED BY <1>1, <1>3, <1>4, <1>6, <2>1, <3>1, <3>2, ClosedKept DEF p, C
  <2>5. Unanswered(s, d)
    <3>1. \A k \in Pending(s, c) : c.commands[k] # WwwDl("fail")
      <4>1. Last(c) # WwwDl("fail") BY <1>5, <1>9
      <4> QED BY <2>1, <4>1 DEF Unanswered, Last
    <3>2. 1 = 2 => x.name # "donedl" /\ x # WwwDl("fail") OBVIOUS
    <3> QED BY <1>1, <1>3, <1>4, <1>6, <2>1, <3>1, <3>2, UnansweredKept DEF p, C
  <2>6. RedirectKnown(s, d, R) => RedirectKnown(s, c, L)
    <3>1. (\E k \in Pending(s, d) : d.commands[k].name = "wwwdl")
            => \E k \in Pending(s, c) : c.commands[k].name = "wwwdl"
      BY <1>4, <1>7
    <3>2. (\E k \in 1 .. Len(R) : R[k].kind = "redirect")
            => \E k \in 1 .. Len(L) : L[k].kind = "redirect"
      BY <1>2
    <3> QED BY <3>1, <3>2 DEF RedirectKnown
  <2>7. ~s.fallback
    <3> SUFFICES ASSUME s.fallback PROVE FALSE OBVIOUS
    <3>1. FallenBack(s, c, L) BY <2>1 DEF Redirecting
    <3>2. Last(c) = WwwDl("fail") BY <1>1, <3>1 DEF FallenBack
    <3> QED BY <1>5, <1>9, <3>2
  <2> QED BY <2>1, <2>2, <2>3, <2>4, <2>5, <2>6, <2>7 DEF ServerSide, Redirecting
<1> QED BY <1>1, <1>11, <1>12, <1>13 DEF Fresh

\* The client answers a redirect: of the server's part nothing is closed by it.
LEMMA AnswerKeepsServer ==
  ASSUME NEW z \in Sizes, NEW s \in Servers, NEW c \in Clients, NEW d \in Clients,
         NEW L \in Seq(Messages), NEW R \in Seq(Messages),
         ServerSide(z, s, c, L), Shape(c), Busy(Last(c)), s.lastClientCommand <= Len(c.commands),
         NEW n, NEW x, NEW y, Adds(c, d, n, x, y), x.name = "wwwdl",
         n = 2 => x # WwwDl("fail"), y.name # "nextdl",
         ~s.download, Quiet(d, R), ~Gamestates(d, R), RedirectKnown(s, c, L), ~FallenBack(s, c, L)
  PROVE  ServerSide(z, s, d, R)
<1> DEFINE C == Len(c.commands)
<1>1. /\ NotSending(s, c, L) /\ Closed(s, c, L) /\ Unanswered(s, c) /\ Redirecting(s, c, L)
  BY DEF ServerSide
<1>2. /\ \A i \in Pending(s, d) :
           (i \in Pending(s, c) /\ d.commands[i] = c.commands[i])
             \/ (i = C + 1 /\ d.commands[i] = x) \/ (i = C + n /\ d.commands[i] = y)
      /\ s.lastClientCommand >= 1 =>
              d.commands[s.lastClientCommand] = c.commands[s.lastClientCommand]
  BY AddsFacts
<1>3. Sending(z, s, d, R) BY DEF Sending
<1>4. NotSending(s, d, R)
  <2>1. \A i \in Pending(s, d) : d.commands[i].name # "nextdl" BY <1>1, <1>2 DEF NotSending
  <2> QED BY <1>1, <1>2, <2>1 DEF NotSending
<1>5. Closed(s, d, R) BY <1>1, ClosedKept
<1>6. Unanswered(s, d)
  <2>1. \A i \in Pending(s, c) : c.commands[i].name # "donedl" /\ c.commands[i] # WwwDl("fail")
    BY <1>1, BusyAsks
  <2> QED BY <1>1, <2>1, UnansweredKept
<1>7. s.wwwDl /\ ~s.fallback BY <1>1 DEF Redirecting
<1> QED BY <1>3, <1>4, <1>5, <1>6, <1>7 DEF ServerSide, Redirecting

\* A redirect comes, and the client takes it or refuses it at once.
LEMMA ReferredFresh ==
  ASSUME NEW z \in Sizes, NEW s \in Servers, NEW c \in Clients, NEW d \in Clients,
         NEW L \in Seq(Messages), NEW R \in Seq(Messages), NEW i, Reads(z, s, c, d, L, R, i),
         L[i].kind = "redirect", c.downloadName # None, ~c.wwwDl,
         d.downloadName = c.downloadName, d.block = c.block, d.file = c.file, d.wwwDl, ~d.loads,
         NEW n, NEW y, Adds(c, d, n, WwwDl("ack"), y),
         \/ n = 1 /\ y = WwwDl("ack") /\ d.web # None /\ d.aborting = c.aborting
         \/ n = 2 /\ y = WwwDl("fail") /\ d.web = None /\ d.aborting
  PROVE  Fresh(z, s, d, R)
<1> DEFINE x == WwwDl("ack")
           C == Len(c.commands)
<1>1. /\ i \in 1 .. Len(L) /\ d.acknowledged = L[i].ack /\ c.acknowledged <= L[i].ack
      /\ Fresh(z, s, c, L) /\ ~c.loads /\ s.lastClientCommand <= Len(c.commands)
  BY DEF Reads
<1>2. /\ i \in Nat
      /\ \A k \in 1 .. Len(R) :
           /\ k + i \in 1 .. Len(L) /\ k + i \in i + 1 .. Len(L) /\ R[k] = L[k + i]
           /\ Live(c, R, k) => Live(c, L, k + i)
           /\ \A j \in k + 1 .. Len(R) : j + i \in k + i + 1 .. Len(L) /\ R[j] = L[j + i]
      /\ Quiet(c, L) => Quiet(c, R)
  BY ReadsFacts
<1>3. /\ NoRedirects(s, c, L) /\ Shape(c) /\ InWindow(c) /\ AsAsked(c) /\ LinkOrder(c, L)
      /\ Written(z, c)
  BY <1>1 DEF Fresh, ClientSide
<1>4. /\ Quiet(c, L) /\ Quiet(c, R) /\ c.block = 0 BY <1>1, <1>2, <1>3 DEF LinkOrder, Quiet
<1>5. /\ ~c.aborting /\ c.web = None /\ Last(c).name = "download"
  BY <1>1, <1>3, <1>4, LastCommand
<1>6. /\ x.name = "wwwdl" /\ y.name = "wwwdl" /\ WwwDl("ack") # WwwDl("fail")
      /\ WwwDl("ack") # WwwDl("done") /\ WwwDl("fail") # WwwDl("done")
      /\ WwwDl("fail").name = "wwwdl" /\ WwwDl("ack").name = "wwwdl"
  BY DEF WwwDl, Command
<1>7. \A k \in 1 .. Len(R) : L[k + i].kind = R[k].kind /\ R[k].kind # "gamestate"
  <2>1. ~Waits(Last(c)) BY <1>5, <1>6 DEF Waits
  <2> QED BY <1>2, <1>3, <2>1 DEF LinkOrder
<1>8. /\ Last(d) = y
      /\ \A k \in 1 .. Len(d.commands) :
              (k \in 1 .. C /\ d.commands[k] = c.commands[k])
                \/ (k = C + 1 /\ d.commands[k] = x)
                \/ (k = C + n /\ d.commands[k] = y)
      /\ Follows(Last(c), x) /\ (n = 2 => Follows(x, y)) => Shape(d)
  BY <1>1, <1>3, AddsFacts
<1>9. Quiet(d, R)
  <2>1. \A k \in 1 .. Len(R) : Live(d, R, k) => Live(c, R, k) BY DEF Live
  <2> QED BY <1>4, <2>1 DEF Quiet
<1> HIDE DEF x, C
<1>10. ClientSide(z, d, R)
  <2> USE DEF ClientSide
  <2>1. Shape(d)
    <3>1. Last(c) # WwwDl("ack") /\ Last(c) # WwwDl("done") /\ Last(c) # WwwDl("fail")
      <4>1. \A a : WwwDl(a).name = "wwwdl" BY DEF WwwDl, Command
      <4> QED BY <1>5, <4>1
    <3>2. Follows(Last(c), x) BY <1>5, <3>1 DEF Follows, x
    <3>3. n = 2 => Follows(x, y) BY <1>6 DEF Follows, x
    <3> QED BY <1>8, <3>2, <3>3
  <2>2. AsAsked(d) BY <1>4, <1>5, <1>6, <1>8 DEF AsAsked, LeftBy
  <2>3. Written(z, d) BY <1>3 DEF Written
  <2>4. Expected(z, d, R) BY <1>9 DEF Expected, Quiet
  <2>5. InWindow(d)
    <3>1. c.acknowledged <= d.acknowledged /\ x.name # "nextdl" /\ y.name # "nextdl" BY <1>1, <1>6
    <3> QED BY <1>1, <1>3, <3>1, InWindowKept DEF x
  <2>6. LinkOrder(d, R)
    <3>1. \A k \in 1 .. Len(R) : R[k].kind = "redirect" => \A j \in k + 1 .. Len(R) : ~IsBlock(R, j)
      <4> SUFFICES ASSUME NEW k \in 1 .. Len(R), R[k].kind = "redirect", NEW j \in k + 1 .. Len(R)
                   PROVE  ~IsBlock(R, j)
        OBVIOUS
      <4>1. /\ k + i \in 1 .. Len(L) /\ L[k + i].kind = "redirect"
            /\ j + i \in k + i + 1 .. Len(L) /\ R[j] = L[j + i]
        BY <1>2
      <4>2. ~IsBlock(L, j + i) BY <1>3, <4>1 DEF LinkOrder
      <4> QED BY <4>1, <4>2 DEF IsBlock
    <3> QED BY <1>7, <1>9, <3>1 DEF LinkOrder
  <2> QED BY <2>1, <2>2, <2>3, <2>4, <2>5, <2>6
<1>11. s.redirects BY <1>1, <1>3 DEF NoRedirects
<1>12. NoRedirects(s, d, R) BY <1>11 DEF NoRedirects
<1>13. ASSUME s.dropped = "no" PROVE ServerSide(z, s, d, R)
  <2>1. ServerSide(z, s, c, L) BY <1>1, <1>13 DEF Fresh
  <2>2. ~s.download BY <1>1, <2>1 DEF ServerSide, Sending
  <2>3. ~FallenBack(s, c, L) BY <1>1, <1>5, <1>6 DEF FallenBack
  <2>4. RedirectKnown(s, c, L)
    <3>1. ~s.fallback BY <2>1, <2>3 DEF ServerSide, Redirecting
    <3> QED BY <1>1, <3>1 DEF RedirectKnown
  <2>5. ~Gamestates(d, R) BY <1>7 DEF Gamestates
  <2>6. Busy(Last(c)) /\ y.name # "nextdl" BY <1>5, <1>6 DEF Busy
  <2> QED BY <1>1, <1>3, <1>6, <1>9, <2>1, <2>2, <2>3, <2>4, <2>5, <2>6, AnswerKeepsServer DEF x
<1> QED BY <1>1, <1>10, <1>12, <1>13 DEF Fresh

\* A web download ends.
LEMMA WebFresh ==
  ASSUME NEW z \in Sizes, NEW s \in Servers, NEW c \in Clients, NEW d \in Clients,
         NEW L \in Seq(Messages), Fresh(z, s, c, L), s.lastClientCommand <= Len(c.commands),
         c.web # None, d.acknowledged = c.acknowledged, ~d.loads, d.web = None,
         NEW n, NEW x, NEW y, Adds(c, d, n, x, y),
         \/ /\ n = 1 /\ x = WwwDl("fail") /\ y = x /\ d.downloadName = c.downloadName
            /\ d.block = c.block /\ d.file = c.file /\ d.wwwDl = c.wwwDl /\ d.aborting
         \/ /\ n = 2 /\ x = WwwDl("done") /\ ~d.wwwDl /\ d.aborting = c.aborting
            /\ \/ d.downloadName = None /\ y = Command("donedl", None)
               \/ \E f \in Files : /\ d.downloadName = f /\ d.block = 0 /\ d.file = <<>>
                                   /\ y = Command("download", f)
  PROVE  Fresh(z, s, d, L)
<1> DEFINE C == Len(c.commands)
<1>1. /\ NoRedirects(s, c, L) /\ Shape(c) /\ InWindow(c) /\ AsAsked(c) /\ LinkOrder(c, L)
      /\ Written(z, c)
  BY DEF Fresh, ClientSide
<1>2. ~c.loads BY <1>1 DEF AsAsked
<1>3. /\ Last(c) = WwwDl("ack") /\ c.wwwDl /\ ~c.aborting /\ c.downloadName # None /\ c.block = 0
  BY <1>1, <1>2, LastCommand
<1>4. Quiet(c, L) BY <1>1, <1>3 DEF LinkOrder
<1>5. \A a : /\ WwwDl(a).name = "wwwdl" /\ WwwDl(a).arg = a
             /\ Command("download", a).name = "download" /\ Command("download", a).arg = a
             /\ Command("donedl", a).name = "donedl"
  BY DEF WwwDl, Command
<1>6. WwwDl("ack") # WwwDl("fail") /\ WwwDl("ack") # WwwDl("done") /\ WwwDl("fail") # WwwDl("done")
  BY <1>5
<1>7. \A k \in 1 .. Len(L) : L[k].kind # "gamestate"
  <2>1. ~Waits(Last(c)) BY <1>3, <1>5, <1>6 DEF Waits
  <2> QED BY <1>1, <2>1 DEF LinkOrder
<1>8. /\ Last(d) = y
      /\ Follows(Last(c), x) /\ (n = 2 => Follows(x, y)) => Shape(d)
  BY <1>1, AddsFacts
<1>9. /\ x.name = "wwwdl" /\ y.name \in {"wwwdl", "donedl", "download"} /\ n \in {1, 2}
      /\ n = 2 => x # WwwDl("fail") /\ y.name # "nextdl"
      /\ d.downloadName # None => d.block = 0
  <2>1. CASE n = 1
    <3>1. x = WwwDl("fail") /\ y = x /\ d.downloadName = c.downloadName /\ d.block = c.block BY <2>1
    <3> QED BY <1>3, <1>5, <2>1, <3>1
  <2>2. CASE n = 2
    <3>1. x = WwwDl("done")
          /\ \/ d.downloadName = None /\ y = Command("donedl", None)
             \/ \E f \in Files : d.block = 0 /\ y = Command("download", f)
      BY <2>2
    <3> QED BY <1>5, <1>6, <2>2, <3>1
  <2> QED BY <2>1, <2>2 DEF Adds
<1>10. Quiet(d, L)
  <2>1. d.block = 0 => \A k \in 1 .. Len(L) : Live(d, L, k) => Live(c, L, k) BY <1>3 DEF Live
  <2> QED BY <1>3, <1>4, <1>9, <2>1 DEF Quiet
<1> HIDE DEF C
<1>11. ClientSide(z, d, L)
  <2> USE DEF ClientSide
  <2>1. Shape(d)
    <3>1. Follows(Last(c), x) BY <1>3, <1>5, <1>6 DEF Follows
    <3>2. n = 2 => Follows(x, y) BY <1>5, <1>6 DEF Follows
    <3> QED BY <1>8, <3>1, <3>2
  <2>2. AsAsked(d)
    <3>1. CASE n = 1
      <4>1. /\ x = WwwDl("fail") /\ y = x /\ d.downloadName = c.downloadName /\ d.block = c.block
            /\ d.wwwDl = c.wwwDl /\ d.aborting
        BY <3>1
      <4>2. /\ d.downloadName # None /\ d.block = 0 /\ d.wwwDl /\ d.aborting /\ d.web = None
            /\ Last(d) = WwwDl("fail")
        BY <1>3, <1>8, <4>1
      <4> QED BY <1>5, <1>6, <4>2 DEF AsAsked, LeftBy
    <3>2. CASE n = 2
      <4>1. ~d.wwwDl /\ ~d.aborting /\ d.web = None BY <1>3, <3>2
      <4>2. CASE d.downloadName = None /\ y = Command("donedl", None)
        <5>1. Last(d).name = "donedl" /\ \A a : Last(d) # WwwDl(a) BY <1>5, <1>8, <4>2
        <5> QED BY <4>1, <4>2, <5>1 DEF AsAsked, LeftBy
      <4>3. ASSUME NEW f \in Files, d.downloadName = f, d.block = 0, y = Command("download", f)
            PROVE  AsAsked(d)
        <5>1. Last(d).name = "download" /\ Last(d).arg = f /\ \A a : Last(d) # WwwDl(a)
          BY <1>5, <1>8, <4>3
        <5> QED BY <4>1, <4>3, <5>1 DEF AsAsked, LeftBy
      <4> QED BY <3>2, <4>2, <4>3
    <3> QED BY <1>9, <3>1, <3>2
  <2>3. Written(z, d)
    <3>1. CASE n = 1 BY <1>1, <3>1 DEF Written
    <3>2. CASE n = 2
      <4>1. \A f \in Files : z[f] \in Nat /\ 0 <= z[f] BY DownloadAssumption DEF Sizes
      <4> QED BY <3>2, <4>1 DEF Written
    <3> QED BY <1>9, <3>1, <3>2
  <2>4. Expected(z, d, L) BY <1>10 DEF Expected, Quiet
  <2>5. InWindow(d)
    <3>1. c.acknowledged <= d.acknowledged
      <4>1. c.acknowledged \in Nat BY DEF Clients
      <4> QED BY <4>1
    <3> QED BY <1>1, <1>9, <3>1, InWindowKept
  <2>6. LinkOrder(d, L) BY <1>1, <1>7, <1>10 DEF LinkOrder
  <2> QED BY <2>1, <2>2, <2>3, <2>4, <2>5, <2>6
<1>12. NoRedirects(s, d, L) BY <1>1, <1>3 DEF NoRedirects
<1>13. ASSUME s.dropped = "no" PROVE ServerSide(z, s, d, L)
  <2>1. ServerSide(z, s, c, L) BY <1>13 DEF Fresh
  <2>2. ~s.download BY <1>3, <2>1 DEF ServerSide, Sending
  <2>3. ~FallenBack(s, c, L) BY <1>3, <1>6 DEF FallenBack
  <2>4. RedirectKnown(s, c, L)
    <3>1. ~s.fallback BY <2>1, <2>3 DEF ServerSide, Redirecting
    <3> QED BY <3>1 DEF RedirectKnown
  <2>5. ~Gamestates(d, L) BY <1>7 DEF Gamestates
  <2>6. Busy(Last(c)) /\ y.name # "nextdl" BY <1>3, <1>9 DEF Busy
  <2> QED BY <1>1, <1>9, <1>10, <2>1, <2>2, <2>3, <2>4, <2>5, <2>6, AnswerKeepsServer
<1> QED BY <1>11, <1>12, <1>13 DEF Fresh

\* A block comes that the client takes: it is of its file, and the server
\* sends that file.
Takes(c, L, i) == IsBlock(L, i) /\ c.downloadName # None /\ L[i].number = c.block

\* What is known when it comes.
LEMMA TakesFacts ==
  ASSUME NEW z \in Sizes, NEW s \in Servers, NEW c \in Clients, NEW d \in Clients,
         NEW L \in Seq(Messages), NEW R \in Seq(Messages), NEW i, Reads(z, s, c, d, L, R, i),
         Takes(c, L, i)
  PROVE  /\ ExpectedAt(z, c, L, i) /\ c.block \in Nat
         /\ ~Quiet(c, L) /\ ~c.wwwDl /\ ~c.aborting /\ c.web = None
         /\ \A k \in 1 .. Len(L) : L[k].kind \notin {"redirect", "gamestate"}
         /\ Busy(Last(c)) /\ Follows(Last(c), Command("nextdl", c.block))
         /\ \A k \in 1 .. Len(R) : IsBlock(R, k) => Live(c, L, k + i)
         /\ s.dropped = "no" =>
              /\ s.download /\ s.downloadName = c.downloadName
              /\ c.block < s.currentBlock
              /\ c.block = z[s.downloadName] => Begins(s)
<1>1. /\ i \in 1 .. Len(L) /\ Fresh(z, s, c, L) /\ ~c.loads /\ s.lastClientCommand <= Len(c.commands)
      /\ s.download => s.downloadName # None
  BY DEF Reads
<1>2. /\ i \in Nat
      /\ \A k \in 1 .. Len(R) : k + i \in 1 .. Len(L) /\ k + i \in i + 1 .. Len(L) /\ R[k] = L[k + i]
  BY ReadsFacts
<1>3. /\ Shape(c) /\ AsAsked(c) /\ LinkOrder(c, L) /\ Expected(z, c, L)
  BY <1>1 DEF Fresh, ClientSide
<1>4. c.block \in Nat /\ IsBlock(L, i) /\ c.downloadName # None /\ L[i].number = c.block
  BY DEF Clients, Takes
<1>5. Live(c, L, i)
  <2>1. CASE c.block > 0 BY <1>4, <2>1 DEF Live
  <2>2. CASE c.block = 0
    <3>1. i \in 1 .. i BY <1>1, <1>2
    <3> QED BY <1>4, <2>2, <3>1 DEF Live
  <2> QED BY <1>4, <2>1, <2>2
<1>6. ExpectedAt(z, c, L, i) BY <1>1, <1>3, <1>4, <1>5 DEF Expected
<1>7. ~Quiet(c, L) BY <1>1, <1>4, <1>5 DEF Quiet
<1>8. ~c.wwwDl BY <1>3, <1>7 DEF LinkOrder
<1>9. /\ ~c.aborting /\ c.web = None
      /\ \/ c.block = 0 /\ Last(c).name = "download"
         \/ c.block > 0 /\ Last(c) = Command("nextdl", c.block - 1)
  BY <1>1, <1>3, <1>4, <1>8, LastCommand
<1>10. \A a : WwwDl(a).name = "wwwdl" BY DEF WwwDl, Command
<1>11. /\ Last(c).name \in {"download", "nextdl"}
       /\ Last(c) # WwwDl("ack") /\ Last(c) # WwwDl("done") /\ Last(c) # WwwDl("fail")
  <2>1. \A b : Command("nextdl", b).name = "nextdl" BY DEF Command
  <2>2. Last(c).name \in {"download", "nextdl"} BY <1>9, <2>1
  <2> QED BY <1>10, <2>2
<1>12. Busy(Last(c)) /\ ~Waits(Last(c)) BY <1>11 DEF Busy, Waits
<1>13. Follows(Last(c), Command("nextdl", c.block))
  <2>1. CASE c.block = 0 /\ Last(c).name = "download" BY <1>11, <2>1 DEF Follows
  <2>2. CASE c.block > 0 /\ Last(c) = Command("nextdl", c.block - 1)
    <3>1. Last(c).name = "nextdl" /\ Last(c).arg + 1 = c.block BY <1>4, <2>2 DEF Command
    <3> QED BY <1>11, <3>1 DEF Follows
  <2> QED BY <1>9, <2>1, <2>2
<1>14. \A k \in 1 .. Len(L) : L[k].kind \notin {"redirect", "gamestate"}
  BY <1>3, <1>7, <1>12 DEF LinkOrder
<1>15. ASSUME NEW k \in 1 .. Len(R), IsBlock(R, k) PROVE Live(c, L, k + i)
  <2>1. IsBlock(L, k + i) BY <1>2, <1>15 DEF IsBlock
  <2>2. i \in 1 .. k + i BY <1>1, <1>2
  <2>3. c.block > 0 \/ c.block = 0 BY <1>4
  <2> QED BY <1>4, <2>1, <2>2, <2>3 DEF Live
<1>16. ASSUME s.dropped = "no"
       PROVE  /\ s.download /\ s.downloadName = c.downloadName
              /\ c.block < s.currentBlock
              /\ c.block = z[s.downloadName] => Begins(s)
  <2>1. Sending(z, s, c, L) /\ NotSending(s, c, L) BY <1>1, <1>16 DEF Fresh, ServerSide
  <2>2. s.download BY <1>7, <2>1 DEF NotSending
  <2>3. PICK K \in 0 .. Len(c.commands) - s.lastClientCommand :
               Receiving(z, s, c, L, K) \/ Received(z, s, c, L, K)
    BY <2>1, <2>2 DEF Sending
  <2>4. Receiving(z, s, c, L, K) BY <1>7, <2>3 DEF Received
  <2> QED BY <1>1, <1>4, <1>5, <2>2, <2>4 DEF Receiving
<1> QED BY <1>4, <1>6, <1>7, <1>8, <1>9, <1>12, <1>13, <1>14, <1>15, <1>16

\* What the server knows of it.
LEMMA TakenServer ==
  ASSUME NEW z \in Sizes, NEW s \in Servers, NEW c \in Clients, NEW d \in Clients,
         NEW L \in Seq(Messages), NEW R \in Seq(Messages), NEW i, Reads(z, s, c, d, L, R, i),
         Takes(c, L, i), s.dropped = "no", NEW n, NEW x, NEW y, Adds(c, d, n, x, y),
         x = Command("nextdl", c.block), n = 2 => y.name \in {"donedl", "download"},
         ~d.wwwDl, d.web = None, ~d.loads,
         \A K \in Nat : Receiving(z, s, c, L, K) =>
            Receiving(z, s, d, R, K + 1) \/ Received(z, s, d, R, K + 1)
  PROVE  ServerSide(z, s, d, R)
<1> DEFINE p == s.lastClientCommand
           C == Len(c.commands)
           D == Len(d.commands)
<1>1. /\ i \in 1 .. Len(L) /\ Fresh(z, s, c, L) /\ ~c.loads /\ p <= C BY DEF Reads
<1>2. /\ ~Quiet(c, L) /\ Busy(Last(c))
      /\ \A k \in 1 .. Len(L) : L[k].kind \notin {"redirect", "gamestate"}
      /\ s.download /\ s.downloadName = c.downloadName /\ c.block < s.currentBlock
      /\ c.block \in Nat
  BY TakesFacts
<1>3. /\ Sending(z, s, c, L) /\ Closed(s, c, L) /\ Unanswered(s, c) /\ Redirecting(s, c, L) /\ Shape(c)
  BY <1>1 DEF Fresh, ServerSide, ClientSide
<1>4. x.name = "nextdl" /\ \A a : WwwDl(a).name = "wwwdl" BY DEF WwwDl, Command
<1>5. \A k \in 1 .. Len(R) : R[k].kind \notin {"redirect", "gamestate"}
  <2>1. \A k \in 1 .. Len(R) : k + i \in 1 .. Len(L) /\ R[k] = L[k + i] BY ReadsFacts
  <2> QED BY <1>2, <2>1
<1>6. /\ \A k \in 1 .. Len(d.commands) :
              (k \in 1 .. C /\ d.commands[k] = c.commands[k])
                \/ (k = C + 1 /\ d.commands[k] = x) \/ (k = C + n /\ d.commands[k] = y)
      /\ \A k \in Pending(s, d) :
              (k \in Pending(s, c) /\ d.commands[k] = c.commands[k])
                \/ (k = C + 1 /\ d.commands[k] = x) \/ (k = C + n /\ d.commands[k] = y)
  BY <1>1, <1>3, AddsFacts
<1>7. /\ p \in Nat /\ C \in Nat /\ D \in Nat /\ n \in {1, 2} /\ (n = 1 => x = y) /\ D = C + n
      /\ \A k \in 1 .. C : d.commands[k] = c.commands[k]
      /\ d.commands[C + 1] = x /\ d.commands[C + n] = y
      /\ s.clientBlock \in Nat
  BY CommandTypes DEF Servers, Adds
<1>8. /\ ~s.fallback /\ ~s.wwwing /\ s.xmitBlock <= s.currentBlock /\ 2 * s.clientBlock < Numbers + 2
  BY <1>2, <1>3 DEF Sending
<1>9. PICK K \in 0 .. C - p : /\ Unexecuted(s, c, K)
                              /\ Receiving(z, s, c, L, K) \/ Received(z, s, c, L, K)
  BY <1>2, <1>3 DEF Sending
<1>10. Receiving(z, s, c, L, K) BY <1>2, <1>9 DEF Received
<1>11. p + K = C /\ c.block = s.clientBlock + K /\ K \in Nat BY <1>7, <1>9, <1>10 DEF Receiving
<1> HIDE DEF p, C, D
<1>12. Sending(z, s, d, R)
  <2>1. K + 1 \in 0 .. D - p BY <1>7, <1>11
  <2>2. s.clientBlock + (K + 1) <= s.currentBlock
    <3>1. s.currentBlock \in Nat BY DEF Servers
    <3> QED BY <1>2, <1>7, <1>11, <3>1
  <2>3. Unexecuted(s, d, K + 1)
    <3>1. ASSUME NEW k \in 1 .. K + 1
          PROVE  d.commands[p + k] = Command("nextdl", s.clientBlock + k - 1)
      <4>1. CASE k <= K
        <5>1. k \in 1 .. K /\ p + k \in 1 .. C BY <1>7, <1>11, <4>1
        <5>2. c.commands[p + k] = Command("nextdl", s.clientBlock + k - 1)
          BY <1>9, <5>1 DEF Unexecuted, p
        <5> QED BY <1>7, <5>1, <5>2
      <4>2. CASE k = K + 1
        <5>1. p + k = C + 1 /\ s.clientBlock + k - 1 = c.block BY <1>7, <1>11, <4>2
        <5> QED BY <1>7, <5>1
      <4> QED BY <1>11, <4>1, <4>2
    <3>2. ASSUME NEW k \in p + (K + 1) + 1 .. D
          PROVE  d.commands[k].name \in {"download", "donedl", "stopdl"}
      <4>1. n = 2 /\ k = C + 2 BY <1>7, <1>11, <3>2
      <4> QED BY <1>7, <4>1
    <3> QED BY <3>1, <3>2 DEF Unexecuted, p, D
  <2>4. Receiving(z, s, d, R, K + 1) \/ Received(z, s, d, R, K + 1) BY <1>10, <1>11
  <2> HIDE DEF Sending
  <2>5. \E J \in 0 .. D - p :
          /\ Unexecuted(s, d, J)
          /\ s.clientBlock + J <= s.currentBlock
          /\ Receiving(z, s, d, R, J) \/ Received(z, s, d, R, J)
    BY <2>1, <2>2, <2>3, <2>4
  <2> QED BY <1>5, <1>8, <2>5 DEF Sending, D, p
<1>13. NotSending(s, d, R) BY <1>2 DEF NotSending
<1>14. ~Gamestates(d, R) BY <1>5 DEF Gamestates
<1>15. Closed(s, d, R)
  <2>1. x.name \notin {"download", "donedl", "stopdl"} BY <1>4
  <2> QED BY <1>1, <1>3, <1>14, <2>1, ClosedKept DEF p, C
<1>16. Unanswered(s, d)
  <2>1. \A k \in Pending(s, c) : c.commands[k].name # "donedl" /\ c.commands[k] # WwwDl("fail")
    BY <1>2, <1>3, BusyAsks
  <2>2. x.name # "donedl" /\ x # WwwDl("fail") BY <1>4
  <2> QED BY <1>1, <1>3, <2>1, <2>2, UnansweredKept DEF p, C
<1>17. RedirectKnown(s, d, R) => s.wwwDl
  <2> SUFFICES ASSUME RedirectKnown(s, d, R) PROVE s.wwwDl OBVIOUS
  <2>1. PICK k \in Pending(s, d) : d.commands[k].name = "wwwdl" BY <1>5 DEF RedirectKnown
  <2>2. y.name # "wwwdl" BY <1>4, <1>7
  <2>3. k \in Pending(s, c) /\ c.commands[k].name = "wwwdl" BY <1>4, <1>6, <2>1, <2>2
  <2> QED BY <1>3, <2>3 DEF RedirectKnown, Redirecting
<1> QED BY <1>8, <1>12, <1>13, <1>15, <1>16, <1>17 DEF ServerSide, Redirecting

\* The next block of the file is written and acknowledged.
LEMMA WrittenFresh ==
  ASSUME NEW z \in Sizes, NEW s \in Servers, NEW c \in Clients, NEW d \in Clients,
         NEW L \in Seq(Messages), NEW R \in Seq(Messages), NEW i, Reads(z, s, c, d, L, R, i),
         Takes(c, L, i), c.block # z[c.downloadName],
         NEW x, x = Command("nextdl", c.block), Adds(c, d, 1, x, x),
         d.downloadName = c.downloadName, d.block = c.block + 1,
         d.file = Append(c.file, L[i].data),
         d.wwwDl = c.wwwDl, d.aborting = c.aborting, d.web = c.web, ~d.loads
  PROVE  Fresh(z, s, d, R)
<1> DEFINE C == Len(c.commands)
<1>1. /\ i \in 1 .. Len(L) /\ d.acknowledged = L[i].ack /\ c.acknowledged <= L[i].ack
      /\ Fresh(z, s, c, L) /\ ~c.loads /\ s.lastClientCommand <= C
      /\ s.dropped # "no" => ~s.download
  BY DEF Reads
<1>2. /\ i \in Nat /\ L[i] \in Messages
      /\ \A k \in 1 .. Len(R) : k + i \in 1 .. Len(L) /\ R[k] = L[k + i]
                                /\ (NoFirstBlock(L, k + i) => NoFirstBlock(R, k))
  BY ReadsFacts
<1>3. /\ NoRedirects(s, c, L) /\ Shape(c) /\ InWindow(c) /\ Written(z, c) /\ Expected(z, c, L)
  BY <1>1 DEF Fresh, ClientSide
<1>4. /\ ExpectedAt(z, c, L, i) /\ c.block \in Nat
      /\ ~c.wwwDl /\ ~c.aborting /\ c.web = None
      /\ \A k \in 1 .. Len(L) : L[k].kind \notin {"redirect", "gamestate"}
      /\ Follows(Last(c), x)
      /\ \A k \in 1 .. Len(R) : IsBlock(R, k) => Live(c, L, k + i)
  BY TakesFacts
<1>5. c.downloadName # None /\ c.downloadName \in Files /\ L[i].number = c.block
  BY DEF Takes, Clients
<1>6. z[c.downloadName] \in Nat /\ W \in Nat /\ Numbers \in Nat
  BY <1>5, DownloadAssumption DEF Sizes, W
<1>7. x.name = "nextdl" /\ x.arg = c.block /\ \A a : WwwDl(a).name = "wwwdl"
  BY DEF WwwDl, Command
<1>8. \A k \in 1 .. Len(R) : R[k].kind \notin {"redirect", "gamestate"} BY <1>2, <1>4
<1>9. /\ Last(d) = x
      /\ \A k \in 1 .. Len(d.commands) :
           (k \in 1 .. C /\ d.commands[k] = c.commands[k]) \/ (k = C + 1 /\ d.commands[k] = x)
      /\ Follows(Last(c), x) => Shape(d)
  BY <1>1, <1>3, AddsOne
<1>10. /\ C \in Nat /\ Len(d.commands) = C + 1 /\ Len(c.commands) = C
       /\ \A k \in 1 .. C : c.commands[k].name = "nextdl" => c.commands[k].arg \in Nat
  BY CommandTypes DEF Adds
<1> HIDE DEF C
<1>11. ClientSide(z, d, R)
  <2> USE DEF ClientSide
  <2>1. Shape(d) BY <1>4, <1>9
  <2>2. AsAsked(d)
    <3>1. Last(d) # WwwDl("ack") /\ Last(d) # WwwDl("done") /\ Last(d) # WwwDl("fail")
      BY <1>7, <1>9
    <3> QED BY <1>4, <1>5, <1>7, <1>9, <3>1 DEF AsAsked, LeftBy
  <2>3. Written(z, d)
    <3> DEFINE F == c.file
               m == L[i].data
    <3>1. /\ c.block <= z[c.downloadName] /\ Len(F) = c.block
          /\ \A k \in 1 .. Len(F) : F[k] = Block(c.downloadName, k - 1)
      BY <1>3, <1>5 DEF Written
    <3>2. F \in Seq(Blocks) /\ m \in Blocks
      <4>1. L[i].kind = "block" BY DEF Takes, IsBlock
      <4> QED BY <1>2, <4>1 DEF Clients, Messages
    <3>3. m = Block(c.downloadName, c.block) BY <1>4, <1>5 DEF ExpectedAt
    <3> HIDE DEF F, m
    <3>4. /\ Len(Append(F, m)) = Len(F) + 1 /\ Append(F, m)[Len(F) + 1] = m
          /\ \A k \in 1 .. Len(F) : Append(F, m)[k] = F[k]
      BY <3>2, AppendProperties
    <3>5. c.block + 1 <= z[c.downloadName] BY <1>4, <1>6, <3>1
    <3>6. \A k \in 1 .. c.block + 1 : k \in 1 .. c.block \/ (k = c.block + 1 /\ k - 1 = c.block)
      <4>1. c.block \in Nat BY <1>4
      <4> QED BY <4>1
    <3>7. \A k \in 1 .. c.block + 1 : Append(F, m)[k] = Block(c.downloadName, k - 1)
      BY <3>1, <3>3, <3>4, <3>6
    <3>8. d.file = Append(F, m) BY DEF F, m
    <3> QED BY <3>1, <3>4, <3>5, <3>7, <3>8 DEF Written
  <2>4. Expected(z, d, R)
    <3> SUFFICES ASSUME NEW k \in 1 .. Len(R), Live(d, R, k) PROVE ExpectedAt(z, d, R, k)
      BY DEF Expected
    <3>1. Live(c, L, k + i) /\ R[k] = L[k + i] /\ R[k] \in Messages /\ R[k].kind = "block"
          /\ (NoFirstBlock(L, k + i) => NoFirstBlock(R, k))
      <4>1. IsBlock(R, k) BY DEF Live
      <4>2. Live(c, L, k + i) BY <1>4, <4>1
      <4>3. R[k] \in Messages OBVIOUS
      <4> QED BY <1>2, <4>1, <4>2, <4>3 DEF IsBlock
    <3>2. ExpectedAt(z, c, L, k + i) BY <1>2, <1>3, <1>5, <3>1 DEF Expected
    <3> DEFINE b == R[k].number
    <3>3. b \in Int /\ R[k].ack \in Nat BY <3>1, DownloadAssumption DEF Messages
    <3>4. /\ b >= c.block => R[k].data = Block(c.downloadName, b) /\ b <= z[c.downloadName]
          /\ b < c.block + W
          /\ 2 * b < Numbers
          /\ b = z[c.downloadName] => NoFirstBlock(R, k)
          /\ \A j \in R[k].ack + 1 .. C : c.commands[j].name = "nextdl" =>
               c.commands[j].arg < c.block /\ b < c.commands[j].arg + W
      BY <3>1, <3>2 DEF ExpectedAt, C
    <3>5. (b >= c.block + 1 => b >= c.block) /\ (b < c.block + W => b < c.block + 1 + W)
      BY <1>4, <1>6, <3>3
    <3>6. ASSUME NEW j \in R[k].ack + 1 .. Len(d.commands), d.commands[j].name = "nextdl"
          PROVE  d.commands[j].arg < c.block + 1 /\ b < d.commands[j].arg + W
      <4>1. j \in 1 .. Len(d.commands) /\ j \in Nat BY <1>10, <3>3
      <4>2. CASE j \in 1 .. C /\ d.commands[j] = c.commands[j]
        <5>1. j \in R[k].ack + 1 .. C BY <1>10, <3>3, <4>1, <4>2
        <5>2. c.commands[j].arg < c.block /\ b < c.commands[j].arg + W BY <3>4, <3>6, <4>2, <5>1
        <5>3. c.commands[j].arg \in Nat BY <1>10, <3>6, <4>2
        <5> QED BY <1>4, <4>2, <5>2, <5>3
      <4>3. CASE d.commands[j] = x BY <1>4, <1>7, <3>4, <4>3
      <4> QED BY <1>9, <4>1, <4>2, <4>3
    <3> QED BY <3>4, <3>5, <3>6 DEF ExpectedAt
  <2>5. InWindow(d)
    <3>1. c.acknowledged <= d.acknowledged /\ (1 = 2 => x.name # "nextdl") BY <1>1
    <3>2. 2 * x.arg < Numbers BY <1>4, <1>5, <1>7 DEF ExpectedAt
    <3>3. \A k \in d.acknowledged + 1 .. Len(c.commands) : OneWindow(c.commands[k], x)
      BY <1>1, <1>4, <1>5, <1>7 DEF ExpectedAt, OneWindow
    <3> QED BY <1>1, <1>3, <1>10, <3>1, <3>2, <3>3, InWindowKept
  <2>6. LinkOrder(d, R) BY <1>4, <1>8 DEF LinkOrder
  <2> QED BY <2>1, <2>2, <2>3, <2>4, <2>5, <2>6
<1>12. NoRedirects(s, d, R) BY <1>3, <1>4, <1>7, <1>8, <1>9, <1>10 DEF NoRedirects
<1>13. ASSUME s.dropped = "no" PROVE ServerSide(z, s, d, R)
  <2>1. ASSUME NEW K \in Nat, Receiving(z, s, c, L, K) PROVE Receiving(z, s, d, R, K + 1)
    <3>1. /\ s.lastClientCommand + K = Len(c.commands)
          /\ c.downloadName = s.downloadName /\ c.block = s.clientBlock + K
          /\ \A k \in 1 .. Len(L) : Live(c, L, k) =>
               L[k].number < s.currentBlock /\ (L[k].number = z[s.downloadName] => Begins(s))
      BY <2>1 DEF Receiving
    <3>2. /\ s.lastClientCommand + (K + 1) = Len(d.commands)
          /\ d.block = s.clientBlock + (K + 1)
      <4>1. s.lastClientCommand \in Nat /\ s.clientBlock \in Nat BY DEF Servers
      <4>2. d.block = c.block + 1 OBVIOUS
      <4>3. s.lastClientCommand + K = C /\ C \in Nat /\ Len(d.commands) = C + 1 BY <1>10, <3>1
      <4>4. s.lastClientCommand + (K + 1) = Len(d.commands) BY <4>1, <4>3
      <4>5. d.block = s.clientBlock + (K + 1)
        <5> DEFINE b == s.clientBlock
        <5>1. b \in Nat /\ c.block = b + K BY <3>1, <4>1
        <5> HIDE DEF b
        <5>2. d.block = b + K + 1 BY <4>2, <5>1
        <5>3. b + K + 1 = b + (K + 1) BY <5>1
        <5> QED BY <5>2, <5>3 DEF b
      <4> QED BY <4>4, <4>5
    <3>3. \A k \in 1 .. Len(R) : Live(d, R, k) =>
             R[k].number < s.currentBlock /\ (R[k].number = z[s.downloadName] => Begins(s))
      <4>1. \A k \in 1 .. Len(R) : Live(d, R, k) => Live(c, L, k + i) BY <1>4 DEF Live
      <4> QED BY <1>2, <3>1, <4>1
    <3> QED BY <3>1, <3>2, <3>3 DEF Receiving
  <2>2. 1 = 2 => x.name \in {"donedl", "download"} OBVIOUS
  <2>3. ~d.wwwDl /\ d.web = None BY <1>4
  <2> QED BY <1>13, <2>1, <2>2, <2>3, TakenServer
<1> QED BY <1>1, <1>11, <1>12, <1>13, TakesFacts DEF Fresh

\* The end of the file comes: it is acknowledged, and the next file or the
\* gamestate is asked for.
LEMMA EndedFresh ==
  ASSUME NEW z \in Sizes, NEW s \in Servers, NEW c \in Clients, NEW d \in Clients,
         NEW L \in Seq(Messages), NEW R \in Seq(Messages), NEW i, Reads(z, s, c, d, L, R, i),
         Takes(c, L, i), c.block = z[c.downloadName],
         NEW x, x = Command("nextdl", c.block), NEW y, Adds(c, d, 2, x, y),
         d.wwwDl = c.wwwDl, d.aborting = c.aborting, d.web = c.web, ~d.loads,
         \/ d.downloadName = None /\ y = Command("donedl", None)
         \/ \E f \in Files : /\ d.downloadName = f /\ d.block = 0 /\ d.file = <<>>
                             /\ y = Command("download", f)
  PROVE  Fresh(z, s, d, R)
<1> DEFINE C == Len(c.commands)
<1>1. /\ i \in 1 .. Len(L) /\ d.acknowledged = L[i].ack /\ c.acknowledged <= L[i].ack
      /\ Fresh(z, s, c, L) /\ ~c.loads /\ s.lastClientCommand <= C
      /\ s.dropped # "no" => ~s.download
  BY DEF Reads
<1>2. /\ i \in Nat
      /\ \A k \in 1 .. Len(R) : k + i \in i + 1 .. Len(L) /\ k + i \in 1 .. Len(L) /\ R[k] = L[k + i]
  BY ReadsFacts
<1>3. /\ NoRedirects(s, c, L) /\ Shape(c) /\ InWindow(c)
  BY <1>1 DEF Fresh, ClientSide
<1>4. /\ ExpectedAt(z, c, L, i) /\ c.block \in Nat
      /\ ~c.wwwDl /\ ~c.aborting /\ c.web = None
      /\ \A k \in 1 .. Len(L) : L[k].kind \notin {"redirect", "gamestate"}
      /\ Follows(Last(c), x)
  BY TakesFacts
<1>5. c.downloadName # None /\ L[i].number = c.block BY DEF Takes
<1>6. /\ x.name = "nextdl" /\ x.arg = c.block /\ \A a : WwwDl(a).name = "wwwdl"
      /\ \A a : Command("donedl", a).name = "donedl"
      /\ \A a : Command("download", a).name = "download" /\ Command("download", a).arg = a
  BY DEF WwwDl, Command
<1>7. /\ y.name \in {"donedl", "download"}
      /\ y.name = "donedl" => d.downloadName = None
      /\ y.name = "download" => d.downloadName = y.arg /\ d.block = 0 /\ d.file = <<>>
      /\ d.downloadName # None => d.block = 0 /\ d.file = <<>>
  BY <1>6
<1>8. \A k \in 1 .. Len(R) : R[k].kind \notin {"redirect", "gamestate"} BY <1>2, <1>4
<1>9. /\ Last(d) = y
      /\ \A k \in 1 .. Len(d.commands) :
           (k \in 1 .. C /\ d.commands[k] = c.commands[k])
             \/ (k = C + 1 /\ d.commands[k] = x) \/ (k = C + 2 /\ d.commands[k] = y)
      /\ Follows(Last(c), x) /\ (2 = 2 => Follows(x, y)) => Shape(d)
  BY <1>1, <1>3, AddsFacts
<1>10. /\ C \in Nat /\ Len(d.commands) = C + 2 BY CommandTypes DEF Adds
<1>11. Quiet(d, R)
  <2> SUFFICES ASSUME d.block = 0, NEW k \in 1 .. Len(R) PROVE ~Live(d, R, k)
    BY <1>7 DEF Quiet
  <2>1. NoFirstBlock(L, i) BY <1>4, <1>5 DEF ExpectedAt
  <2>2. ASSUME NEW j \in 1 .. k, IsBlock(R, j) PROVE R[j].number # 0
    <3>1. j \in 1 .. Len(R) OBVIOUS
    <3>2. j + i \in i + 1 .. Len(L) /\ R[j] = L[j + i] BY <1>2, <3>1
    <3> QED BY <2>1, <2>2, <3>2 DEF NoFirstBlock, IsBlock
  <2> QED BY <2>2 DEF Live
<1> HIDE DEF C
<1>12. ClientSide(z, d, R)
  <2> USE DEF ClientSide
  <2>1. Shape(d)
    <3>1. x # WwwDl("ack") /\ x # WwwDl("done") /\ x # WwwDl("fail") BY <1>6
    <3>2. Follows(x, y) BY <1>6, <1>7, <3>1 DEF Follows
    <3> QED BY <1>4, <1>9, <3>2
  <2>2. AsAsked(d)
    <3>1. Last(d) # WwwDl("ack") /\ Last(d) # WwwDl("done") /\ Last(d) # WwwDl("fail")
      BY <1>6, <1>7, <1>9
    <3> QED BY <1>4, <1>7, <1>9, <3>1 DEF AsAsked, LeftBy
  <2>3. Written(z, d)
    <3>1. d.downloadName # None => d.downloadName \in Files BY DEF Clients
    <3>2. d.downloadName # None => z[d.downloadName] \in Nat /\ 0 <= z[d.downloadName]
      BY <3>1, DownloadAssumption DEF Sizes
    <3> QED BY <1>7, <3>2 DEF Written
  <2>4. Expected(z, d, R) BY <1>11 DEF Expected, Quiet
  <2>5. InWindow(d)
    <3>1. c.acknowledged <= d.acknowledged /\ (2 = 2 => y.name # "nextdl") BY <1>1, <1>7
    <3>2. 2 * x.arg < Numbers BY <1>4, <1>5, <1>6 DEF ExpectedAt
    <3>3. \A k \in d.acknowledged + 1 .. Len(c.commands) : OneWindow(c.commands[k], x)
      BY <1>1, <1>4, <1>5, <1>6 DEF ExpectedAt, OneWindow
    <3> QED BY <1>1, <1>3, <3>1, <3>2, <3>3, InWindowKept DEF C
  <2>6. LinkOrder(d, R) BY <1>4, <1>8 DEF LinkOrder
  <2> QED BY <2>1, <2>2, <2>3, <2>4, <2>5, <2>6
<1>13. NoRedirects(s, d, R) BY <1>3, <1>4, <1>6, <1>7, <1>8, <1>9 DEF NoRedirects, C
<1>14. ASSUME s.dropped = "no" PROVE ServerSide(z, s, d, R)
  <2>1. /\ s.download /\ s.downloadName = c.downloadName /\ Begins(s) BY <1>14, TakesFacts
  <2>2. ASSUME NEW K \in Nat, Receiving(z, s, c, L, K) PROVE Received(z, s, d, R, K + 1)
    <3>1. s.lastClientCommand + K = C /\ c.block = s.clientBlock + K
      BY <2>2 DEF Receiving, C
    <3>2. s.lastClientCommand \in Nat /\ s.clientBlock \in Nat BY DEF Servers
    <3>3. s.lastClientCommand + (K + 1) < Len(d.commands)
      <4> DEFINE a == s.lastClientCommand
      <4>1. a \in Nat /\ C \in Nat /\ a + K = C /\ Len(d.commands) = C + 2 BY <1>10, <3>1, <3>2
      <4> HIDE DEF a
      <4>2. a + (K + 1) < C + 2 BY <4>1
      <4> QED BY <4>1, <4>2 DEF a
    <3>4. s.clientBlock + (K + 1) = c.block + 1
      <4> DEFINE b == s.clientBlock
      <4>1. b \in Nat /\ c.block = b + K BY <3>1, <3>2
      <4> HIDE DEF b
      <4>2. b + (K + 1) = b + K + 1 BY <4>1
      <4> QED BY <4>1, <4>2 DEF b
    <3>5. c.block = z[s.downloadName] BY <2>1
    <3>6. K + 1 >= 1 OBVIOUS
    <3> QED BY <1>11, <2>1, <3>3, <3>4, <3>5, <3>6 DEF Received
  <2>3. ~d.wwwDl /\ d.web = None BY <1>4
  <2>4. 2 = 2 => y.name \in {"donedl", "download"} BY <1>7
  <2> QED BY <1>14, <2>2, <2>3, <2>4, TakenServer
<1> QED BY <1>1, <1>12, <1>13, <1>14, TakesFacts DEF Fresh

----------------------------------------------------------------------------
(* The inductive invariant holds.                                          *)

\* A message is read, whatever it is.
LEMMA ParseFresh ==
  ASSUME Always, NEW i \in 1 .. Len(toClient), NEW fails \in BOOLEAN,
         CL_ParseServerMessage(i, fails), Fresh(size, server, client, toClient), ~client'.gaveUp
  PROVE  Fresh(size, server, client', toClient')
<1> DEFINE L == toClient
           R == toClient'
           m == L[i]
           d == client'
<1> SUFFICES Fresh(size, server, d, R) OBVIOUS
<1>1. Types /\ Acknowledged /\ Window /\ Gone BY DEF Always
<1>2. /\ size \in Sizes /\ server \in Servers /\ client \in Clients
      /\ L \in Seq(Messages) /\ m \in Messages /\ Fresh(size, server, client, L)
  BY <1>1 DEF Types, Sizes
<1>3. /\ d \in Clients /\ server' = server
      /\ R = SubSeq(toClient, i + 1, Len(toClient))
      /\ ~client.loads /\ d.acknowledged = m.ack
      /\ ~Entered(m) => ~d.loads
      /\ Ignored(m) \/ Entered(m) \/ Unwanted(m) \/ Referred(m) \/ Taken(m)
  BY <1>1, ParseStep DEF Link
<1>4. R \in Seq(Messages) /\ Without(L, i, R)
  <2>1. R \in Seq(Messages) /\ LinkStep(i) /\ Len(R) = Len(L) - i
    BY <1>1, <1>3, ReceiveStep DEF Link
  <2> QED BY <2>1 DEF LinkStep, Without
<1>5. Reads(size, server, client, d, L, R, i)
  <2>1. client.acknowledged <= m.ack BY <1>1 DEF Acknowledged, Link
  <2>2. server.lastClientCommand <= Len(client.commands) BY <1>1 DEF Acknowledged
  <2>3. server.download => server.downloadName # None BY <1>1 DEF Window
  <2>4. server.dropped # "no" => ~server.download BY <1>1 DEF Gone
  <2> QED BY <1>3, <1>4, <2>1, <2>2, <2>3, <2>4 DEF Reads
<1>6. Command("stopdl", None) \in ClientCommands /\ WwwDl("ack") \in ClientCommands
      /\ WwwDl("fail") \in ClientCommands /\ Command("donedl", None) \in ClientCommands
      /\ (\A f \in Files : Command("download", f) \in ClientCommands)
      /\ \A n \in Nat : Command("nextdl", n) \in ClientCommands
  BY DEF ClientCommands, WwwDl, Command
<1>7. CASE Ignored(m)
  <2>1. m.kind \in {"idle", "block", "redirect"} BY <1>7 DEF Ignored
  <2>2. ~Entered(m) BY <2>1 DEF Entered
  <2>3. Alike(client, d)
    <3>1. client.loads \in BOOLEAN /\ d.loads \in BOOLEAN BY <1>2, <1>3 DEF Clients
    <3>2. d.loads = client.loads BY <1>3, <2>2, <3>1
    <3> QED BY <1>7, <3>2 DEF Ignored, Becomes, Alike
  <2>4. client.acknowledged <= d.acknowledged /\ i \in Nat
    <3>1. d.acknowledged = L[i].ack /\ client.acknowledged <= L[i].ack BY <1>5 DEF Reads
    <3>2. i \in Nat OBVIOUS
    <3> QED BY <3>1, <3>2
  <2> HIDE DEF d, L, R, m
  <2>5. /\ size \in Sizes /\ server \in Servers /\ client \in Clients /\ d \in Clients
        /\ L \in Seq(Messages) /\ Fresh(size, server, client, L)
    BY <1>2, <1>3
  <2> QED BY <1>4, <2>3, <2>4, <2>5, LossFresh
<1>8. CASE Entered(m)
  <2>1. m.kind = "gamestate" /\ ~d.wwwDl /\ ~d.aborting /\ d.web = None BY <1>8 DEF Entered
  <2>2. CASE d.loads /\ d.downloadName = None /\ d.commands = client.commands
    <3> HIDE DEF d, L, R
    <3> QED BY <1>2, <1>3, <1>4, <1>5, <2>1, <2>2, LoadsFresh
  <2>3. ASSUME ~d.loads, NEW f \in Files, AskedForFile(client, d, f)
        PROVE  Fresh(size, server, d, R)
    <3> HIDE DEF d, L, R
    <3> QED BY <1>2, <1>3, <1>4, <1>5, <2>1, <2>3, EnteredFresh
  <2> QED BY <1>8, <2>2, <2>3 DEF Entered
<1>9. CASE Unwanted(m)
  <2>1. m.kind \in {"block", "redirect"} BY <1>9 DEF Unwanted
  <2>2. ~Entered(m) BY <2>1 DEF Entered
  <2>3. /\ client.downloadName = None /\ d.downloadName = None
        /\ d.commands = Append(client.commands, Command("stopdl", None))
        /\ d.wwwDl = client.wwwDl /\ d.aborting = client.aborting /\ d.web = client.web
    BY <1>9 DEF Unwanted, Becomes
  <2> HIDE DEF d, L, R
  <2> QED BY <1>2, <1>3, <1>4, <1>5, <2>1, <2>2, <2>3, UnwantedFresh
<1>10. CASE Referred(m)
  <2> DEFINE x == WwwDl("ack")
             y == WwwDl("fail")
  <2>1. /\ m.kind = "redirect" /\ client.downloadName # None /\ ~client.wwwDl
        /\ d.downloadName = client.downloadName /\ d.block = client.block /\ d.file = client.file
        /\ d.wwwDl
        /\ \/ d.commands = Append(Append(client.commands, x), y) /\ d.aborting /\ d.web = None
           \/ d.commands = Append(client.commands, x) /\ d.aborting = client.aborting /\ d.web = m.web
    BY <1>10 DEF Referred, Becomes
  <2>2. ~Entered(m) BY <2>1 DEF Entered
  <2>3. m.web # None BY <1>2, <2>1 DEF Messages, Files, None
  <2> HIDE DEF d, L, R, x, y
  <2>4. CASE d.commands = Append(Append(client.commands, x), y) /\ d.aborting /\ d.web = None
    <3>1. Adds(client, d, 2, x, y) BY <1>2, <1>3, <1>6, <2>4, AppendAdds DEF x, y
    <3>2. \/ 2 = 1 /\ y = WwwDl("ack") /\ d.web # None /\ d.aborting = client.aborting
          \/ 2 = 2 /\ y = WwwDl("fail") /\ d.web = None /\ d.aborting
      BY <2>4 DEF y
    <3> HIDE DEF m
    <3> QED BY <1>2, <1>3, <1>4, <1>5, <2>1, <2>2, <3>1, <3>2, ReferredFresh DEF x, m
  <2>5. CASE d.commands = Append(client.commands, x) /\ d.aborting = client.aborting /\ d.web = m.web
    <3>1. Adds(client, d, 1, x, x) BY <1>2, <1>3, <1>6, <2>5, AppendAdds DEF x
    <3>2. \/ 1 = 1 /\ x = WwwDl("ack") /\ d.web # None /\ d.aborting = client.aborting
          \/ 1 = 2 /\ x = WwwDl("fail") /\ d.web = None /\ d.aborting
      BY <2>3, <2>5 DEF x
    <3> HIDE DEF m
    <3> QED BY <1>2, <1>3, <1>4, <1>5, <2>1, <2>2, <3>1, <3>2, ReferredFresh DEF x, m
  <2> QED BY <2>1, <2>4, <2>5
<1>11. CASE Taken(m)
  <2> DEFINE x == Command("nextdl", client.block)
  <2>1. /\ m.kind = "block" /\ client.downloadName # None /\ m.number = client.block
        /\ \/ /\ ~Empty(m.data)
              /\ d.downloadName = client.downloadName /\ d.block = client.block + 1
              /\ d.file = Append(client.file, m.data) /\ d.commands = Append(client.commands, x)
              /\ d.wwwDl = client.wwwDl /\ d.aborting = client.aborting /\ d.web = client.web
           \/ /\ Empty(m.data)
              /\ d.wwwDl = client.wwwDl /\ d.aborting = client.aborting /\ d.web = client.web
              /\ MovedOn(Append(client.commands, x))
    BY <1>11 DEF Taken, Becomes
  <2>2. ~d.loads
    <3>1. ~Entered(m) BY <2>1 DEF Entered
    <3> QED BY <1>3, <3>1
  <2>3. Takes(client, L, i) BY <2>1 DEF Takes, IsBlock
  <2>4. Empty(m.data) <=> client.block = size[client.downloadName]
    <3>1. ExpectedAt(size, client, L, i) /\ client.block \in Nat
      <4> HIDE DEF d, L, R
      <4> QED BY <1>2, <1>3, <1>4, <1>5, <2>3, TakesFacts
    <3>2. m.data = Block(client.downloadName, client.block) BY <2>1, <3>1 DEF ExpectedAt
    <3> QED BY <2>1, <3>2 DEF Empty, NoBlock, Block
  <2>5. x \in ClientCommands
    <3>1. client.block \in Nat BY <1>2 DEF Clients
    <3> QED BY <1>6, <3>1
  <2>6. CASE ~Empty(m.data)
    <3>1. /\ d.downloadName = client.downloadName /\ d.block = client.block + 1
          /\ d.file = Append(client.file, L[i].data) /\ d.commands = Append(client.commands, x)
          /\ d.wwwDl = client.wwwDl /\ d.aborting = client.aborting /\ d.web = client.web
          /\ client.block # size[client.downloadName]
      BY <2>1, <2>4, <2>6
    <3> HIDE DEF d, L, R, x
    <3>2. Adds(client, d, 1, x, x) BY <1>2, <1>3, <2>5, <3>1, AppendAdds
    <3>3. x = Command("nextdl", client.block) BY DEF x
    <3> QED BY <1>2, <1>3, <1>4, <1>5, <2>2, <2>3, <3>1, <3>2, <3>3, WrittenFresh
  <2>7. CASE Empty(m.data)
    <3>1. /\ d.wwwDl = client.wwwDl /\ d.aborting = client.aborting /\ d.web = client.web
          /\ client.block = size[client.downloadName]
          /\ MovedOn(Append(client.commands, x))
      BY <2>1, <2>4, <2>7
    <3>2. PICK y \in ClientCommands :
            /\ d.commands = Append(Append(client.commands, x), y)
            /\ \/ d.downloadName = None /\ y = Command("donedl", None)
               \/ \E f \in Files : /\ d.downloadName = f /\ d.block = 0 /\ d.file = <<>>
                                   /\ y = Command("download", f)
      BY <1>6, <3>1 DEF MovedOn
    <3> HIDE DEF d, L, R, x
    <3>3. Adds(client, d, 2, x, y) BY <1>2, <1>3, <2>5, <3>2, AppendAdds
    <3>4. x = Command("nextdl", client.block) BY DEF x
    <3> QED BY <1>2, <1>3, <1>4, <1>5, <2>2, <2>3, <3>1, <3>2, <3>3, <3>4, EndedFresh
  <2> QED BY <2>6, <2>7
<1> QED BY <1>3, <1>7, <1>8, <1>9, <1>10, <1>11

\* A web download ends, however it does.
LEMMA WebEndedFresh ==
  ASSUME Always, NEW fails \in BOOLEAN, Com_WebDownloadComplete(fails),
         Fresh(size, server, client, toClient)
  PROVE  Fresh(size, server, client', toClient)
<1> DEFINE d == client'
           x == WwwDl("fail")
           w == WwwDl("done")
           L == toClient
<1> SUFFICES Fresh(size, server, d, L) OBVIOUS
<1>1. Types /\ Acknowledged BY DEF Always
<1>2. /\ size \in Sizes /\ server \in Servers /\ client \in Clients /\ L \in Seq(Messages)
      /\ Fresh(size, server, client, L)
  BY <1>1 DEF Types, Sizes
<1>3. /\ d \in Clients /\ client.web # None
      /\ d.acknowledged = client.acknowledged /\ d.loads = client.loads
      /\ WebEnded
  BY <1>1, WebStep
<1>4. server.lastClientCommand <= Len(client.commands) BY <1>1 DEF Acknowledged
<1>5. ~client.loads BY <1>3 DEF Fresh, ClientSide, AsAsked
<1>6. /\ x \in ClientCommands /\ w \in ClientCommands /\ Command("donedl", None) \in ClientCommands
      /\ \A f \in Files : Command("download", f) \in ClientCommands
  BY DEF ClientCommands, WwwDl, Command
<1>7. CASE /\ d.downloadName = client.downloadName /\ d.block = client.block /\ d.file = client.file
           /\ d.commands = Append(client.commands, x)
           /\ d.wwwDl = client.wwwDl /\ d.aborting /\ d.web = None
  <2> HIDE DEF d, x, L
  <2>1. Adds(client, d, 1, x, x) BY <1>2, <1>3, <1>6, <1>7, AppendAdds
  <2>2. x = WwwDl("fail") BY DEF x
  <2> QED BY <1>2, <1>3, <1>4, <1>5, <1>7, <2>1, <2>2, WebFresh
<1>8. CASE /\ ~d.wwwDl /\ d.aborting = client.aborting /\ d.web = None
           /\ MovedOn(Append(client.commands, w))
  <2>1. PICK y \in ClientCommands :
          /\ d.commands = Append(Append(client.commands, w), y)
          /\ \/ d.downloadName = None /\ y = Command("donedl", None)
             \/ \E f \in Files : /\ d.downloadName = f /\ d.block = 0 /\ d.file = <<>>
                                 /\ y = Command("download", f)
    BY <1>6, <1>8 DEF MovedOn
  <2> HIDE DEF d, w, L
  <2>2. Adds(client, d, 2, w, y) BY <1>2, <1>3, <1>6, <2>1, AppendAdds
  <2>3. w = WwwDl("done") BY DEF w
  <2> QED BY <1>2, <1>3, <1>4, <1>5, <1>8, <2>1, <2>2, <2>3, WebFresh
<1> QED BY <1>3, <1>7, <1>8 DEF WebEnded, Becomes

\* No stale block can be taken: then it could not before the step either.
LEMMA StillFresh == [Next]_vars /\ Types /\ NoStaleBlocks' => NoStaleBlocks /\ size' = size
<1> SUFFICES ASSUME [Next]_vars, Types, NoStaleBlocks' PROVE NoStaleBlocks /\ size' = size
  OBVIOUS
<1>1. size' = size /\ (client.gaveUp => client'.gaveUp) => NoStaleBlocks /\ size' = size
  BY DEF NoStaleBlocks
<1>2. CASE UNCHANGED vars BY <1>1, <1>2 DEF vars
<1>3. ASSUME NEW late \in BOOLEAN, SV_WriteDownloadToClient(late) PROVE NoStaleBlocks /\ size' = size
  <2>1. UNCHANGED <<size, client>> BY <1>3 DEF SV_WriteDownloadToClient
  <2> QED BY <1>1, <2>1
<1>4. CASE SV_SendClientMessages BY <1>1, <1>4 DEF SV_SendClientMessages
<1>5. CASE SV_ClientCommand
  <2>1. UNCHANGED <<size, client>> BY <1>5 DEF SV_ClientCommand
  <2> QED BY <1>1, <2>1
<1>6. ASSUME NEW i \in 1 .. Len(toClient), NEW fails \in BOOLEAN, CL_ParseServerMessage(i, fails)
      PROVE  NoStaleBlocks /\ size' = size
  <2>1. size' = size /\ (client'.gaveUp \/ client'.gaveUp = client.gaveUp)
    BY <1>6, ParseStep DEF Link
  <2> QED BY <1>1, <2>1
<1>7. ASSUME NEW fails \in BOOLEAN, Com_WebDownloadComplete(fails)
      PROVE  NoStaleBlocks /\ size' = size
  <2>1. size' = size /\ client'.gaveUp = client.gaveUp BY <1>7, WebStep
  <2> QED BY <1>1, <2>1
<1> QED BY <1>2, <1>3, <1>4, <1>5, <1>6, <1>7 DEF Next

\* Then every step keeps what holds without stale blocks.
LEMMA StepFresh ==
  ASSUME Always, [Next]_vars, NoStaleBlocks', NoStaleBlocks, size' = size,
         Fresh(size, server, client, toClient)
  PROVE  Fresh(size, server', client', toClient')
<1>1. Types BY DEF Always
<1>2. CASE UNCHANGED vars BY <1>2 DEF vars
<1>3. ASSUME NEW late \in BOOLEAN, SV_WriteDownloadToClient(late)
      PROVE  Fresh(size, server', client', toClient')
  <2>1. client' = client BY <1>3 DEF SV_WriteDownloadToClient
  <2> QED BY <1>3, <2>1, WriteFresh
<1>4. CASE SV_SendClientMessages
  <2>1. client' = client BY <1>4 DEF SV_SendClientMessages
  <2> QED BY <1>4, <2>1, MessagesFresh
<1>5. CASE SV_ClientCommand
  <2>1. client' = client BY <1>5 DEF SV_ClientCommand
  <2> QED BY <1>5, <2>1, CommandFresh
<1>6. ASSUME NEW i \in 1 .. Len(toClient), NEW fails \in BOOLEAN, CL_ParseServerMessage(i, fails)
      PROVE  Fresh(size, server', client', toClient')
  <2>1. server' = server BY <1>6 DEF CL_ParseServerMessage
  <2>2. ~client'.gaveUp BY DEF NoStaleBlocks
  <2> QED BY <1>6, <2>1, <2>2, ParseFresh
<1>7. ASSUME NEW fails \in BOOLEAN, Com_WebDownloadComplete(fails)
      PROVE  Fresh(size, server', client', toClient')
  <2>1. server' = server /\ toClient' = toClient BY <1>7 DEF Com_WebDownloadComplete
  <2> QED BY <1>7, <2>1, WebEndedFresh
<1> QED BY <1>2, <1>3, <1>4, <1>5, <1>6, <1>7 DEF Next

\* It holds at first: the first file has been asked for.
LEMMA InitFresh == Init => Fresh(size, server, client, toClient)
<1> SUFFICES ASSUME Init PROVE Fresh(size, server, client, toClient) OBVIOUS
<1>1. /\ size \in Sizes
      /\ server.downloadName = None /\ ~server.download /\ ~server.wwwing /\ ~server.fallback
      /\ server.lastClientCommand = 0 /\ server.dropped = "no"
      /\ toClient = <<>>
  BY DEF Init, Sizes
<1>2. /\ client.downloadName = 1 /\ client.block = 0 /\ client.file = <<>>
      /\ client.commands = <<Command("download", 1)>>
      /\ ~client.wwwDl /\ ~client.aborting /\ client.web = None /\ ~client.loads
      /\ client.acknowledged = 0
  BY DEF Init
<1> DEFINE x == Command("download", 1)
<1>3. /\ x.name = "download" /\ x.arg = 1 /\ \A a : x # WwwDl(a) BY DEF WwwDl, Command
<1>4. /\ Len(client.commands) = 1 /\ client.commands[1] = x /\ Last(client) = x
      /\ Len(client.file) = 0 /\ Len(toClient) = 0
  BY <1>1, <1>2 DEF Last
<1> HIDE DEF x
<1>5. Pending(server, client) = {1} BY <1>1, <1>4 DEF Pending
<1>6. Quiet(client, toClient) BY <1>2, <1>4 DEF Quiet
<1>7. ClientSide(size, client, toClient)
  <2> USE DEF ClientSide
  <2>1. Shape(client) BY <1>3, <1>4 DEF Shape
  <2>2. AsAsked(client) BY <1>2, <1>3, <1>4 DEF AsAsked, LeftBy
  <2>3. Written(size, client)
    <3>1. 1 \in Files BY DownloadAssumption DEF Files
    <3>2. size[1] \in Nat /\ 0 <= size[1] BY <1>1, <3>1, DownloadAssumption DEF Sizes
    <3> QED BY <1>2, <1>4, <3>2 DEF Written
  <2>4. Expected(size, client, toClient) BY <1>4 DEF Expected
  <2>5. InWindow(client) BY <1>2, <1>3, <1>4 DEF InWindow
  <2>6. LinkOrder(client, toClient) BY <1>2, <1>4 DEF LinkOrder
  <2> QED BY <2>1, <2>2, <2>3, <2>4, <2>5, <2>6
<1>8. NoRedirects(server, client, toClient) BY <1>2, <1>3, <1>4 DEF NoRedirects
<1>9. ServerSide(size, server, client, toClient)
  <2>1. Sending(size, server, client, toClient) BY <1>1 DEF Sending
  <2>2. NotSending(server, client, toClient) BY <1>1, <1>3, <1>4, <1>5, <1>6 DEF NotSending
  <2>3. ~Gamestates(client, toClient) BY <1>2, <1>4 DEF Gamestates
  <2>4. Closed(server, client, toClient) BY <1>1, <2>3 DEF Closed
  <2>5. Unanswered(server, client) BY <1>3, <1>4, <1>5 DEF Unanswered
  <2>6. ~RedirectKnown(server, client, toClient) BY <1>2, <1>3, <1>4, <1>5 DEF RedirectKnown
  <2> QED BY <1>1, <2>1, <2>2, <2>4, <2>5, <2>6 DEF ServerSide, Redirecting
<1> QED BY <1>1, <1>7, <1>8, <1>9 DEF Fresh

\* The inductive invariant: the window, the link and the acknowledgements are
\* as they should be, and, where no stale block can be taken for another, every
\* command under way is the answer to what the server did.
THEOREM Invariant == Spec => []IInv
<1>1. Init => IInv
  <2>1. Init => Always BY InitAlways
  <2> QED BY <2>1, InitFresh DEF IInv, Always
<1>2. IInv /\ [Next]_vars => IInv'
  <2> SUFFICES ASSUME IInv, [Next]_vars PROVE IInv' OBVIOUS
  <2>1. Always BY DEF IInv, Always
  <2>2. Always' BY <2>1, NextAlways
  <2>3. NoStaleBlocks' => Fresh(size', server', client', toClient')
    <3> SUFFICES ASSUME NoStaleBlocks' PROVE Fresh(size', server', client', toClient') OBVIOUS
    <3>1. NoStaleBlocks /\ size' = size BY <2>1, StillFresh DEF Always
    <3>2. Fresh(size, server, client, toClient) BY <3>1 DEF IInv
    <3>3. Fresh(size, server', client', toClient') BY <2>1, <3>1, <3>2, StepFresh
    <3> QED BY <3>1, <3>3
  <2> QED BY <2>2, <2>3 DEF IInv, Always
<1> QED BY <1>1, <1>2, PTL DEF Spec

\* The state of every variable is of its type; the server reads no block of a
\* file beyond its end, and sends none that it has not read.
THEOREM TypeCorrect == Spec => []TypeOK
<1>1. IInv => TypeOK
  <2> SUFFICES ASSUME IInv PROVE TypeOK OBVIOUS
  <2>1. Types /\ Acknowledged /\ Window /\ Gone BY DEF IInv
  <2>2. /\ size \in [Files -> 1 .. MaxBlocks] /\ server \in Servers /\ client \in Clients
        /\ toClient \in Seq(Messages) /\ Len(toClient) <= MaxInFlight
    BY <2>1 DEF Types
  <2>3. /\ server.downloadName \in {None} \cup Files /\ server.blocks \in [0 .. W - 1 -> Blocks]
        /\ server.xmitBlock \in Nat /\ server.currentBlock \in Nat
    BY <2>2 DEF Servers
  <2>4. server.download => server.currentBlock <= size[server.downloadName] + 1
    BY <2>1 DEF Window, WindowOf
  <2>5. NoStaleBlocks /\ server.download => server.xmitBlock \in 0 .. server.currentBlock
    <3> SUFFICES ASSUME NoStaleBlocks, server.download
                 PROVE  server.xmitBlock <= server.currentBlock
      BY <2>3
    <3>1. server.dropped = "no" BY <2>1 DEF Gone
    <3>2. Sending(size, server, client, toClient) BY <3>1 DEF IInv, Fresh, ServerSide
    <3> QED BY <3>2 DEF Sending
  <2>6. server.lastClientCommand <= Len(client.commands)
        /\ client.acknowledged <= server.lastClientCommand
    BY <2>1 DEF Acknowledged
  <2>7. client.file \in Seq(Blocks) BY <2>2 DEF Clients
  <2>8. \A i \in 1 .. Len(client.file) : client.file[i] \in Blocks BY <2>7
  <2> QED BY <2>2, <2>3, <2>4, <2>5, <2>6, <2>8 DEF TypeOK
<1> QED BY <1>1, Invariant, PTL

\* What the client has written is the beginning of the file it asked for, as long as no
\* file is shorter than the window and none was given up (CL_ParseDownload).
THEOREM BlocksAreExact == Spec => []BlocksExact
<1>1. IInv => BlocksExact
  <2> SUFFICES ASSUME IInv, NoStaleBlocks, client.downloadName # None
               PROVE  /\ Len(client.file) <= size[client.downloadName]
                      /\ client.file = SubSeq(Content(client.downloadName), 1, Len(client.file))
    BY DEF BlocksExact
  <2> DEFINE f == client.downloadName
             F == client.file
             n == Len(F)
             z == size[f]
             C == Content(f)
  <2>1. Types /\ Written(size, client) BY DEF IInv, Fresh, ClientSide
  <2>2. f \in Files /\ F \in Seq(Blocks) /\ size \in [Files -> 1 .. MaxBlocks]
    BY <2>1 DEF Types, Clients
  <2>3. z \in Nat BY <2>2, DownloadAssumption
  <2>4. n <= z /\ n \in Nat /\ \A i \in 1 .. n : F[i] = Block(f, i - 1)
    BY <2>1, <2>2 DEF Written
  <2>5. /\ C \in Seq(Blocks) /\ Len(C) = z /\ \A i \in 1 .. z : C[i] = Block(f, i - 1)
    <3>1. C \in Seq(Blocks) BY <2>1, <2>2, ContentType
    <3>2. C = [i \in 1 .. z |-> Block(f, i - 1)] BY DEF Content
    <3>3. DOMAIN C = 1 .. z BY <3>2
    <3> HIDE DEF C, z
    <3> QED BY <2>3, <3>1, <3>2, <3>3
  <2> HIDE DEF C, z, f, F
  <2>6. F = SubSeq(C, 1, n)
    <3> DEFINE S == SubSeq(C, 1, n)
    <3>1. S \in Seq(Blocks) /\ Len(S) = n /\ \A i \in 1 .. n : S[i] = C[i]
      BY <2>3, <2>4, <2>5, SubSeqProperties
    <3>2. \A i \in 1 .. n : S[i] = F[i] BY <2>3, <2>4, <2>5, <3>1
    <3> HIDE DEF S
    <3> QED BY <2>2, <3>1, <3>2, SeqEqual
  <2> QED BY <2>4, <2>6 DEF C, z, f, F
<1> QED BY <1>1, Invariant, PTL

\* A client that does as the server says is never dropped for a command that
\* does not fit.
THEOREM HonestClientsKept == Spec => []HonestNeverDropped
<1>1. IInv => HonestNeverDropped BY DEF IInv, Fresh, HonestNeverDropped
<1> QED BY <1>1, Invariant, PTL

\* Of acknowledgements that are of one window there are no more than its blocks.
LEMMA OneForEach ==
  ASSUME NEW c \in Clients, InWindow(c)
  PROVE  Cardinality({i \in c.acknowledged + 1 .. Len(c.commands) :
                        c.commands[i].name = "nextdl"}) <= W
<1> DEFINE a == c.acknowledged
           N == Len(c.commands)
           S == {i \in a + 1 .. N : c.commands[i].name = "nextdl"}
           arg(i) == c.commands[i].arg
<1>1. a \in Nat /\ N \in Nat /\ W \in Nat BY CommandTypes, WindowNumber DEF Clients
<1>2. \A i \in S : i \in Nat /\ arg(i) \in Nat
  <2>1. \A i \in S : i \in 1 .. N /\ i \in Nat BY <1>1
  <2> QED BY <2>1, CommandTypes
<1>3. \A i \in S, j \in S : i < j => arg(i) < arg(j) /\ arg(j) < arg(i) + W
  <2> SUFFICES ASSUME NEW i \in S, NEW j \in S, i < j
               PROVE  arg(i) < arg(j) /\ arg(j) < arg(i) + W
    OBVIOUS
  <2>1. i \in a + 1 .. N /\ j \in i + 1 .. N BY <1>1
  <2> QED BY <2>1 DEF InWindow, OneWindow
<1> HIDE DEF a, N, arg
<1>4. CASE S = {}
  <2>1. Cardinality(S) = 0 BY <1>4, FS_EmptySet
  <2> QED BY <1>1, <2>1 DEF a, N
<1>5. CASE S # {}
  <2>1. S \in SUBSET Nat BY <1>2
  <2>2. PICK m \in S : \A i \in S : m <= i BY <1>5, <2>1, LeastExists
  <2> DEFINE A == arg(m)
             B == A + W - 1
             T == A .. B
             f == [i \in S |-> arg(i)]
  <2>3. A \in Nat BY <1>2
  <2>4. \A i \in S : arg(i) \in T
    <3> SUFFICES ASSUME NEW i \in S PROVE arg(i) \in T OBVIOUS
    <3>1. i \in Nat /\ m \in Nat /\ arg(i) \in Nat /\ m <= i BY <1>2, <2>2
    <3>2. W >= 1 BY WindowNumber
    <3>3. CASE i = m BY <1>1, <2>3, <3>2, <3>3
    <3>4. CASE m < i
      <4>1. A < arg(i) /\ arg(i) < A + W BY <1>3, <3>4
      <4> QED BY <1>1, <2>3, <3>1, <4>1
    <3> QED BY <3>1, <3>3, <3>4
  <2>5. \A i \in S, j \in S : arg(i) = arg(j) => i = j
    <3> SUFFICES ASSUME NEW i \in S, NEW j \in S, i # j PROVE arg(i) # arg(j) OBVIOUS
    <3>1. i \in Nat /\ j \in Nat /\ arg(i) \in Nat /\ arg(j) \in Nat BY <1>2
    <3>2. i < j \/ j < i BY <3>1
    <3>3. arg(i) < arg(j) \/ arg(j) < arg(i) BY <1>3, <3>2
    <3> QED BY <3>1, <3>3
  <2> HIDE DEF T, S
  <2>6. f \in Injection(S, T) BY <2>4, <2>5 DEF Injection, IsInjective
  <2>7. IsFiniteSet(T) /\ Cardinality(T) = W
    <3>1. A \in Int /\ B \in Int /\ ~(A > B) /\ B - A + 1 = W BY <1>1, <2>3, WindowNumber
    <3> HIDE DEF A, B
    <3>2. IsFiniteSet(A .. B) /\ Cardinality(A .. B) = IF A > B THEN 0 ELSE B - A + 1
      BY <3>1, FS_Interval
    <3> QED BY <3>1, <3>2 DEF T
  <2>8. Cardinality(S) <= Cardinality(T) BY <2>6, <2>7, FS_Injection
  <2> QED BY <2>7, <2>8 DEF S, a, N
<1> QED BY <1>4, <1>5

\* What was read and is not acknowledged is in its slot of the window, the
\* window is no larger than the buffer, and, where no stale block can be taken
\* for another, the client's acknowledgements that are not themselves
\* acknowledged are no more than the blocks of a window.
THEOREM WindowKept == Spec => []WindowIntact
<1>1. IInv => WindowIntact
  <2> SUFFICES ASSUME IInv PROVE WindowIntact OBVIOUS
  <2>1. Types /\ Window /\ Gone BY DEF IInv
  <2>2. server \in Servers /\ client \in Clients BY <2>1 DEF Types
  <2>3. NoStaleBlocks => AcksFit
    <3> SUFFICES ASSUME NoStaleBlocks PROVE AcksFit OBVIOUS
    <3>1. InWindow(client) BY DEF IInv, Fresh, ClientSide
    <3> QED BY <2>2, <3>1, OneForEach DEF AcksFit
  <2>4. ASSUME server.download, NoStaleBlocks PROVE server.clientBlock <= server.currentBlock
    <3>1. server.dropped = "no" BY <2>1, <2>4 DEF Gone
    <3>2. Sending(size, server, client, toClient) BY <2>4, <3>1 DEF IInv, Fresh, ServerSide
    <3>3. PICK K \in 0 .. Len(client.commands) - server.lastClientCommand :
                 server.clientBlock + K <= server.currentBlock
      BY <2>4, <3>2 DEF Sending
    <3>4. server.clientBlock \in Nat /\ server.currentBlock \in Nat BY <2>2 DEF Servers
    <3>5. K \in Int /\ 0 <= K
      <4>1. Len(client.commands) \in Nat /\ server.lastClientCommand \in Nat
        BY <2>2, CommandTypes DEF Servers
      <4> QED BY <4>1
    <3> QED BY <3>3, <3>4, <3>5
  <2>5. server.download => WindowOf(server) BY <2>1 DEF Window
  <2> QED BY <2>3, <2>4, <2>5 DEF WindowIntact, WindowOf
<1> QED BY <1>1, Invariant, PTL
=============================================================================
